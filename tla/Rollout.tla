------------------------------ MODULE Rollout ------------------------------
(***************************************************************************)
(* How an update of the Values reaches the clusters: Deploy writes the two *)
(* ManagedResources one after the other, GRM applies and prunes their      *)
(* objects one at a time in any order, and the Deployment replaces its pod *)
(* by starting the new one first.  Module Lifecycle has one step for each  *)
(* of these; here the steps in between show, for an extension that has been*)
(* reconciled before.                                                      *)
(***************************************************************************)
EXTENDS Integers, DikiResources

CONSTANTS
    MaxCA,     \* bound: webhook CAs
    Options    \* base options that may be configured, "" for none

ASSUME MaxCAAssumption == MaxCA \in Nat \ {0}

VARIABLES
    values,      \* of the Reconcile that runs or ran last
    at,          \* what that Reconcile does next
    stale,       \* ManagedResources that the informer cache may still show healthy,
                 \* as they were before a write of this Reconcile
    prepared,    \* a Reconcile has succeeded in this phase of the CA rotation
    shoot,       \* objects listed in the shoot ManagedResource
    seed,        \* objects listed in the seed ManagedResource
    live,        \* objects in the clusters
    secrets,     \* Secrets in the shoot's namespace
    pods         \* certificates that running operator pods serve

mrVars == <<shoot, seed>>
vars == <<values, at, stale, prepared, mrVars, live, secrets, pods>>

Values ==
    [replicas : {0, 1}, tls : 1..MaxCA, bundle : SUBSET (0..MaxCA), base : Options]

Accounts == {OperatorAccount, RunnerAccount}
AccessSecrets == {GenericKubeconfig, OperatorAccess, RunnerAccess}
Listed ==
    [id \in DOMAIN shoot \cup DOMAIN seed |->
        IF id \in DOMAIN shoot THEN shoot[id] ELSE seed[id]]
DeploymentId == Seed("Deployment", DikiOperatorName)
Operator == live[DeploymentId]
Config == live[Seed("ConfigMap", DikiOperatorName)]

Init ==
    /\ values \in [replicas : {0, 1}, tls : {1}, bundle : {{1}}, base : Options]
    /\ at = "done" /\ stale = {} /\ prepared = TRUE
    /\ shoot = shootResources(values) /\ seed = seedResources(values)
    /\ live = Listed
    /\ secrets = AccessSecrets \cup {WebhookTLS(1)}
    /\ pods = {}

-----------------------------------------------------------------------------
(* Reconcile: the Secrets, then Deploy, Wait and Cleanup.  One that failed  *)
(* is started again, perhaps for other Values, with an informer cache that  *)
(* has caught up.                                                           *)

Reconcile(v) ==
    /\ values' = v
    /\ at' = "createShoot" /\ stale' = {}
    /\ secrets' = secrets \cup {WebhookTLS(v.tls)}
    /\ UNCHANGED <<mrVars, live, pods>>

Update ==
    /\ \E r \in {0, 1}, b \in Options :
        Reconcile([values EXCEPT !.replicas = r, !.base = b])
    /\ UNCHANGED prepared

\* A new CA signs the certificate; the old one stays in the bundle.
PrepareRotation ==
    /\ prepared /\ values.bundle = {values.tls} /\ values.tls < MaxCA
    /\ Reconcile([values EXCEPT !.tls = @ + 1, !.bundle = {values.tls, values.tls + 1}])
    /\ prepared' = FALSE

CompleteRotation ==
    /\ prepared /\ values.bundle # {values.tls}
    /\ Reconcile([values EXCEPT !.bundle = {values.tls}])
    /\ prepared' = FALSE

\* Mutant: a ManagedResource that exists is not updated.
CreateShootOnce ==
    /\ at = "createShoot" /\ at' = "createSeed"
    /\ UNCHANGED <<values, stale, prepared, mrVars, live, secrets, pods>>

Applied(objects) ==
    \A id \in DOMAIN objects : id \in DOMAIN live /\ live[id] = objects[id]

ShootHealthy == Applied(shoot)

\* The Deployment is available, which one of its pods is enough for, an old one too.
\* Pods come and go: what is applied may have been healthy a moment ago.
SeedHealthy ==
    /\ Applied(seed) /\ DOMAIN live \subseteq DOMAIN Listed
    /\ Operator.replicas = 0 \/ pods # {}

CreateShoot ==
    /\ at = "createShoot" /\ at' = "createSeed"
    /\ shoot' = shootResources(values)
    /\ stale' = IF ShootHealthy /\ shoot' # shoot THEN {"shoot"} ELSE {}
    /\ UNCHANGED <<values, prepared, seed, live, secrets, pods>>

\* Mutant: the error of the second write is swallowed.
CreateSeedFailed ==
    /\ at = "createSeed" /\ at' = "wait"
    /\ UNCHANGED <<values, stale, prepared, mrVars, live, secrets, pods>>

CreateSeed ==
    /\ at = "createSeed" /\ at' = "wait"
    /\ seed' = seedResources(values)
    /\ stale' = IF Applied(seed) THEN stale \cup {"seed"} ELSE stale
    /\ UNCHANGED <<values, prepared, shoot, live, secrets, pods>>

CleanedUp ==
    /\ at' = "done" /\ prepared' = TRUE
    /\ secrets' = AccessSecrets \cup {WebhookTLS(values.tls)}
    /\ UNCHANGED <<values, stale, mrVars, live, pods>>

\* Mutant: Reconcile does not wait before it cleans up.
CleanupUnawaited == at = "wait" /\ CleanedUp

\* Both ManagedResources are healthy, as far as the cache shows.
WaitAndCleanup ==
    /\ at = "wait"
    /\ SeedHealthy \/ "seed" \in stale
    /\ ShootHealthy \/ "shoot" \in stale
    /\ CleanedUp

-----------------------------------------------------------------------------
(* gardener-resource-manager and the Deployment controller.                 *)

Apply(id) ==
    /\ ~(id \in DOMAIN live /\ live[id] = Listed[id])
    /\ live' = [other \in DOMAIN live \cup {id} |->
                IF other = id THEN Listed[id] ELSE live[other]]
    /\ UNCHANGED <<values, at, stale, prepared, mrVars, secrets, pods>>

Prune ==
    \E id \in DOMAIN live \ DOMAIN Listed :
        /\ live' = [other \in DOMAIN live \ {id} |-> live[other]]
        /\ UNCHANGED <<values, at, stale, prepared, mrVars, secrets, pods>>

StartPod ==
    /\ Operator.replicas = 1
    /\ \E n \in 1..MaxCA \ pods :
        /\ Operator.mounts[webhookTLSMountPath] = WebhookTLS(n)
        /\ Operator.refs \subseteq DOMAIN live \cup secrets
        /\ pods' = pods \cup {n}
    /\ UNCHANGED <<values, at, stale, prepared, mrVars, live, secrets>>

UpToDate(n) == Operator.mounts[webhookTLSMountPath] = WebhookTLS(n)

\* An old pod goes when a new one is there.
StopPod ==
    /\ \E n \in pods :
        /\ Operator.replicas = 0 \/ (~UpToDate(n) /\ \E m \in pods : UpToDate(m))
        /\ pods' = pods \ {n}
    /\ UNCHANGED <<values, at, stale, prepared, mrVars, live, secrets>>

PodDies ==
    /\ \E n \in pods : pods' = pods \ {n}
    /\ UNCHANGED <<values, at, stale, prepared, mrVars, live, secrets>>

-----------------------------------------------------------------------------
Actuator == CreateShoot \/ CreateSeed \/ WaitAndCleanup
ResourceManager == (\E id \in DOMAIN Listed : Apply(id)) \/ Prune
Requests == Update \/ PrepareRotation \/ CompleteRotation

Progress == Actuator \/ ResourceManager \/ StartPod \/ StopPod

Next == Progress \/ Requests \/ PodDies

Spec == Init /\ [][Next]_vars

\* The actuator, GRM and the Deployment controller keep working.
Fairness ==
    /\ WF_vars(Actuator) /\ WF_vars(ResourceManager)
    /\ WF_vars(StartPod) /\ WF_vars(StopPod)

FairSpec == Spec /\ Fairness

-----------------------------------------------------------------------------
\* What is written finds all it names in what is written, among the Secrets and
\* the accounts, at every step of an update.  What GRM has applied so far may miss
\* the base options; and the Deployment, until GRM applies the one written, its
\* certificate, because a wait for a stale ManagedResource does not keep Cleanup
\* from deleting it.
ReferencesResolve ==
    LET resolve(objects, id, missing) ==
            objects[id].refs \subseteq DOMAIN objects \cup secrets \cup Accounts \cup missing
        late(id) == live[id] # Listed[id]
        certificate == {Operator.mounts[webhookTLSMountPath]}
    IN /\ \A id \in DOMAIN Listed : resolve(Listed, id, {})
       /\ \A id \in DOMAIN live : resolve(live, id, {BaseOptions} \cup
            IF id = DeploymentId /\ late(id) THEN certificate ELSE {})

\* Once an update is applied, the operator's configuration names the base
\* options exactly when they exist, with the configured content.
OptionsFollow ==
    at \in {"wait", "done"} /\ live = Listed =>
        /\ BaseOptions \in Config.refs <=> values.base # ""
        /\ BaseOptions \in DOMAIN live <=> values.base # ""
        /\ values.base # "" => live[BaseOptions].data = values.base

\* An update takes nothing out of the clusters but the base options.
OnlyOptionsVanish == [][DOMAIN live \ DOMAIN live' \subseteq {BaseOptions}]_vars

\* The way from the URL of a webhook to the operator: the Service of that name,
\* its port, an open NetworkPolicy, pods it selects, the port that the operator's
\* configuration gives its webhook server, whose certificate is mounted where the
\* configuration says and has the host among its names.
Reaches(url) ==
    LET svc == live[Seed("Service", url.service)]
    IN /\ Seed("Service", url.service) \in DOMAIN live /\ url.ns = Namespace
       /\ svc.selector \subseteq Operator.labels
       /\ \E port \in {svc.ports.metrics, svc.ports.webhooks} :
            /\ port.port = url.port
            /\ port.target = svc.allowed.webhook
            /\ port.target \in Operator.ports /\ port.target = Config.webhook
       /\ \E n \in 1..MaxCA : Operator.mounts[Config.certDir] = WebhookTLS(n)
       /\ <<url.service, url.ns>> \in DNSNames

WebhookKinds == {"ValidatingWebhookConfiguration", "MutatingWebhookConfiguration"}
WebhooksOf(objects) ==
    UNION {objects[id].webhooks : id \in {i \in DOMAIN objects : i.kind \in WebhookKinds}}
Webhooks == WebhooksOf(live)

\* Every webhook, the probes and the monitoring find the operator at any time.
OperatorIsFound ==
    /\ \A w \in Webhooks : Reaches(w.url)
    /\ Operator.probe = Config.health /\ Config.health \in Operator.ports
    /\ LET monitor == live[Seed("ServiceMonitor", MonitorName)]
           svc == live[Seed("Service", DikiOperatorName)]
       IN /\ monitor.selector \subseteq svc.labels
          /\ svc.ports[monitor.port].target = Config.metrics
          /\ svc.allowed.scrape = Config.metrics
    /\ Operator.selector \subseteq Operator.labels

\* What an account may do, with the namespace ("" for all).
Permissions(account) ==
    UNION {{b.ns} \X live[live[b].role].rules :
        b \in {id \in DOMAIN live :
                /\ id.kind \in {"RoleBinding", "ClusterRoleBinding"}
                /\ live[id].account = account}}

\* The operator can do its work on scans in the whole shoot but not on pods; the
\* runner can start its pods in kube-system only, and may report on scans, but
\* not create, change or delete them.
AccountsStayApart ==
    LET operator == Permissions(OperatorAccount)
        runner == Permissions(RunnerAccount)
    IN /\ \A verb \in {"get", "update", "delete"} :
            <<"", <<"compliancescans", verb>>>> \in operator
       /\ \A p \in operator : p[2][1] \notin {"pods", "pods/exec"}
       /\ <<"kube-system", <<"pods/exec", "create">>>> \in runner
       /\ \A p \in runner :
            /\ p[2][1] \in {"pods", "pods/exec"} /\ p[2][2] \notin Read => p[1] = "kube-system"
            /\ p[2][1] \in {"compliancescans", "scheduledcompliancescans"} => p[2][2] \in Read

-----------------------------------------------------------------------------
\* The Deployment among these objects mounts a certificate of one of these CAs.
MountsCert(objects, cas) ==
    /\ DeploymentId \in DOMAIN objects
    /\ \E n \in cas :
        objects[DeploymentId].mounts[webhookTLSMountPath] = WebhookTLS(n)

\* Each webhook configuration among these objects has one of these bundles.
HaveBundles(objects, bundles) ==
    \A id \in DOMAIN objects : id.kind \in WebhookKinds =>
        \E bundle \in bundles : \A w \in objects[id].webhooks : w.bundle = bundle

\* The bundles that there may be in a rotation, in their order: before it, where
\* something of the rotation before may be left, during it, and after it.
Rotating == values.bundle # {values.tls}
Before == {{values.tls - 2, values.tls - 1}, {values.tls - 1}}
During == {values.tls - 1, values.tls}
After == {values.tls}

\* What is written is at most one phase of the rotation late, for as long as the
\* Reconcile of this phase has not written it; what is applied follows what is
\* written and is at most one rotation late.
BundlesInv ==
    LET unwritten == at = "createShoot" /\ ~prepared
    IN \/ /\ Rotating /\ unwritten
          /\ HaveBundles(shoot, {{values.tls - 1}}) /\ HaveBundles(live, Before)
          /\ MountsCert(seed, {values.tls - 1})
       \/ /\ Rotating \/ unwritten
          /\ HaveBundles(shoot, {During}) /\ HaveBundles(live, Before \cup {During})
       \/ /\ ~Rotating
          /\ HaveBundles(shoot, {After}) /\ HaveBundles(live, Before \cup {During, After})

\* Likewise for the certificate, which is never newer than the one written.
CertificateInv ==
    \/ /\ Rotating /\ ~prepared /\ at # "wait"
       /\ MountsCert(seed, {values.tls - 1}) /\ MountsCert(live, {values.tls - 1})
    \/ MountsCert(seed, {values.tls}) /\ MountsCert(live, During)

\* A rotation is not complete before everything applied has left the previous CA,
\* although the waits may be for stale ManagedResources: one is stale only if what
\* the phase before has written was applied.
CompletionInv ==
    ~Rotating =>
        /\ prepared \/ "seed" \in stale => MountsCert(live, {values.tls})
        /\ prepared \/ "shoot" \in stale => HaveBundles(live, {During, After})

RotationInv ==
    /\ values \in Values /\ values.bundle \in {During, After}
    /\ DeploymentId \notin DOMAIN shoot
    /\ \A id \in DOMAIN seed : id.kind \notin WebhookKinds
    /\ BundlesInv /\ CertificateInv /\ CompletionInv

\* A webhook distrusts a running pod only if the Deployment is replacing the pod,
\* or in a rotation, as long as GRM has not applied what is written of webhook and
\* certificate.
DistrustIsTransient ==
    \A n \in pods, w \in Webhooks :
        \/ n \in w.bundle
        \/ ~UpToDate(n)
        \/ /\ Rotating \/ ~prepared
           /\ w \notin WebhooksOf(shoot) \/ Operator.mounts # seed[DeploymentId].mounts

\* Certificate and bundles, as applied, keep to the rotation of a CA.
WebhookIds == {Global(kind, "gardener-extension-diki") : kind \in WebhookKinds}
DeployedCert == Operator.mounts[webhookTLSMountPath].ca
DeployedTrust == [id \in WebhookIds |-> UNION {w.bundle : w \in live[id].webhooks}]

Rotation == INSTANCE CARotation WITH
    Clients <- WebhookIds,
    newest <- values.tls,
    cert <- DeployedCert,
    trust <- DeployedTrust

ImplementsRotation == Rotation!Spec

\* When requests cease and pods do not die, every webhook trusts every pod.
TrustReturns ==
    <>[][Progress]_vars => <>[](\A n \in pods, w \in Webhooks : n \in w.bundle)

=============================================================================
