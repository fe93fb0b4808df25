---------------------------- MODULE RolloutProofs ----------------------------
(***************************************************************************)
(* That an update of the Values, however its writes, its waits for stale   *)
(* ManagedResources, GRM and the pods interleave, keeps to the rotation of *)
(* a CA and leaves nothing without what it refers to: for every number of  *)
(* rotations and all base options.                                         *)
(***************************************************************************)
EXTENDS ResourcesProofs

-----------------------------------------------------------------------------
(* Which objects are listed and applied, and that each is one of those that  *)
(* are rendered.                                                             *)

\* Which objects there are does not depend on the Values, the base options aside.
ListingInv ==
    /\ DOMAIN shoot = ShootIds
    /\ DOMAIN seed \in {SeedIds, SeedIds \cup {BaseOptions}}
    /\ ShootIds \cup SeedIds \subseteq DOMAIN live
    /\ DOMAIN live \subseteq ShootIds \cup SeedIds \cup {BaseOptions}

\* Each bundle is written for some Values, of which the Secrets are kept: what the
\* seed's names, when a Reconcile cleans up, is what that one has written itself.
\* GRM may have applied objects of many Values.
WrittenInv ==
    /\ values \in Values /\ Secrets(values) \subseteq secrets
    /\ \E v \in Values : shoot = shootResources(v)
    /\ \E v \in Values :
        /\ seed = seedResources(v) /\ Secrets(v) \subseteq secrets
        /\ at \in {"wait", "done"} => v = values
    /\ AreRendered(live)

LEMMA InitListing == Init => ListingInv
BY ShootDomain, SeedDomain DEF Init, ListingInv, Listed

LEMMA NextListing == ListingInv /\ [Next]_vars => ListingInv'
<1>. SUFFICES ASSUME ListingInv, [Next]_vars PROVE ListingInv'
    OBVIOUS
<1>1. CASE Requests
    BY <1>1 DEF Requests, Update, PrepareRotation, CompleteRotation, Reconcile,
        mrVars, ListingInv
<1>2. CASE CreateShoot
    BY <1>2, ShootDomain DEF CreateShoot, ListingInv
<1>3. CASE CreateSeed
    BY <1>3, SeedDomain DEF CreateSeed, ListingInv
<1>4. CASE WaitAndCleanup
    BY <1>4 DEF WaitAndCleanup, CleanedUp, mrVars, ListingInv
<1>5. CASE ResourceManager
    <2>1. ASSUME NEW id \in DOMAIN Listed, Apply(id) PROVE ListingInv'
        BY <2>1 DEF Apply, Listed, ListingInv, mrVars
    <2>2. CASE Prune
        BY <2>2 DEF Prune, Listed, ListingInv, mrVars
    <2>. QED BY <1>5, <2>1, <2>2 DEF ResourceManager
<1>6. CASE StartPod \/ StopPod \/ PodDies
    BY <1>6 DEF StartPod, StopPod, PodDies, mrVars, ListingInv
<1>7. CASE UNCHANGED vars
    BY <1>7 DEF vars, mrVars, ListingInv
<1>. QED
    BY <1>1, <1>2, <1>3, <1>4, <1>5, <1>6, <1>7 DEF Next, Progress, Actuator

LEMMA InitWritten == Init => WrittenInv
<1>. SUFFICES ASSUME Init PROVE WrittenInv
    OBVIOUS
<1>1. values \in Values /\ values.tls = 1
    BY MaxCAAssumption DEF Init, Values
<1>2. Secrets(values) \subseteq secrets
    BY <1>1 DEF Init, Secrets
<1>3. AreRendered(live)
    BY <1>1, ResourcesRendered, ListedRendered DEF Init
<1>. QED
    BY <1>1, <1>2, <1>3 DEF Init, WrittenInv

\* The Values of the next Reconcile.
LEMMA RequestsValues ==
    ASSUME values \in Values, Requests
    PROVE  \E v \in Values : Reconcile(v)
<1>1. CASE Update
    <2>1. PICK r \in {0, 1}, b \in Options :
            Reconcile([values EXCEPT !.replicas = r, !.base = b])
        BY <1>1 DEF Update
    <2>2. [values EXCEPT !.replicas = r, !.base = b] \in Values
        BY DEF Values
    <2>. QED BY <2>1, <2>2
<1>2. CASE PrepareRotation
    <2>1. values.tls + 1 \in 1..MaxCA /\ {values.tls, values.tls + 1} \subseteq 0..MaxCA
        BY <1>2, MaxCAAssumption DEF PrepareRotation, Values
    <2>2. [values EXCEPT !.tls = @ + 1, !.bundle = {values.tls, values.tls + 1}] \in Values
        BY <2>1 DEF Values
    <2>. QED BY <1>2, <2>2 DEF PrepareRotation
<1>3. CASE CompleteRotation
    <2>1. [values EXCEPT !.bundle = {values.tls}] \in Values
        BY MaxCAAssumption DEF Values
    <2>. QED BY <1>3, <2>1 DEF CompleteRotation
<1>. QED
    BY <1>1, <1>2, <1>3 DEF Requests

LEMMA NextWritten == WrittenInv /\ [Next]_vars => WrittenInv'
<1>. SUFFICES ASSUME WrittenInv, [Next]_vars PROVE WrittenInv'
    OBVIOUS
<1>. USE DEF WrittenInv
<1>1. CASE Requests
    <2>1. PICK v \in Values : Reconcile(v)
        BY <1>1, RequestsValues
    <2>2. Secrets(v) \subseteq secrets'
        BY <2>1 DEF Reconcile, Secrets
    <2>3. secrets \subseteq secrets' /\ at' \notin {"wait", "done"}
        BY <2>1 DEF Reconcile
    <2>4. \E w \in Values : seed = seedResources(w) /\ Secrets(w) \subseteq secrets'
        BY <2>3
    <2>. QED BY <2>1, <2>2, <2>3, <2>4 DEF Reconcile, mrVars, AreRendered
<1>2. CASE CreateShoot
    BY <1>2 DEF CreateShoot, AreRendered
<1>3. CASE CreateSeed
    BY <1>3 DEF CreateSeed, AreRendered
<1>4. CASE WaitAndCleanup
    <2>1. seed = seedResources(values)
        BY <1>4 DEF WaitAndCleanup
    <2>2. Secrets(values) \subseteq secrets'
        BY <1>4 DEF WaitAndCleanup, CleanedUp, Secrets
    <2>. QED BY <1>4, <2>1, <2>2 DEF WaitAndCleanup, CleanedUp, mrVars, AreRendered
<1>5. CASE ResourceManager
    <2>1. AreRendered(live')
        <3>1. AreRendered(Listed)
            BY ResourcesRendered, ListedRendered
        <3>2. ASSUME NEW id \in DOMAIN Listed, Apply(id) PROVE AreRendered(live')
            BY <3>1, <3>2 DEF Apply, AreRendered
        <3>3. CASE Prune
            BY <3>3 DEF Prune, AreRendered
        <3>. QED BY <1>5, <3>2, <3>3 DEF ResourceManager
    <2>2. UNCHANGED <<values, at, secrets, shoot, seed>>
        BY <1>5 DEF ResourceManager, Apply, Prune, mrVars
    <2>. QED BY <2>1, <2>2
<1>6. CASE StartPod \/ StopPod \/ PodDies
    BY <1>6 DEF StartPod, StopPod, PodDies, mrVars, AreRendered
<1>7. CASE UNCHANGED vars
    BY <1>7 DEF vars, mrVars, AreRendered
<1>. QED
    BY <1>1, <1>2, <1>3, <1>4, <1>5, <1>6, <1>7 DEF Next, Progress, Actuator

\* Every bundle lists, and the clusters have, the same objects whatever the Values.
THEOREM ListingInvariant == Spec => []ListingInv
BY InitListing, NextListing, PTL DEF Spec

\* What is written is of some Values with their Secrets, and every object in the
\* clusters is one that is rendered for some Values.
THEOREM WrittenInvariant == Spec => []WrittenInv
BY InitWritten, NextWritten, PTL DEF Spec

\* Updates, however they overtake each other, take nothing but the base options
\* out of the clusters.
THEOREM OnlyOptionsEverVanish == Spec => OnlyOptionsVanish
<1>1. ListingInv /\ ListingInv' => DOMAIN live \ DOMAIN live' \subseteq {BaseOptions}
    BY DEF ListingInv
<1>. QED
    BY <1>1, ListingInvariant, PTL DEF Spec, OnlyOptionsVanish

\* The objects that are always there, by name.
LEMMA AlwaysThere ==
    /\ {DeploymentId, ConfigId, Seed("Service", DikiOperatorName),
        Seed("ServiceMonitor", MonitorName)} \subseteq SeedIds
    /\ {Global("ClusterRoleBinding", "diki-operator"), System("RoleBinding", "diki-scanner")}
        \subseteq ShootIds
    /\ OperatorRoles \cup RunnerRoles \subseteq ShootIds \cup SeedIds
    /\ WebhookIds \subseteq ShootIds
<1>1. OperatorRoles \ {Seed("Role", DikiOperatorName)} \subseteq {p[1] : p \in accessObjects}
    BY DEF OperatorRoles, accessObjects
<1>2. RunnerRoles \subseteq {p[1] : p \in accessObjects}
    BY DEF RunnerRoles, accessObjects
<1>3. {Global("ClusterRoleBinding", "diki-operator"), System("RoleBinding", "diki-scanner")}
        \subseteq {p[1] : p \in accessObjects}
    BY DEF accessObjects
<1>4. {p[1] : p \in accessObjects} \subseteq ShootIds
    BY DEF ShootIds
<1>5. Seed("Role", DikiOperatorName) \in SeedIds
    BY DEF SeedIds
<1>6. {DeploymentId, ConfigId, Seed("Service", DikiOperatorName),
        Seed("ServiceMonitor", MonitorName)} \subseteq SeedIds
    BY DEF SeedIds, DeploymentId, ConfigId
<1>7. WebhookIds \subseteq ShootIds
    BY DEF WebhookIds, WebhookKinds, ShootIds
<1>. QED
    BY <1>1, <1>2, <1>3, <1>4, <1>5, <1>6, <1>7

-----------------------------------------------------------------------------
(* What follows from what is written and what is rendered.                   *)

\* At every step of an update each object finds what it names, but for the base
\* options and the certificate of a Deployment that GRM has still to replace.
THEOREM ReferencesAlwaysResolve == Spec => []ReferencesResolve
<1>1. ListingInv /\ WrittenInv => ReferencesResolve
    <2>. SUFFICES ASSUME ListingInv, WrittenInv PROVE ReferencesResolve
        OBVIOUS
    <2>1. DOMAIN Listed = DOMAIN shoot \cup DOMAIN seed
        BY DEF Listed
    <2>2. ASSUME NEW id \in DOMAIN Listed
          PROVE  Listed[id].refs \subseteq DOMAIN Listed \cup secrets \cup Accounts
        <3>1. PICK v : shoot = shootResources(v)
            BY DEF WrittenInv
        <3>2. PICK w : seed = seedResources(w) /\ Secrets(w) \subseteq secrets
            BY DEF WrittenInv
        <3>3. CASE id \in DOMAIN shoot
            <4>1. Listed[id] = shoot[id]
                BY <3>3 DEF Listed
            <4>. QED BY <2>1, <3>1, <3>3, <4>1, ResourcesRefs, ShootDomain
        <3>4. CASE id \in DOMAIN seed /\ id \notin DOMAIN shoot
            <4>1. Listed[id] = seed[id]
                BY <3>4 DEF Listed
            <4>. QED BY <2>1, <3>2, <3>4, <4>1, ResourcesRefs
        <3>. QED BY <2>1, <3>3, <3>4
    <2>3. AccessSecrets \subseteq secrets
        BY DEF WrittenInv, Secrets
    <2>4. ShootIds \cup SeedIds \subseteq DOMAIN live
        BY DEF ListingInv
    <2>5. ASSUME NEW id \in DOMAIN live
          PROVE  live[id].refs \subseteq DOMAIN live \cup secrets \cup Accounts \cup {BaseOptions}
                    \cup IF id = DeploymentId THEN {Operator.mounts[webhookTLSMountPath]} ELSE {}
        <3>1. PICK v \in Values : \E p \in Rendered(v) : p[1] = id /\ p[2] = live[id]
            BY DEF WrittenInv, AreRendered, IsRendered
        <3>. QED BY <2>3, <2>4, <3>1, RenderedRefs DEF Operator
    <2>6. ASSUME live[DeploymentId] = Listed[DeploymentId]
          PROVE  Operator.refs \subseteq DOMAIN live \cup secrets \cup Accounts \cup {BaseOptions}
        <3>1. DeploymentId \in DOMAIN Listed
            BY <2>1, AlwaysThere DEF ListingInv
        <3>2. Operator.refs \subseteq DOMAIN Listed \cup secrets \cup Accounts
            BY <2>2, <2>6, <3>1 DEF Operator
        <3>. QED BY <2>1, <2>4, <3>2 DEF ListingInv
    <2>7. ASSUME NEW id \in DOMAIN live
          PROVE  live[id].refs \subseteq DOMAIN live \cup secrets \cup Accounts \cup ({BaseOptions}
                    \cup IF id = DeploymentId /\ live[id] # Listed[id]
                            THEN {Operator.mounts[webhookTLSMountPath]} ELSE {})
        <3>1. CASE id = DeploymentId /\ live[id] = Listed[id]
            BY <2>6, <3>1 DEF Operator
        <3>2. CASE id # DeploymentId \/ live[id] # Listed[id]
            BY <2>5, <3>2
        <3>. QED BY <3>1, <3>2
    <2>. QED BY <2>2, <2>7 DEF ReferencesResolve
<1>. QED
    BY <1>1, ListingInvariant, WrittenInvariant, PTL

\* Once an update is applied, the operator's configuration names the base options
\* exactly when they exist, and they have the content that is configured.
THEOREM OptionsAlwaysFollow == Spec => []OptionsFollow
<1>1. ListingInv /\ WrittenInv => OptionsFollow
    <2>. SUFFICES ASSUME ListingInv, WrittenInv, at \in {"wait", "done"}, live = Listed
                  PROVE  /\ BaseOptions \in Config.refs <=> values.base # ""
                         /\ BaseOptions \in DOMAIN live <=> values.base # ""
                         /\ values.base # "" => live[BaseOptions].data = values.base
        BY DEF OptionsFollow
    <2>1. seed = seedResources(values)
        BY DEF WrittenInv
    <2>2. ConfigId \notin DOMAIN shoot /\ BaseOptions \notin DOMAIN shoot
        BY NoConfigMapInShoot, ConfigIdFacts DEF ListingInv
    <2>3. \A id \in DOMAIN seed \ DOMAIN shoot : id \in DOMAIN live /\ live[id] = seed[id]
        BY DEF Listed
    <2>4. Config = operatorConfig(values)
        BY <2>1, <2>2, <2>3, SeedOptions DEF Config, ConfigId
    <2>5. BaseOptions \in operatorConfig(values).refs <=> values.base # ""
        <3>1. GenericKubeconfig # BaseOptions /\ RunnerAccess # BaseOptions
            BY Kinds, ConfigIdFacts DEF GenericKubeconfig, RunnerAccess
        <3>. QED BY <3>1 DEF operatorConfig
    <2>6. BaseOptions \in DOMAIN live <=> BaseOptions \in DOMAIN seed
        BY <2>2 DEF Listed
    <2>. QED BY <2>1, <2>2, <2>3, <2>4, <2>5, <2>6, SeedOptions
<1>. QED
    BY <1>1, ListingInvariant, WrittenInvariant, PTL

\* The applied objects that the way to the operator depends on; the Deployment
\* and the configuration may be those of different Values.
LEMMA AppliedOperator ==
    ASSUME ListingInv, WrittenInv
    PROVE  /\ \E v \in Values : Operator = deployment(v)
           /\ \E v \in Values : Config = operatorConfig(v)
           /\ live[Seed("Service", DikiOperatorName)] = service
           /\ live[Seed("ServiceMonitor", MonitorName)] = serviceMonitor
<1>1. \A id \in DOMAIN live : IsRendered(id, live[id])
    BY DEF WrittenInv, AreRendered
<1>2. IsRendered(DeploymentId, Operator) /\ IsRendered(ConfigId, Config)
    BY <1>1, AlwaysThere DEF ListingInv, Operator, Config, ConfigId
<1>3. /\ IsRendered(Seed("Service", DikiOperatorName), live[Seed("Service", DikiOperatorName)])
      /\ IsRendered(Seed("ServiceMonitor", MonitorName),
                    live[Seed("ServiceMonitor", MonitorName)])
    BY <1>1, AlwaysThere DEF ListingInv
<1>. QED
    BY <1>2, <1>3, OperatorObjects DEF IsRendered

\* Every webhook of every update finds the operator, and so do the probes and the
\* monitoring, with configuration, Service and Deployment of different updates.
THEOREM OperatorAlwaysFound == Spec => []OperatorIsFound
<1>1. ListingInv /\ WrittenInv => OperatorIsFound
    <2>. SUFFICES ASSUME ListingInv, WrittenInv PROVE OperatorIsFound
        OBVIOUS
    <2>1. PICK v \in Values : Operator = deployment(v)
        BY AppliedOperator
    <2>2. PICK u \in Values : Config = operatorConfig(u)
        BY AppliedOperator
    <2>3. /\ Operator.labels = podLabels /\ Operator.selector = labels
          /\ Operator.ports = {portHealth, portMetrics, portWebhook}
          /\ Operator.probe = portHealth
        BY <2>1 DEF deployment
    <2>4. /\ Config.health = portHealth /\ Config.metrics = portMetrics
          /\ Config.webhook = portWebhook /\ Config.certDir = webhookTLSMountPath
        BY <2>2 DEF operatorConfig
    <2>5. labels \subseteq podLabels
        BY DEF labels, podLabels
    <2>6. /\ service.selector = labels
          /\ service.ports.metrics.port = portMetrics
          /\ service.ports.metrics.target = portMetrics
          /\ service.ports.webhooks.port = 443 /\ service.ports.webhooks.target = portWebhook
          /\ service.allowed.webhook = portWebhook /\ service.allowed.scrape = portMetrics
        BY DEF service
    <2>7. \E n \in 1..MaxCA : Operator.mounts[Config.certDir] = WebhookTLS(n)
        BY <2>1, <2>4, DeploymentCert DEF Values
    <2>8. Seed("Service", DikiOperatorName) \in DOMAIN live
        BY AlwaysThere DEF ListingInv
    <2>9. ASSUME NEW url, url.service = DikiOperatorName, url.ns = Namespace, url.port = 443
          PROVE  Reaches(url)
        <3>1. <<url.service, url.ns>> \in DNSNames
            BY <2>9 DEF DNSNames
        <3>. DEFINE svc == live[Seed("Service", url.service)]
        <3>2. svc = service
            BY <2>9, AppliedOperator
        <3>3. /\ svc.ports.webhooks.port = url.port
              /\ svc.ports.webhooks.target = svc.allowed.webhook
              /\ svc.ports.webhooks.target \in Operator.ports
              /\ svc.ports.webhooks.target = Config.webhook
            BY <2>3, <2>4, <2>6, <2>9, <3>2
        <3>4. svc.selector \subseteq Operator.labels
            BY <2>3, <2>5, <2>6, <3>2
        <3>. QED BY <2>7, <2>8, <2>9, <3>1, <3>3, <3>4 DEF Reaches
    <2>10. ASSUME NEW w \in Webhooks PROVE Reaches(w.url)
        <3>1. PICK id \in DOMAIN live : id.kind \in WebhookKinds /\ w \in live[id].webhooks
            BY DEF Webhooks, WebhooksOf
        <3>2. PICK x \in Values : \E p \in Rendered(x) : p[1] = id /\ p[2] = live[id]
            BY DEF WrittenInv, AreRendered, IsRendered
        <3>3. w.url.service = DikiOperatorName /\ w.url.ns = Namespace /\ w.url.port = 443
            BY <3>1, <3>2, WebhookObjects
        <3>. QED BY <2>9, <3>3
    <2>11. /\ serviceMonitor.port = "metrics" /\ service.ports["metrics"].target = portMetrics
           /\ serviceMonitor.selector \subseteq service.labels
        BY DEF serviceMonitor, service
    <2>. QED BY <2>3, <2>4, <2>5, <2>6, <2>10, <2>11, AppliedOperator DEF OperatorIsFound
<1>. QED
    BY <1>1, ListingInvariant, WrittenInvariant, PTL

\* The bindings of an account that are applied, and what they allow.
LEMMA AppliedBinding ==
    ASSUME ListingInv, WrittenInv, NEW account, NEW p \in Permissions(account)
    PROVE  \E b \in DOMAIN live :
            /\ b.kind \in Bindings /\ live[b].account = account
            /\ p[1] = b.ns /\ p[2] \in live[live[b].role].rules
BY DEF Permissions, Bindings

\* The roles that are applied are the ones that are rendered, whichever Values the
\* rest of the objects is of.
LEMMA AppliedRoles ==
    ASSUME ListingInv, WrittenInv
    PROVE  /\ live[Global("ClusterRole", "diki-operator")] = operatorClusterRole
           /\ live[System("Role", "diki-operator-leader-election")] = roleLeaderElection
           /\ live[Seed("Role", DikiOperatorName)] = role
           /\ live[Global("ClusterRole", "scanner.diki.gardener.cloud")] = scannerClusterRole
           /\ live[Global("ClusterRole", "exporter.diki.gardener.cloud")] = exporterClusterRole
           /\ live[System("Role", "scanner.diki.gardener.cloud")] = scannerRole
<1>1. \A id \in OperatorRoles \cup RunnerRoles : IsRendered(id, live[id])
    BY AlwaysThere DEF WrittenInv, AreRendered, ListingInv
<1>. QED
    BY <1>1, RoleObjects DEF IsRendered, OperatorRoles, RunnerRoles

\* The operator may do its work on scans, but nothing with pods; the runner starts
\* pods in kube-system only and changes no scan: during every update as well.
THEOREM AccountsAlwaysApart == Spec => []AccountsStayApart
<1>1. ListingInv /\ WrittenInv => AccountsStayApart
    <2>. SUFFICES ASSUME ListingInv, WrittenInv PROVE AccountsStayApart
        OBVIOUS
    <2>1. \A b \in DOMAIN live : IsRendered(b, live[b])
        BY DEF WrittenInv, AreRendered
    <2>. DEFINE operatorBinding == Global("ClusterRoleBinding", "diki-operator")
                runnerBinding == System("RoleBinding", "diki-scanner")
    <2>2. /\ operatorBinding.kind \in Bindings /\ operatorBinding.ns = ""
          /\ runnerBinding.kind \in Bindings /\ runnerBinding.ns = "kube-system"
        BY DEF Global, System, Id, Bindings
    <2>3. operatorBinding \in DOMAIN live /\ runnerBinding \in DOMAIN live
        BY AlwaysThere DEF ListingInv
    <2>. HIDE DEF operatorBinding, runnerBinding
    <2>4. /\ live[operatorBinding].account = OperatorAccount
          /\ live[operatorBinding].role = Global("ClusterRole", "diki-operator")
        <3>1. PICK v \in Values :
                \E p \in Rendered(v) : p[1] = operatorBinding /\ p[2] = live[operatorBinding]
            BY <2>1, <2>3 DEF IsRendered
        <3>2. PICK p \in Rendered(v) : p[1] = operatorBinding /\ p[2] = live[operatorBinding]
            BY <3>1
        <3>. QED BY <2>2, <3>2, BindingObjects DEF operatorBinding
    <2>5. /\ live[runnerBinding].account = RunnerAccount
          /\ live[runnerBinding].role = System("Role", "scanner.diki.gardener.cloud")
        <3>1. PICK v \in Values :
                \E p \in Rendered(v) : p[1] = runnerBinding /\ p[2] = live[runnerBinding]
            BY <2>1, <2>3 DEF IsRendered
        <3>2. PICK p \in Rendered(v) : p[1] = runnerBinding /\ p[2] = live[runnerBinding]
            BY <3>1
        <3>. QED BY <2>2, <3>2, BindingObjects DEF runnerBinding
    <2>6. ASSUME NEW b \in DOMAIN live, b.kind \in Bindings, NEW r \in live[live[b].role].rules
          PROVE  <<b.ns, r>> \in Permissions(live[b].account)
        BY <2>6 DEF Permissions, Bindings
    <2>7. \A verb \in {"get", "update", "delete"} :
            <<"", <<"compliancescans", verb>>>> \in Permissions(OperatorAccount)
        BY <2>2, <2>3, <2>4, <2>6, AppliedRoles, OperatorRules
    <2>8. <<"kube-system", <<"pods/exec", "create">>>> \in Permissions(RunnerAccount)
        BY <2>2, <2>3, <2>5, <2>6, AppliedRoles, RunnerRules
    <2>9. ASSUME NEW p \in Permissions(OperatorAccount)
          PROVE  p[2][1] \notin {"pods", "pods/exec"}
        <3>1. PICK b \in DOMAIN live :
                /\ b.kind \in Bindings /\ live[b].account = OperatorAccount
                /\ p[1] = b.ns /\ p[2] \in live[live[b].role].rules
            BY AppliedBinding
        <3>2. live[b].role \in OperatorRoles
            BY <2>1, <3>1, BindingObjects DEF IsRendered
        <3>3. p[2] \in operatorClusterRole.rules \cup roleLeaderElection.rules \cup role.rules
            BY <3>1, <3>2, AppliedRoles DEF OperatorRoles
        <3>. QED BY <3>3, OperatorRules
    <2>10. ASSUME NEW p \in Permissions(RunnerAccount)
           PROVE  /\ p[2][1] \in {"pods", "pods/exec"} /\ p[2][2] \notin Read =>
                        p[1] = "kube-system"
                  /\ p[2][1] \in {"compliancescans", "scheduledcompliancescans"} => p[2][2] \in Read
        <3>1. PICK b \in DOMAIN live :
                /\ b.kind \in Bindings /\ live[b].account = RunnerAccount
                /\ p[1] = b.ns /\ p[2] \in live[live[b].role].rules
            BY AppliedBinding
        <3>2. /\ live[b].role \in RunnerRoles
              /\ live[b].role.kind = "Role" => p[1] = "kube-system"
            BY <2>1, <3>1, BindingObjects DEF IsRendered
        <3>3. \/ p[2] \in scannerRole.rules /\ p[1] = "kube-system"
              \/ p[2] \in scannerClusterRole.rules \cup exporterClusterRole.rules
            BY <3>1, <3>2, AppliedRoles, RoleNames DEF RunnerRoles
        <3>. QED BY <3>3, RunnerRules
    <2>. QED BY <2>7, <2>8, <2>9, <2>10 DEF AccountsStayApart
<1>. QED
    BY <1>1, ListingInvariant, WrittenInvariant, PTL

-----------------------------------------------------------------------------
(* The rotation of a CA.                                                     *)

\* Bundles of some, or certificates of some CAs, are of more.
LEMMA HaveMore ==
    ASSUME NEW objects, NEW some, NEW more, some \subseteq more, HaveBundles(objects, some)
    PROVE  HaveBundles(objects, more)
BY DEF HaveBundles

LEMMA MountsMore ==
    ASSUME NEW objects, NEW some, NEW more, some \subseteq more, MountsCert(objects, some)
    PROVE  MountsCert(objects, more)
BY DEF MountsCert

\* No webhook is an object of the seed.
LEMMA SeedIdsKinds == \A id \in SeedIds : id.kind \notin WebhookKinds
BY Kinds DEF SeedIds, WebhookKinds

\* The phases of a rotation.
LEMMA Phases ==
    ASSUME RotationInv
    PROVE  /\ values.tls \in 1..MaxCA /\ values.tls \in Int /\ values.tls - 1 # values.tls
           /\ Rotating => values.bundle = During
           /\ ~Rotating => values.bundle = After
           /\ During # After
           /\ Before = {{values.tls - 2, values.tls - 1}, {values.tls - 1}}
           /\ During = {values.tls - 1, values.tls} /\ After = {values.tls}
<1>1. values.tls \in 1..MaxCA
    BY DEF RotationInv, Values
<1>2. values.tls \in Int /\ values.tls - 1 # values.tls
    BY <1>1, MaxCAAssumption
<1>3. During # After
    BY <1>2 DEF During, After
<1>. QED
    BY <1>1, <1>2, <1>3 DEF RotationInv, Rotating, Before, During, After

\* What is to be applied: the Deployment of the seed, the webhooks of the shoot.
LEMMA ListedFacts ==
    ASSUME RotationInv
    PROVE  /\ DeploymentId \in DOMAIN Listed
           /\ Listed[DeploymentId] = seed[DeploymentId]
           /\ \A id \in DOMAIN Listed : id.kind \in WebhookKinds =>
                id \in DOMAIN shoot /\ Listed[id] = shoot[id]
<1>1. DeploymentId \in DOMAIN seed /\ DeploymentId \notin DOMAIN shoot
    BY DEF RotationInv, CertificateInv, MountsCert
<1>2. DeploymentId \in DOMAIN Listed /\ Listed[DeploymentId] = seed[DeploymentId]
    BY <1>1 DEF Listed
<1>3. ASSUME NEW id \in DOMAIN Listed, id.kind \in WebhookKinds
      PROVE  id \in DOMAIN shoot /\ Listed[id] = shoot[id]
    BY <1>3 DEF Listed, RotationInv
<1>. QED
    BY <1>2, <1>3

LEMMA InitRotation == Init => RotationInv
<1>. SUFFICES ASSUME Init PROVE RotationInv
    OBVIOUS
<1>1. values \in Values /\ values.tls = 1 /\ values.bundle = {1}
    BY InitWritten DEF Init, WrittenInv
<1>2. ~Rotating /\ After = {1} /\ prepared /\ stale = {}
    BY <1>1 DEF Rotating, After, Init
<1>3. /\ HaveBundles(shoot, {After}) /\ DeploymentId \notin DOMAIN shoot
      /\ MountsCert(seed, {values.tls}) /\ \A id \in DOMAIN seed : id.kind \notin WebhookKinds
    BY <1>1, <1>2, ShootBundle, SeedCert DEF Init
<1>4. live = Listed
    BY DEF Init
<1>5. MountsCert(live, {values.tls})
    BY <1>3, <1>4 DEF MountsCert, Listed
<1>6. HaveBundles(live, {After})
    BY <1>3, <1>4 DEF HaveBundles, Listed
<1>7. BundlesInv
    BY <1>2, <1>3, <1>6, HaveMore DEF BundlesInv
<1>8. CertificateInv
    BY <1>3, <1>5, MountsMore DEF CertificateInv, During
<1>9. CompletionInv
    BY <1>5, <1>6, HaveMore DEF CompletionInv
<1>. QED
    BY <1>1, <1>2, <1>3, <1>7, <1>8, <1>9 DEF RotationInv

LEMMA UpdateRotation == ASSUME RotationInv, Update PROVE RotationInv'
<1>1. PICK r \in {0, 1}, b \in Options : Reconcile([values EXCEPT !.replicas = r, !.base = b])
    BY DEF Update
<1>2. values' = [values EXCEPT !.replicas = r, !.base = b]
    BY <1>1 DEF Reconcile
<1>3. values' \in Values /\ values'.tls = values.tls /\ values'.bundle = values.bundle
    BY <1>2 DEF RotationInv, Values
<1>4. /\ at' = "createShoot" /\ stale' = {} /\ prepared' = prepared
      /\ UNCHANGED <<shoot, seed, live>>
    BY <1>1 DEF Update, Reconcile, mrVars
<1>5. Rotating' = Rotating /\ Before' = Before /\ During' = During /\ After' = After
    BY <1>3 DEF Rotating, Before, During, After
<1>6. BundlesInv'
    BY <1>3, <1>4, <1>5 DEF BundlesInv, RotationInv, HaveBundles, MountsCert
<1>7. CertificateInv'
    BY <1>3, <1>4, <1>5 DEF CertificateInv, RotationInv, MountsCert
<1>8. CompletionInv'
    BY <1>3, <1>4, <1>5 DEF CompletionInv, RotationInv, HaveBundles, MountsCert
<1>. QED
    BY <1>3, <1>4, <1>5, <1>6, <1>7, <1>8 DEF RotationInv

\* A rotation begins when everything has left the one before.
LEMMA PrepareRotationFacts ==
    ASSUME RotationInv, PrepareRotation
    PROVE  /\ values' \in Values /\ values'.tls = values.tls + 1
           /\ values'.bundle = {values.tls, values.tls + 1}
           /\ at' = "createShoot" /\ stale' = {} /\ ~prepared'
           /\ UNCHANGED <<shoot, seed, live>>
           /\ HaveBundles(shoot, {After}) /\ HaveBundles(live, {During, After})
           /\ MountsCert(seed, {values.tls}) /\ MountsCert(live, {values.tls})
<1>. DEFINE v == [values EXCEPT !.tls = @ + 1, !.bundle = {values.tls, values.tls + 1}]
<1>1. Reconcile(v) /\ prepared /\ ~prepared' /\ values.tls < MaxCA /\ ~Rotating
    BY DEF PrepareRotation, Rotating
<1>2. values.tls + 1 \in 1..MaxCA /\ {values.tls, values.tls + 1} \subseteq 0..MaxCA
    BY <1>1, Phases, MaxCAAssumption
<1>3. v \in Values /\ v.tls = values.tls + 1 /\ v.bundle = {values.tls, values.tls + 1}
    BY <1>2 DEF RotationInv, Values
<1>. HIDE DEF v
<1>4. HaveBundles(shoot, {After})
    BY <1>1 DEF RotationInv, BundlesInv
<1>5. MountsCert(seed, {values.tls})
    BY <1>1 DEF RotationInv, CertificateInv
<1>6. HaveBundles(live, {During, After}) /\ MountsCert(live, {values.tls})
    BY <1>1 DEF RotationInv, CompletionInv
<1>. QED
    BY <1>1, <1>3, <1>4, <1>5, <1>6 DEF Reconcile, mrVars

LEMMA PrepareRotationRotation == ASSUME RotationInv, PrepareRotation PROVE RotationInv'
<1>1. values'.tls - 1 = values.tls /\ values'.tls - 2 = values.tls - 1
    BY PrepareRotationFacts, Phases
<1>2. /\ Rotating' /\ values'.bundle = During'
      /\ Before' = {During, After} /\ {values'.tls - 1} = After
    BY <1>1, PrepareRotationFacts, Phases DEF Rotating, Before, During, After
<1>3. MountsCert(seed', {values'.tls - 1}) /\ MountsCert(live', {values'.tls - 1})
    BY <1>1, PrepareRotationFacts
<1>4. HaveBundles(shoot', {{values'.tls - 1}}) /\ HaveBundles(live', Before')
    BY <1>2, PrepareRotationFacts
<1>5. BundlesInv'
    BY <1>2, <1>3, <1>4, PrepareRotationFacts DEF BundlesInv
<1>6. CertificateInv'
    BY <1>2, <1>3, PrepareRotationFacts DEF CertificateInv
<1>7. CompletionInv'
    BY <1>2 DEF CompletionInv
<1>. QED
    BY <1>2, <1>5, <1>6, <1>7, PrepareRotationFacts DEF RotationInv

LEMMA CompleteRotationRotation == ASSUME RotationInv, CompleteRotation PROVE RotationInv'
<1>1. /\ Reconcile([values EXCEPT !.bundle = {values.tls}])
      /\ prepared /\ ~prepared' /\ Rotating
    BY DEF CompleteRotation, Rotating
<1>2. values' = [values EXCEPT !.bundle = {values.tls}]
    BY <1>1 DEF Reconcile
<1>3. values' \in Values /\ values'.tls = values.tls /\ values'.bundle = {values.tls}
    BY <1>2, Phases, MaxCAAssumption DEF RotationInv, Values
<1>4. at' = "createShoot" /\ stale' = {} /\ UNCHANGED <<shoot, seed, live>>
    BY <1>1 DEF Reconcile, mrVars
<1>5. /\ ~Rotating' /\ values'.bundle = After'
      /\ Before' = Before /\ During' = During /\ After' = After
    BY <1>3 DEF Rotating, Before, During, After
<1>6. HaveBundles(shoot, {During}) /\ HaveBundles(live, Before \cup {During})
    BY <1>1 DEF RotationInv, BundlesInv
<1>7. BundlesInv'
    BY <1>1, <1>4, <1>5, <1>6 DEF BundlesInv
<1>8. CertificateInv'
    BY <1>1, <1>3, <1>4, <1>5 DEF CertificateInv, RotationInv
<1>9. CompletionInv'
    BY <1>1, <1>4 DEF CompletionInv
<1>. QED
    BY <1>3, <1>4, <1>5, <1>7, <1>8, <1>9 DEF RotationInv

\* The steps that leave the Values alone leave the phase alone.
LEMMA SamePhase ==
    ASSUME values' = values
    PROVE  Rotating' = Rotating /\ Before' = Before /\ During' = During /\ After' = After
BY DEF Rotating, Before, During, After

\* The shoot bundle, healthy with the version before, has left the bundles that
\* were there before the rotation.
LEMMA CreateShootRotation ==
    ASSUME ListingInv, RotationInv, CreateShoot PROVE RotationInv'
<1>1. /\ at = "createShoot" /\ at' = "createSeed" /\ shoot' = shootResources(values)
      /\ stale' = IF ShootHealthy /\ shoot' # shoot THEN {"shoot"} ELSE {}
      /\ UNCHANGED <<values, prepared, seed, live>>
    BY DEF CreateShoot
<1>2. HaveBundles(shoot', {values.bundle}) /\ DeploymentId \notin DOMAIN shoot'
    BY <1>1, ShootBundle
<1>3. Rotating' = Rotating /\ Before' = Before /\ During' = During /\ After' = After
    BY <1>1, SamePhase
<1>4. BundlesInv'
    <2>1. CASE Rotating
        <3>1. HaveBundles(live, Before \cup {During})
            BY <2>1, HaveMore DEF RotationInv, BundlesInv
        <3>. QED BY <1>1, <1>2, <1>3, <2>1, <3>1, Phases DEF BundlesInv
    <2>2. CASE ~Rotating
        <3>1. HaveBundles(live, Before \cup {During, After})
            BY <2>2, HaveMore DEF RotationInv, BundlesInv
        <3>. QED BY <1>1, <1>2, <1>3, <2>2, <3>1, Phases DEF BundlesInv
    <2>. QED BY <2>1, <2>2
<1>5. CertificateInv'
    BY <1>1, <1>3 DEF RotationInv, CertificateInv
<1>6. CompletionInv'
    <2>1. CASE Rotating
        BY <1>3, <2>1 DEF CompletionInv
    <2>2. CASE ~Rotating
        <3>1. "seed" \notin stale'
            BY <1>1
        <3>2. ASSUME "shoot" \in stale' PROVE HaveBundles(live, {During, After})
            <4>1. ShootHealthy
                BY <1>1, <3>2
            <4>2. HaveBundles(shoot, {During, After})
                BY <2>2, HaveMore DEF RotationInv, BundlesInv
            <4>3. \A id \in DOMAIN live : id.kind \in WebhookKinds => id \in DOMAIN shoot
                BY SeedIdsKinds, ConfigIdFacts DEF ListingInv, WebhookKinds
            <4>. QED BY <4>1, <4>2, <4>3 DEF ShootHealthy, Applied, HaveBundles
        <3>. QED BY <1>1, <1>3, <3>1, <3>2 DEF CompletionInv, RotationInv
    <2>. QED BY <2>1, <2>2
<1>. QED
    BY <1>1, <1>2, <1>3, <1>4, <1>5, <1>6 DEF RotationInv

\* The seed bundle, healthy with the version before, has the new certificate if the
\* rotation is about to be complete.
LEMMA CreateSeedRotation == ASSUME RotationInv, CreateSeed PROVE RotationInv'
<1>1. /\ at = "createSeed" /\ at' = "wait" /\ seed' = seedResources(values)
      /\ stale' = IF Applied(seed) THEN stale \cup {"seed"} ELSE stale
      /\ UNCHANGED <<values, prepared, shoot, live>>
    BY DEF CreateSeed
<1>2. /\ MountsCert(seed', {values.tls})
      /\ \A id \in DOMAIN seed' : id.kind \notin WebhookKinds
    BY <1>1, SeedCert
<1>3. Rotating' = Rotating /\ Before' = Before /\ During' = During /\ After' = After
    BY <1>1, SamePhase
<1>4. BundlesInv'
    BY <1>1, <1>3 DEF BundlesInv, RotationInv
<1>5. CertificateInv'
    <2>1. MountsCert(live, During)
        BY Phases, MountsMore DEF RotationInv, CertificateInv
    <2>. QED BY <1>1, <1>2, <1>3, <2>1 DEF CertificateInv
<1>6. CompletionInv'
    <2>1. CASE Rotating
        BY <1>3, <2>1 DEF CompletionInv
    <2>2. CASE ~Rotating
        <3>1. ASSUME Applied(seed) PROVE MountsCert(live, {values.tls})
            <4>1. MountsCert(seed, {values.tls})
                BY <2>2 DEF RotationInv, CertificateInv
            <4>. QED BY <3>1, <4>1 DEF Applied, MountsCert
        <3>. QED BY <1>1, <1>3, <2>2, <3>1 DEF CompletionInv, RotationInv
    <2>. QED BY <2>1, <2>2
<1>. QED
    BY <1>1, <1>2, <1>3, <1>4, <1>5, <1>6 DEF RotationInv

\* What a wait, for a healthy ManagedResource or a stale one, is over for.
LEMMA WaitRotation ==
    ASSUME ListingInv, RotationInv, WaitAndCleanup PROVE RotationInv'
<1>1. /\ at = "wait" /\ at' = "done" /\ prepared'
      /\ SeedHealthy \/ "seed" \in stale
      /\ ShootHealthy \/ "shoot" \in stale
      /\ UNCHANGED <<values, stale, shoot, seed, live>>
    BY DEF WaitAndCleanup, CleanedUp, mrVars
<1>2. Rotating' = Rotating /\ Before' = Before /\ During' = During /\ After' = After
    BY <1>1, SamePhase
<1>3. MountsCert(seed, {values.tls})
    BY <1>1 DEF RotationInv, CertificateInv
<1>4. BundlesInv'
    BY <1>1, <1>2 DEF BundlesInv, RotationInv
<1>5. CertificateInv'
    BY <1>1, <1>2 DEF CertificateInv, RotationInv
<1>6. CompletionInv'
    <2>1. CASE Rotating
        BY <1>2, <2>1 DEF CompletionInv
    <2>2. CASE ~Rotating
        <3>1. MountsCert(live, {values.tls})
            <4>1. CASE "seed" \in stale
                BY <2>2, <4>1 DEF RotationInv, CompletionInv
            <4>2. CASE SeedHealthy
                BY <1>3, <4>2 DEF SeedHealthy, Applied, MountsCert
            <4>. QED BY <1>1, <4>1, <4>2
        <3>2. HaveBundles(live, {During, After})
            <4>1. CASE "shoot" \in stale
                BY <2>2, <4>1 DEF RotationInv, CompletionInv
            <4>2. CASE ShootHealthy
                <5>1. HaveBundles(shoot, {During, After})
                    BY <2>2, HaveMore DEF RotationInv, BundlesInv
                <5>2. \A id \in DOMAIN live : id.kind \in WebhookKinds => id \in DOMAIN shoot
                    BY SeedIdsKinds, ConfigIdFacts DEF ListingInv, WebhookKinds
                <5>. QED BY <4>2, <5>1, <5>2 DEF ShootHealthy, Applied, HaveBundles
            <4>. QED BY <1>1, <4>1, <4>2
        <3>. QED BY <1>1, <1>2, <3>1, <3>2 DEF CompletionInv
    <2>. QED BY <2>1, <2>2
<1>. QED
    BY <1>1, <1>2, <1>4, <1>5, <1>6 DEF RotationInv

\* GRM: an object gets the listed content, or one that is not listed goes.
LEMMA ResourceManagerRotation ==
    ASSUME RotationInv, ResourceManager PROVE RotationInv'
<1>1. UNCHANGED <<values, at, stale, prepared, shoot, seed>>
    BY DEF ResourceManager, Apply, Prune, mrVars
<1>2. Rotating' = Rotating /\ Before' = Before /\ During' = During /\ After' = After
    BY <1>1, SamePhase
<1>3. ASSUME NEW cas, MountsCert(live, cas), MountsCert(seed, cas)
      PROVE  MountsCert(live', cas)
    <2>1. ASSUME NEW id \in DOMAIN Listed, Apply(id) PROVE MountsCert(live', cas)
        <3>1. live' = [other \in DOMAIN live \cup {id} |->
                        IF other = id THEN Listed[id] ELSE live[other]]
            BY <2>1 DEF Apply
        <3>. QED BY <1>3, <3>1, ListedFacts DEF MountsCert
    <2>2. CASE Prune
        BY <1>3, <2>2, ListedFacts DEF Prune, MountsCert
    <2>. QED BY <2>1, <2>2 DEF ResourceManager
<1>4. ASSUME NEW some, HaveBundles(live, some), HaveBundles(shoot, some)
      PROVE  HaveBundles(live', some)
    <2>1. ASSUME NEW id \in DOMAIN Listed, Apply(id) PROVE HaveBundles(live', some)
        <3>1. live' = [other \in DOMAIN live \cup {id} |->
                        IF other = id THEN Listed[id] ELSE live[other]]
            BY <2>1 DEF Apply
        <3>. QED BY <1>4, <3>1, ListedFacts DEF HaveBundles
    <2>2. CASE Prune
        BY <1>4, <2>2 DEF Prune, HaveBundles
    <2>. QED BY <2>1, <2>2 DEF ResourceManager
<1>5. BundlesInv'
    <2>1. HaveBundles(shoot, {{values.tls - 1}}) /\ HaveBundles(live, Before) =>
            HaveBundles(live', Before)
        BY <1>4, HaveMore, Phases
    <2>2. HaveBundles(shoot, {During}) /\ HaveBundles(live, Before \cup {During}) =>
            HaveBundles(live', Before \cup {During})
        BY <1>4, HaveMore
    <2>3. HaveBundles(shoot, {After}) /\ HaveBundles(live, Before \cup {During, After}) =>
            HaveBundles(live', Before \cup {During, After})
        BY <1>4, HaveMore
    <2>4. BundlesInv
        BY DEF RotationInv
    <2>5. BundlesInv' =
            \/ /\ Rotating /\ at = "createShoot" /\ ~prepared
               /\ HaveBundles(shoot, {{values.tls - 1}}) /\ HaveBundles(live', Before)
               /\ MountsCert(seed, {values.tls - 1})
            \/ /\ Rotating \/ (at = "createShoot" /\ ~prepared)
               /\ HaveBundles(shoot, {During}) /\ HaveBundles(live', Before \cup {During})
            \/ /\ ~Rotating
               /\ HaveBundles(shoot, {After}) /\ HaveBundles(live', Before \cup {During, After})
        BY <1>1, <1>2 DEF BundlesInv
    <2>. QED BY <2>1, <2>2, <2>3, <2>4, <2>5 DEF BundlesInv
<1>6. CertificateInv'
    <2>1. MountsCert(seed, {values.tls}) => MountsCert(seed, During)
        BY Phases, MountsMore
    <2>. QED BY <1>1, <1>2, <1>3, <2>1 DEF CertificateInv, RotationInv
<1>7. CompletionInv'
    <2>1. CASE Rotating
        BY <1>2, <2>1 DEF CompletionInv
    <2>2. CASE ~Rotating
        <3>1. MountsCert(seed, {values.tls}) /\ HaveBundles(shoot, {During, After})
            BY <2>2, HaveMore DEF RotationInv, BundlesInv, CertificateInv
        <3>. QED BY <1>1, <1>2, <1>3, <1>4, <2>2, <3>1 DEF CompletionInv, RotationInv
    <2>. QED BY <2>1, <2>2
<1>. QED
    BY <1>1, <1>2, <1>5, <1>6, <1>7 DEF RotationInv

\* The pods, and steps that change nothing.
LEMMA OtherRotation ==
    ASSUME RotationInv, UNCHANGED <<values, at, stale, prepared, shoot, seed, live>>
    PROVE  RotationInv'
<1>1. Rotating' = Rotating /\ Before' = Before /\ During' = During /\ After' = After
    BY SamePhase
<1>. QED
    BY <1>1 DEF RotationInv, BundlesInv, CertificateInv, CompletionInv

LEMMA NextRotation == ListingInv /\ RotationInv /\ [Next]_vars => RotationInv'
<1>. SUFFICES ASSUME ListingInv, RotationInv, [Next]_vars PROVE RotationInv'
    OBVIOUS
<1>1. CASE Requests
    BY <1>1, UpdateRotation, PrepareRotationRotation, CompleteRotationRotation DEF Requests
<1>2. CASE Actuator
    BY <1>2, CreateShootRotation, CreateSeedRotation, WaitRotation DEF Actuator
<1>3. CASE ResourceManager
    BY <1>3, ResourceManagerRotation
<1>4. CASE StartPod \/ StopPod \/ PodDies
    BY <1>4, OtherRotation DEF StartPod, StopPod, PodDies, mrVars
<1>5. CASE UNCHANGED vars
    BY <1>5, OtherRotation DEF vars, mrVars
<1>. QED
    BY <1>1, <1>2, <1>3, <1>4, <1>5 DEF Next, Progress

\* What is written and what is applied follow a rotation, by one phase and by one
\* rotation at most.
THEOREM RotationInvariant == Spec => []RotationInv
BY InitRotation, NextRotation, ListingInvariant, PTL DEF Spec

\* A pod of the current template is distrusted only in a rotation, by a webhook or
\* because of a certificate that GRM has still to replace.
THEOREM DistrustAlwaysTransient == Spec => []DistrustIsTransient
<1>1. RotationInv => DistrustIsTransient
    <2>. SUFFICES ASSUME RotationInv, NEW n \in pods, NEW w \in Webhooks, UpToDate(n),
                         ~(/\ Rotating \/ ~prepared
                           /\ \/ w \notin WebhooksOf(shoot)
                              \/ Operator.mounts # seed[DeploymentId].mounts)
                  PROVE  n \in w.bundle
        BY DEF DistrustIsTransient
    <2>1. ASSUME NEW cas, MountsCert(live, cas) PROVE n \in cas
        BY <2>1, CertNames DEF MountsCert, UpToDate, Operator
    <2>2. n \in During
        BY <2>1, MountsMore, Phases DEF RotationInv, CertificateInv
    <2>3. CASE ~Rotating /\ prepared
        <3>1. n = values.tls
            BY <2>1, <2>3 DEF RotationInv, CompletionInv
        <3>2. w.bundle \in {During, After}
            BY <2>3 DEF RotationInv, CompletionInv, HaveBundles, Webhooks, WebhooksOf
        <3>. QED BY <3>1, <3>2, Phases
    <2>4. CASE w \in WebhooksOf(shoot) /\ Operator.mounts = seed[DeploymentId].mounts
        <3>1. ASSUME NEW cas, MountsCert(seed, cas) PROVE n \in cas
            BY <2>4, <3>1, CertNames DEF MountsCert, UpToDate
        <3>2. ASSUME NEW bundle, HaveBundles(shoot, {bundle}) PROVE w.bundle = bundle
            BY <2>4, <3>2 DEF HaveBundles, WebhooksOf
        <3>3. CASE HaveBundles(shoot, {{values.tls - 1}}) /\ MountsCert(seed, {values.tls - 1})
            BY <3>1, <3>2, <3>3
        <3>4. CASE HaveBundles(shoot, {During})
            BY <2>2, <3>2, <3>4
        <3>5. CASE ~Rotating /\ HaveBundles(shoot, {After})
            <4>1. MountsCert(seed, {values.tls})
                BY <3>5 DEF RotationInv, CertificateInv
            <4>. QED BY <3>1, <3>2, <3>5, <4>1, Phases
        <3>. QED BY <3>3, <3>4, <3>5 DEF RotationInv, BundlesInv
    <2>. QED BY <2>3, <2>4
<1>. QED
    BY <1>1, RotationInvariant, PTL

-----------------------------------------------------------------------------
(* Rollout implements CARotation.                                            *)

\* The webhook configurations, as applied.
LEMMA WebhookIdsFacts ==
    /\ \A id \in WebhookIds : id.kind \in WebhookKinds
    /\ DeploymentId \notin WebhookIds
<1>1. \A id \in WebhookIds : id.kind \in WebhookKinds
    BY Kinds DEF WebhookIds
<1>2. DeploymentId.kind \notin WebhookKinds
    BY Kinds DEF DeploymentId, WebhookKinds
<1>. QED
    BY <1>1, <1>2

\* The trust of a webhook configuration is the bundle that each of its webhooks has,
\* and the certificate deployed is that of the Deployment.
LEMMA TrustFacts ==
    ASSUME ListingInv, WrittenInv
    PROVE  /\ \A bundles : HaveBundles(live, bundles) =>
                \A id \in WebhookIds : DeployedTrust[id] \in bundles
           /\ \A cas : MountsCert(live, cas) => DeployedCert \in cas
<1>1. ASSUME NEW bundles, HaveBundles(live, bundles), NEW id \in WebhookIds
      PROVE  DeployedTrust[id] \in bundles
    <2>1. id \in DOMAIN live /\ id.kind \in WebhookKinds
        BY AlwaysThere, WebhookIdsFacts DEF ListingInv
    <2>2. PICK bundle \in bundles : \A w \in live[id].webhooks : w.bundle = bundle
        BY <1>1, <2>1 DEF HaveBundles
    <2>3. live[id].webhooks # {}
        <3>1. PICK v \in Values : \E p \in Rendered(v) : p[1] = id /\ p[2] = live[id]
            BY <2>1 DEF WrittenInv, AreRendered, IsRendered
        <3>2. PICK p \in Rendered(v) : p[1] = id /\ p[2] = live[id]
            BY <3>1
        <3>. QED BY <2>1, <3>2, WebhookObjects
    <2>4. {w.bundle : w \in live[id].webhooks} = {bundle}
        BY <2>2, <2>3
    <2>5. DeployedTrust[id] = UNION {w.bundle : w \in live[id].webhooks}
        BY DEF DeployedTrust
    <2>6. DeployedTrust[id] = UNION {bundle}
        BY <2>4, <2>5
    <2>. QED BY <2>2, <2>6
<1>2. ASSUME NEW cas, MountsCert(live, cas) PROVE DeployedCert \in cas
    <2>1. PICK n \in cas : Operator.mounts[webhookTLSMountPath] = WebhookTLS(n)
        BY <1>2 DEF MountsCert, Operator
    <2>2. WebhookTLS(n).ca = n
        BY DEF WebhookTLS
    <2>. QED BY <2>1, <2>2 DEF DeployedCert
<1>. QED
    BY <1>1, <1>2

LEMMA InitImplements == Init => Rotation!Init
<1>. SUFFICES ASSUME Init PROVE Rotation!Init
    OBVIOUS
<1>1. ListingInv /\ WrittenInv /\ RotationInv
    BY InitListing, InitWritten, InitRotation
<1>2. values.tls = 1 /\ ~Rotating /\ prepared /\ After = {1}
    BY DEF Init, Rotating, After
<1>3. DeployedCert = 1
    BY <1>1, <1>2, TrustFacts DEF RotationInv, CompletionInv
<1>4. HaveBundles(live, {{1}})
    <2>1. HaveBundles(shoot, {{1}})
        BY <1>1, <1>2 DEF RotationInv, BundlesInv
    <2>2. live = Listed
        BY DEF Init
    <2>. QED BY <1>1, <2>1, <2>2, ListedFacts DEF HaveBundles
<1>5. \A id \in WebhookIds : DeployedTrust[id] = {1}
    BY <1>1, <1>4, TrustFacts
<1>6. DeployedTrust = [id \in WebhookIds |-> {1}]
    BY <1>5 DEF DeployedTrust
<1>. QED
    BY <1>2, <1>3, <1>6 DEF Rotation!Init

\* Steps that change neither what is applied nor the last CA.
LEMMA OtherImplements ==
    ASSUME live' = live, values'.tls = values.tls
    PROVE  UNCHANGED Rotation!vars
<1>1. DeployedCert' = DeployedCert /\ DeployedTrust' = DeployedTrust
    BY DEF DeployedCert, DeployedTrust, Operator
<1>. QED
    BY <1>1 DEF Rotation!vars

\* PrepareRotation introduces a CA when all depend on the last one only.
LEMMA PrepareRotationImplements ==
    ASSUME ListingInv, WrittenInv, RotationInv, PrepareRotation
    PROVE  Rotation!Introduce
<1>1. values'.tls = values.tls + 1 /\ live' = live
    BY PrepareRotationFacts
<1>2. DeployedCert = values.tls
    BY PrepareRotationFacts, TrustFacts
<1>3. \A id \in WebhookIds : DeployedTrust[id] \in {During, After}
    BY PrepareRotationFacts, TrustFacts
<1>4. \A id \in WebhookIds : values.tls \in DeployedTrust[id]
    BY <1>3, Phases
<1>5. DeployedCert' = DeployedCert /\ DeployedTrust' = DeployedTrust
    BY <1>1 DEF DeployedCert, DeployedTrust, Operator
<1>. QED
    BY <1>1, <1>2, <1>4, <1>5 DEF Rotation!Introduce

\* GRM applies the Deployment: its certificate is the last one, or stays.
LEMMA ApplyDeploymentImplements ==
    ASSUME ListingInv, WrittenInv, RotationInv, Apply(DeploymentId)
    PROVE  Rotation!Deploy \/ UNCHANGED Rotation!vars
<1>1. /\ live' = [other \in DOMAIN live \cup {DeploymentId} |->
                    IF other = DeploymentId THEN Listed[DeploymentId] ELSE live[other]]
      /\ values' = values
    BY DEF Apply
<1>2. DeployedTrust' = DeployedTrust
    <2>1. \A id \in WebhookIds : live'[id] = live[id]
        BY <1>1, AlwaysThere, WebhookIdsFacts DEF ListingInv
    <2>. QED BY <2>1 DEF DeployedTrust
<1>3. ASSUME NEW cas, MountsCert(seed, cas) PROVE DeployedCert' \in cas
    <2>1. PICK n \in cas : seed[DeploymentId].mounts[webhookTLSMountPath] = WebhookTLS(n)
        BY <1>3 DEF MountsCert
    <2>2. live'[DeploymentId] = seed[DeploymentId]
        BY <1>1, ListedFacts
    <2>3. WebhookTLS(n).ca = n
        BY DEF WebhookTLS
    <2>. QED BY <2>1, <2>2, <2>3 DEF DeployedCert, Operator
<1>4. CASE MountsCert(seed, {values.tls})
    <2>1. DeployedCert' = values.tls
        BY <1>3, <1>4
    <2>. QED BY <1>1, <1>2, <2>1 DEF Rotation!Deploy
<1>5. CASE MountsCert(seed, {values.tls - 1}) /\ MountsCert(live, {values.tls - 1})
    <2>1. DeployedCert' = values.tls - 1 /\ DeployedCert = values.tls - 1
        BY <1>3, <1>5, TrustFacts
    <2>. QED BY <1>1, <1>2, <2>1 DEF Rotation!vars
<1>. QED
    BY <1>4, <1>5 DEF RotationInv, CertificateInv

\* A bundle that is written is not older than what is applied, so that what GRM
\* applies moves on.
LEMMA WrittenOnwards ==
    ASSUME ListingInv, WrittenInv, RotationInv, NEW c \in WebhookIds
    PROVE  \E bundle \in {{values.tls - 1}, {values.tls - 1, values.tls}, {values.tls}} :
            HaveBundles(shoot, {bundle}) /\ Rotation!Onwards(DeployedTrust[c], bundle)
<1>. DEFINE t == values.tls
<1>1. t \in Int
    BY Phases
<1>. HIDE DEF t
<1>2. /\ Rotation!Onwards({t - 2, t - 1}, {t - 1}) /\ Rotation!Onwards({t - 1}, {t - 1})
      /\ \A old \in {{t - 2, t - 1}, {t - 1}, {t - 1, t}} : Rotation!Onwards(old, {t - 1, t})
      /\ \A old \in {{t - 2, t - 1}, {t - 1}, {t - 1, t}, {t}} : Rotation!Onwards(old, {t})
    BY <1>1 DEF Rotation!Onwards
<1>3. /\ Before = {{t - 2, t - 1}, {t - 1}} /\ During = {t - 1, t} /\ After = {t}
    BY Phases DEF t
<1>4. CASE HaveBundles(shoot, {{t - 1}}) /\ HaveBundles(live, Before)
    <2>1. DeployedTrust[c] \in Before
        BY <1>4, TrustFacts
    <2>. QED BY <1>2, <1>3, <1>4, <2>1 DEF t
<1>5. CASE HaveBundles(shoot, {During}) /\ HaveBundles(live, Before \cup {During})
    <2>1. DeployedTrust[c] \in Before \cup {During}
        BY <1>5, TrustFacts
    <2>. QED BY <1>2, <1>3, <1>5, <2>1 DEF t
<1>6. CASE HaveBundles(shoot, {After}) /\ HaveBundles(live, Before \cup {During, After})
    <2>1. DeployedTrust[c] \in Before \cup {During, After}
        BY <1>6, TrustFacts
    <2>. QED BY <1>2, <1>3, <1>6, <2>1 DEF t
<1>. QED
    BY <1>4, <1>5, <1>6 DEF RotationInv, BundlesInv, t

\* GRM applies a webhook configuration: it gets the bundle that is written.
LEMMA ApplyWebhookImplements ==
    ASSUME ListingInv, WrittenInv, RotationInv, NEW c \in WebhookIds, Apply(c)
    PROVE  Rotation!Distribute(c)
<1>1. /\ live' = [other \in DOMAIN live \cup {c} |->
                    IF other = c THEN Listed[c] ELSE live[other]]
      /\ values' = values
    BY DEF Apply
<1>2. PICK bundle \in {{values.tls - 1}, {values.tls - 1, values.tls}, {values.tls}} :
        HaveBundles(shoot, {bundle}) /\ Rotation!Onwards(DeployedTrust[c], bundle)
    BY WrittenOnwards
<1>3. c \in DOMAIN shoot /\ c.kind \in WebhookKinds /\ live'[c] = shoot[c]
    <2>1. c \in DOMAIN shoot /\ c.kind \in WebhookKinds
        BY AlwaysThere, WebhookIdsFacts DEF ListingInv
    <2>. QED BY <1>1, <2>1 DEF Listed
<1>4. shoot[c].webhooks # {}
    <2>1. PICK v \in Values : \E p \in Rendered(v) : p[1] = c /\ p[2] = shoot[c]
        BY <1>3, ResourcesRendered DEF WrittenInv, AreRendered, IsRendered
    <2>2. PICK p \in Rendered(v) : p[1] = c /\ p[2] = shoot[c]
        BY <2>1
    <2>. QED BY <1>3, <2>2, WebhookObjects
<1>5. DeployedTrust'[c] = bundle
    <2>1. \A w \in shoot[c].webhooks : w.bundle = bundle
        BY <1>2, <1>3 DEF HaveBundles
    <2>2. {w.bundle : w \in shoot[c].webhooks} = {bundle}
        BY <1>4, <2>1
    <2>3. DeployedTrust'[c] = UNION {w.bundle : w \in shoot[c].webhooks}
        BY <1>3 DEF DeployedTrust
    <2>. QED BY <2>2, <2>3
<1>6. \A id \in WebhookIds \ {c} : DeployedTrust'[id] = DeployedTrust[id]
    BY <1>1, AlwaysThere DEF ListingInv, DeployedTrust
<1>7. DeployedTrust' = [DeployedTrust EXCEPT ![c] = bundle]
    <2>1. DeployedTrust' = [id \in WebhookIds |-> DeployedTrust'[id]]
        BY DEF DeployedTrust
    <2>2. DeployedTrust = [id \in WebhookIds |-> DeployedTrust[id]]
        BY DEF DeployedTrust
    <2>. QED BY <1>5, <1>6, <2>1, <2>2
<1>8. DeployedCert' = DeployedCert
    <2>1. live'[DeploymentId] = live[DeploymentId]
        BY <1>1, AlwaysThere, WebhookIdsFacts DEF ListingInv
    <2>. QED BY <2>1 DEF DeployedCert, Operator
<1>. QED
    BY <1>1, <1>2, <1>7, <1>8 DEF Rotation!Distribute

\* GRM applies another object, or prunes the base options.
LEMMA ResourceManagerImplements ==
    ASSUME ListingInv, WrittenInv, RotationInv, ResourceManager
    PROVE  Rotation!Next \/ UNCHANGED Rotation!vars
<1>1. ASSUME UNCHANGED values, live'[DeploymentId] = live[DeploymentId],
             \A id \in WebhookIds : live'[id] = live[id]
      PROVE  UNCHANGED Rotation!vars
    BY <1>1 DEF DeployedCert, DeployedTrust, Operator, Rotation!vars
<1>2. DeploymentId \in DOMAIN live /\ WebhookIds \subseteq DOMAIN live
    BY AlwaysThere DEF ListingInv
<1>3. DeploymentId \in DOMAIN Listed /\ WebhookIds \subseteq DOMAIN Listed
    BY AlwaysThere, ListedFacts DEF ListingInv, Listed
<1>4. ASSUME NEW id \in DOMAIN Listed, Apply(id)
      PROVE  Rotation!Next \/ UNCHANGED Rotation!vars
    <2>1. CASE id = DeploymentId
        BY <1>4, <2>1, ApplyDeploymentImplements DEF Rotation!Next
    <2>2. CASE id \in WebhookIds
        BY <1>4, <2>2, ApplyWebhookImplements DEF Rotation!Next
    <2>3. CASE id \notin WebhookIds \cup {DeploymentId}
        BY <1>1, <1>2, <1>4, <2>3 DEF Apply
    <2>. QED BY <2>1, <2>2, <2>3
<1>5. CASE Prune
    BY <1>1, <1>2, <1>3, <1>5 DEF Prune
<1>. QED
    BY <1>4, <1>5 DEF ResourceManager

LEMMA NextImplements ==
    ListingInv /\ WrittenInv /\ RotationInv /\ [Next]_vars => [Rotation!Next]_(Rotation!vars)
<1>. SUFFICES ASSUME ListingInv, WrittenInv, RotationInv, [Next]_vars
              PROVE  Rotation!Next \/ UNCHANGED Rotation!vars
    OBVIOUS
<1>1. CASE PrepareRotation
    BY <1>1, PrepareRotationImplements DEF Rotation!Next
<1>2. CASE Update \/ CompleteRotation
    <2>1. live' = live
        BY <1>2 DEF Update, CompleteRotation, Reconcile
    <2>2. values'.tls = values.tls
        BY <1>2 DEF Update, CompleteRotation, Reconcile, RotationInv, Values
    <2>. QED BY <2>1, <2>2, OtherImplements
<1>3. CASE Actuator
    <2>1. live' = live /\ values' = values
        BY <1>3 DEF Actuator, CreateShoot, CreateSeed, WaitAndCleanup, CleanedUp
    <2>. QED BY <2>1, OtherImplements
<1>4. CASE ResourceManager
    BY <1>4, ResourceManagerImplements
<1>5. CASE StartPod \/ StopPod \/ PodDies \/ UNCHANGED vars
    <2>1. live' = live /\ values' = values
        BY <1>5 DEF StartPod, StopPod, PodDies, vars
    <2>. QED BY <2>1, OtherImplements
<1>. QED
    BY <1>1, <1>2, <1>3, <1>4, <1>5 DEF Next, Progress, Requests

\* Updates, lagging caches, GRM and failed Reconciles included, certificate and
\* bundles only move on in a rotation, and a rotation does not begin before the
\* one before has left everything.
THEOREM RotationImplemented == Spec => ImplementsRotation
BY InitImplements, NextImplements, ListingInvariant, WrittenInvariant, RotationInvariant, PTL
DEF Spec, ImplementsRotation, Rotation!Spec

=============================================================================
