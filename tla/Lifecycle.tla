----------------------------- MODULE Lifecycle -----------------------------
(***************************************************************************)
(* pkg/controller/lifecycle: the actuator of the Extension resource of one *)
(* shoot.  Its handlers Reconcile, Restore, Delete, ForceDelete and        *)
(* Migrate are procedures of API calls; between two calls every other      *)
(* actor of ShootCluster may move, a call may fail, and the process may    *)
(* restart.  The generic Extension reconciler that invokes the handlers    *)
(* and the gardenlet that requests operations are modelled from the way    *)
(* add.go and actuator.go rely on them.                                    *)
(***************************************************************************)
EXTENDS DikiOperator

CONSTANT HibernationModes   \* values spec.hibernation.enabled may take

ASSUME HibernationModesAssumption == HibernationModes \subseteq BOOLEAN

Phases == {"gone", "live", "deleting", "forced", "forceGone",
           "migrating", "migrated", "restoring"}
AtRest == {"gone", "forceGone", "migrated"}   \* nothing to do until a request
Rotations == {"Completed", "Preparing", "Prepared", "Completing"}
ReconcileOps == {"Reconcile", "Restore"}
DestroyOps == {"Delete", "ForceDelete", "Migrate"}
Ops == ReconcileOps \cup DestroyOps

DeployCalls == {"operatorAccess", "runnerAccess", "generateCA", "generateCert",
                "createShoot", "createSeed", "waitSeed", "waitShoot", "cleanup"}
DestroyCalls == {"setKeep", "deleteShoot", "waitShootGone", "deleteSeed", "waitSeedGone",
                 "deleteOperatorAccess", "deleteRunnerAccess", "cleanupAll"}
Waits == {"waitSeed", "waitShoot", "waitShootGone", "waitSeedGone"}
Calls == {"getCluster", "succeed"} \cup DeployCalls \cup DestroyCalls

VARIABLES
    phase,      \* what the gardenlet wants of the Extension, and its outcome
    queued,     \* the Extension is in the controller's workqueue
    op,         \* the running handler, "none" when idle
    cluster,    \* the Cluster resource: hibernation, CA rotation
    snap,       \* the Cluster as the running Reconcile read it
    base        \* the process was started with a non-empty baseDikiConfig

Clusters == [hib : BOOLEAN, rot : Rotations, gen : Nat]
NoSnap == [hib |-> FALSE, rot |-> "Completed", gen |-> 0]

requestVars == <<phase, queued, cluster, base>>
vars == <<worldVars, pc, stale, requestVars, op, snap>>

TypeOK ==
    /\ WorldTypeOK
    /\ pc \in {"idle"} \cup Calls
    /\ stale \subseteq {"shoot", "seed"}
    /\ phase \in Phases
    /\ queued \in BOOLEAN
    /\ op \in {"none"} \cup Ops
    /\ cluster \in Clusters
    /\ snap \in Clusters
    /\ base \in BOOLEAN

Init ==
    /\ WorldInit
    /\ pc = "idle" /\ stale = {}
    /\ phase = "gone" /\ queued = FALSE /\ op = "none"
    /\ cluster \in {[NoSnap EXCEPT !.hib = h] : h \in HibernationModes}
    /\ snap = NoSnap
    /\ base \in BaseConfigs

-----------------------------------------------------------------------------
(* The Extension reconciler: takes the Extension from the queue and calls   *)
(* the handler its state asks for.  Informers have caught up by then.       *)

HandlerFor(p) ==
    CASE p = "live" -> "Reconcile"
      [] p = "restoring" -> "Restore"
      [] p = "deleting" -> "Delete"
      [] p = "forced" -> "ForceDelete"
      [] p = "migrating" -> "Migrate"

Invoke ==
    /\ pc = "idle" /\ queued
    /\ phase \notin AtRest
    /\ op' = HandlerFor(phase)
    /\ pc' = "getCluster"
    /\ queued' = FALSE
    /\ UNCHANGED <<worldVars, stale, phase, cluster, base, snap>>

\* The handler returns: its local state is gone.
Return ==
    /\ pc' = "idle" /\ op' = "none"
    /\ stale' = {} /\ snap' = NoSnap

-----------------------------------------------------------------------------
(* Reconcile and Restore, up to Component.Deploy.                           *)

GetCluster ==
    /\ pc = "getCluster"
    /\ snap' = IF op \in ReconcileOps THEN cluster ELSE snap
    /\ pc' = CASE op \in ReconcileOps -> "operatorAccess"
               [] op = "Migrate" -> "setKeep"
               [] OTHER -> "deleteShoot"
    /\ UNCHANGED <<worldVars, stale, requestVars, op>>

ReconcileAccess(secret, from, to) ==
    /\ Step(from, to)
    /\ access' = access \cup {secret}
    /\ UNCHANGED <<mrVars, seedVars, tls, ca, minted, shootVars,
                   stale, requestVars, op, snap>>

\* Mutant: every Reconcile issues a new CA.
GenerateCAAlways ==
    /\ Step("generateCA", "generateCert")
    /\ minted < MaxCA
    /\ minted' = minted + 1
    /\ ca' = [cur |-> minted + 1, gen |-> snap.gen, old |-> ca.cur]
    /\ UNCHANGED <<mrVars, seedVars, access, tls, shootVars,
                   stale, requestVars, op, snap>>

\* GenerateAllSecrets, first config: a CA of the Cluster's rotation generation
\* is kept; otherwise a new one is issued and the previous one becomes "old".
GenerateCA ==
    /\ Step("generateCA", "generateCert")
    /\ \/ /\ ca.cur # 0 /\ ca.gen = snap.gen
          /\ UNCHANGED <<ca, minted>>
       \/ /\ ca.cur = 0 \/ ca.gen # snap.gen
          /\ minted < MaxCA
          /\ minted' = minted + 1
          /\ ca' = [cur |-> minted + 1, gen |-> snap.gen, old |-> ca.cur]
    /\ UNCHANGED <<mrVars, seedVars, access, tls, shootVars,
                   stale, requestVars, op, snap>>

\* Mutant: the new webhook certificate overwrites the Secret of the previous one.
OverwriteCert ==
    /\ Step("generateCert", "createShoot")
    /\ tls' = {ca.cur}
    /\ UNCHANGED <<mrVars, seedVars, access, ca, minted, shootVars,
                   stale, requestVars, op, snap>>

\* Second config: the webhook certificate, SignedByCA(UseCurrentCA).
GenerateCert ==
    /\ Step("generateCert", "createShoot")
    /\ tls' = tls \cup {ca.cur}
    /\ UNCHANGED <<mrVars, seedVars, access, ca, minted, shootVars,
                   stale, requestVars, op, snap>>

\* Mutants: the bundle holds an empty old CA; the certificate in place of the bundle.
BundleWithEmptyCA == {ca.cur} \cup (IF snap.rot = "Completing" THEN {} ELSE {ca.old})
CurrentCAOnly == {ca.cur} \ {0}

\* The bundle of the CA Secret: old CAs are ignored once the rotation completes.
CABundle == ({ca.cur} \cup (IF snap.rot = "Completing" THEN {} ELSE {ca.old})) \ {0}

\* Mutant: hibernation is not looked at.
ReplicasAlways(c) == 1

Replicas(c) == IF c.hib THEN 0 ELSE 1

Values == [replicas |-> Replicas(snap), tls |-> ca.cur, bundle |-> CABundle, base |-> base]

\* secretsManager.Cleanup: deletes what this handler did not generate.
Cleanup ==
    /\ Step("cleanup", "succeed")
    /\ tls' = {ca.cur}
    /\ ca' = IF snap.rot = "Completing" THEN [ca EXCEPT !.old = 0] ELSE ca
    /\ UNCHANGED <<mrVars, seedVars, access, minted, shootVars,
                   stale, requestVars, op, snap>>

Deploying ==
    \/ ReconcileAccess("operator", "operatorAccess", "runnerAccess")
    \/ ReconcileAccess("runner", "runnerAccess", "generateCA")
    \/ GenerateCA \/ GenerateCert
    \/ (CreateShoot(Values) \/ CreateSeed(Values) \/ WaitSeed \/ WaitShoot)
       /\ UNCHANGED <<requestVars, op, snap>>
    \/ Cleanup

-----------------------------------------------------------------------------
(* Delete, ForceDelete and Migrate: actuator.delete with its two flags.     *)

\* Mutants: the flags of actuator.delete in the wrong callers.
SkipOnDelete == op \in {"Delete", "Migrate"}
NeverForced == FALSE

SkipSecretsManagerCleanup == op = "Migrate"
ForceDelete == op = "ForceDelete"

\* Mutant: Migrate deletes without keepObjects.
KeepForgotten ==
    /\ Step("setKeep", "deleteShoot")
    /\ UNCHANGED <<worldVars, stale, requestVars, op, snap>>

SetKeepObjects ==
    /\ Step("setKeep", "deleteShoot")
    /\ shootMR' = IF shootMR.st = "none" THEN shootMR ELSE [shootMR EXCEPT !.keep = TRUE]
    /\ UNCHANGED <<seedMR, seedVars, secretVars, shootVars, stale, requestVars, op, snap>>

DeleteAccess(secret, from, to) ==
    /\ Step(from, to)
    /\ access' = access \ {secret}
    /\ UNCHANGED <<mrVars, seedVars, tls, ca, minted, shootVars,
                   stale, requestVars, op, snap>>

\* A secrets manager without configs: Cleanup deletes every Secret it knows.
CleanupAll ==
    /\ Step("cleanupAll", "succeed")
    /\ tls' = {} /\ ca' = NoCA
    /\ UNCHANGED <<mrVars, seedVars, access, minted, shootVars,
                   stale, requestVars, op, snap>>

Destroying ==
    \/ SetKeepObjects
    \/ (DeleteShoot(ForceDelete) \/ WaitShootGone \/ DeleteSeed(ForceDelete) \/ WaitSeedGone)
       /\ UNCHANGED <<requestVars, op, snap>>
    \/ DeleteAccess("operator", "deleteOperatorAccess", "deleteRunnerAccess")
    \/ DeleteAccess("runner", "deleteRunnerAccess",
                    IF SkipSecretsManagerCleanup THEN "succeed" ELSE "cleanupAll")
    \/ CleanupAll

-----------------------------------------------------------------------------
(* How a handler ends: success, an error of a call, a timeout, a restart.   *)

\* The gardenlet advances a rotation when a handler that saw its phase succeeds.
Advanced(c) ==
    IF snap.rot # c.rot \/ snap.gen # c.gen THEN c
    ELSE CASE c.rot = "Preparing" -> [c EXCEPT !.rot = "Prepared"]
           [] c.rot = "Completing" -> [c EXCEPT !.rot = "Completed"]
           [] OTHER -> c

Succeed ==
    /\ pc = "succeed"
    /\ phase' = CASE op = "Delete" -> "gone"
                  [] op = "ForceDelete" -> "forceGone"
                  [] op = "Migrate" /\ phase = "migrating" -> "migrated"
                  [] op = "Restore" /\ phase = "restoring" -> "live"
                  [] OTHER -> phase
    /\ queued' = (queued /\ op \notin {"Delete", "ForceDelete"})
    /\ cluster' = IF op \in ReconcileOps THEN Advanced(cluster) ELSE cluster
    /\ Return
    /\ UNCHANGED <<worldVars, base>>

\* Mutant: the handler swallows the error.
ErrorSwallowed ==
    /\ Return
    /\ UNCHANGED <<worldVars, requestVars>>

\* An error is returned to the reconciler, which puts the Extension back.
Fail ==
    /\ Return
    /\ queued' = TRUE
    /\ UNCHANGED <<worldVars, phase, cluster, base>>

ReturnError == pc \in Calls \ Waits /\ Fail
TimeOut == DeadlineExceeded /\ Fail

\* The process restarts, possibly with another configuration; an operation that
\* was not finished is found again, a finished one is not repeated.
Restart ==
    /\ base' \in BaseConfigs
    /\ pc # "idle" \/ base' # base
    /\ queued' = (queued \/ pc # "idle")
    /\ Return
    /\ UNCHANGED <<worldVars, phase, cluster>>

-----------------------------------------------------------------------------
(* The gardenlet (and through it the shoot's owner) requests operations.    *)

Request(newPhase) ==
    /\ phase' = newPhase /\ queued' = TRUE
    /\ UNCHANGED <<pc, stale, op, snap, base>>

EnableExtension ==
    /\ phase = "gone" /\ minted < MaxCA
    /\ Request("live")
    /\ UNCHANGED <<worldVars, cluster>>

RequestReconcile ==
    /\ phase = "live" /\ ~queued
    /\ Request("live")
    /\ UNCHANGED <<worldVars, cluster>>

ChangeHibernation ==
    /\ phase = "live"
    /\ \E h \in HibernationModes \ {cluster.hib} : cluster' = [cluster EXCEPT !.hib = h]
    /\ Request("live")
    /\ UNCHANGED worldVars

StartRotation ==
    /\ phase = "live" /\ cluster.rot = "Completed"
    /\ ca.cur # 0 /\ ca.gen = cluster.gen /\ minted < MaxCA
    /\ cluster' = [cluster EXCEPT !.rot = "Preparing", !.gen = cluster.gen + 1]
    /\ Request("live")
    /\ UNCHANGED worldVars

CompleteRotation ==
    /\ phase = "live" /\ cluster.rot = "Prepared"
    /\ cluster' = [cluster EXCEPT !.rot = "Completing"]
    /\ Request("live")
    /\ UNCHANGED worldVars

RequestDelete ==
    /\ phase = "live"
    /\ Request("deleting")
    /\ UNCHANGED <<worldVars, cluster>>

RequestForceDelete ==
    /\ phase \in {"live", "deleting", "restoring"}
    /\ Request("forced")
    /\ UNCHANGED <<worldVars, cluster>>

RequestMigrate ==
    /\ phase = "live"
    /\ Request("migrating")
    /\ UNCHANGED <<worldVars, cluster>>

\* Mutant: the CA is generated without Persist().
NotPersisted(caSecret) == NoCA

\* What a Secret generated with Persist() is on the next seed: the same Secret.
Persisted(caSecret) == caSecret

\* The control plane moves: the namespace on the new seed starts empty but for
\* the persisted Secrets; whatever is in the shoot cluster stays.
SwitchSeed ==
    /\ phase = "migrated" /\ pc = "idle"
    /\ Request("restoring")
    /\ deploy' = NoSpec /\ pod' = NoPod
    /\ access' = {} /\ tls' = {} /\ ca' = Persisted(ca)
    /\ UNCHANGED <<mrVars, minted, shootVars, cluster>>

-----------------------------------------------------------------------------
Handler == GetCluster \/ Deploying \/ Destroying \/ Succeed \/ TimeOut
Cache == (\E mr \in {"shoot", "seed"} : CacheSync(mr)) /\ UNCHANGED <<requestVars, op, snap>>
lifecycleVars == <<pc, stale, requestVars, op, snap>>
ResourceManager ==
    (ApplyShoot \/ ApplySeed \/ RemoveShootObject \/ FinalizeShootMR \/ FinalizeSeedMR)
    /\ UNCHANGED lifecycleVars
Kubelet == (RollPod \/ StopPod) /\ UNCHANGED lifecycleVars
Operator == \E s \in Scans : ReleaseScan(s) /\ UNCHANGED lifecycleVars
ScanActivity == \E s \in Scans : (CreateScan(s) \/ StartScan(s)) /\ UNCHANGED lifecycleVars

Requests ==
    \/ EnableExtension \/ RequestReconcile \/ ChangeHibernation
    \/ StartRotation \/ CompleteRotation
    \/ RequestDelete \/ RequestForceDelete \/ RequestMigrate \/ SwitchSeed
Faults == ReturnError \/ Restart \/ (PodDies /\ UNCHANGED lifecycleVars)

Progress ==
    \/ Invoke \/ Handler \/ Cache
    \/ ResourceManager \/ Kubelet \/ Operator \/ ScanActivity

Next == Progress \/ Requests \/ Faults

Spec == Init /\ [][Next]_vars

\* Every actor keeps working: the workqueue and the handlers (no call blocks
\* for ever: each has a context with a deadline), informers, GRM, kubelet and
\* operator.  Nothing forces users, requests or faults.
Fairness ==
    /\ WF_vars(Invoke) /\ WF_vars(Handler) /\ WF_vars(Cache)
    /\ WF_vars(ResourceManager) /\ WF_vars(Kubelet) /\ WF_vars(Operator)

FairSpec == Spec /\ Fairness

-----------------------------------------------------------------------------
(* Safety.                                                                  *)

Aborted == phase \in {"forced", "forceGone"}

\* Destroy awaits the shoot objects before it deletes the seed objects: while
\* the operator's Deployment is being removed by Delete no ComplianceScan, in
\* particular none with the operator's finalizer, and no CRD is left.
OperatorOutlivesScans ==
    phase = "deleting" /\ seedMR.st = "deleting" => ShootCleared /\ scans = {}

\* The Secrets that the seed ManagedResource names exist as long as it does:
\* Reconcile creates them first, Cleanup spares them, delete removes them last.
WrittenSecretsExist ==
    seedMR.st # "none" => access = AccessSecrets /\ seedMR.spec.tls \in tls

\* The applied Deployment may lack its certificate only during a rotation, when it
\* is of the old CA and GRM has still to apply the Deployment with the current one.
MountedCertificateExists ==
    deploy # NoSpec =>
        \/ deploy.tls \in tls
        \/ /\ deploy.tls = ca.old
           /\ ~seedMR.synced /\ seedMR.spec.tls # deploy.tls

\* Unless deletion is forced, neither what is written nor what is applied of the
\* operator loses the Secrets it needs to start a pod, with one exception: Wait may
\* pass on a stale ManagedResource, and Cleanup then deletes the certificate that
\* the applied Deployment still mounts; but never two rotations ahead of it.
SecretsOutliveOperator ==
    ~Aborted => WrittenSecretsExist /\ MountedCertificateExists

\* At every step of Deploy, in every rotation phase and after a crash between
\* its two writes, the webhooks trust the CA of the certificate the operator is
\* told to serve.
WebhookTrust ==
    shootMR.st = "live" /\ seedMR.st = "live" => seedMR.spec.tls \in shootMR.spec

\* The webhooks left in the shoot trust a CA the secrets manager still has, the
\* current or the old one, also while the control plane is migrated.
KnownCATrusted ==
    webhook # {} /\ ~Aborted => webhook \cap {ca.cur, ca.old} # {}

\* Delete, in however many attempts, leaves no object and no Secret behind.
DeleteLeavesNothing ==
    phase = "gone" =>
        /\ shootMR = NoShootMR /\ seedMR = NoSeedMR /\ deploy = NoSpec
        /\ access = {} /\ tls = {} /\ ca = NoCA
        /\ ShootCleared /\ scans = {}

\* A request that arrives while a handler runs on an older Cluster, an error and
\* a restart never get lost: when nothing is running or queued, the work is done
\* and the ManagedResources are those of the current Cluster.
UpToDate ==
    /\ access = AccessSecrets
    /\ ca.cur # 0 /\ ca.gen = cluster.gen
    /\ cluster.rot \in {"Prepared", "Completed"}
    /\ seedMR.st = "live" /\ seedMR.spec.tls = ca.cur
    /\ seedMR.spec.replicas = Replicas(cluster)
    /\ shootMR.st = "live" /\ shootMR.spec = {ca.cur, ca.old} \ {0}
    /\ cluster.rot = "Completed" => ca.old = 0

NoRequestLost ==
    pc = "idle" /\ ~queued =>
        \/ phase \in AtRest
        \/ phase = "live" /\ UpToDate

\* Control plane migration never takes CRDs, scans, permissions or webhooks out
\* of the shoot, from the request until the Extension is restored.
Migrating == phase \in {"migrating", "migrated", "restoring"}

MigrationKeepsShoot ==
    [][Migrating /\ ~Aborted' =>
        /\ crd = "present" => crd' = "present"
        /\ rbac => rbac'
        /\ webhook # {} => webhook' # {}
        /\ scans \subseteq scans']_vars

\* A webhook CA, once issued, is replaced only by a rotation, which keeps it as
\* the old CA.  It is dropped only by deletion, or when not only what is written
\* but also the applied Deployment and webhooks have moved on to the current CA,
\* although Wait may have passed on stale ManagedResources.  (A pod of the previous
\* Deployment may be up: health does not wait until the rollout ends.)
CAReplacedByRotationOnly ==
    [][\A c \in {ca.cur, ca.old} \ {0} :
        \/ c \in {ca'.cur, ca'.old}
        \/ op \in {"Delete", "ForceDelete"}
        \/ /\ c # ca.cur
           /\ seedMR.spec.tls = ca.cur /\ deploy.tls = ca.cur /\ ca.cur \in webhook]_vars

-----------------------------------------------------------------------------
(* Liveness, once requests and faults cease for good.                       *)

Quiet == <>[][Progress]_vars

\* Reconciliation converges to an operator that runs as the Cluster demands and
\* whose certificate the webhooks trust.
ReconcileConverges ==
    Quiet => <>[](phase = "live" =>
        /\ pc = "idle"
        /\ PodUp <=> ~cluster.hib
        /\ PodUp => pod.tls = ca.cur /\ pod.tls \in webhook)

\* Nothing but a ComplianceScan whose finalizer stays can keep Delete from ending.
DeletionFinishes == Quiet => <>[](phase = "deleting" => held # {})

\* Scans and their finalizers can keep neither migration and restore nor forced
\* deletion from ending.
MigrationFinishes == Quiet => <>[](phase \notin {"migrating", "restoring"})
ForceDeletionFinishes == Quiet => <>[](phase # "forced")

-----------------------------------------------------------------------------
(* Statements of the repository that the code does not keep.                *)

\* dikioperator.go:73-74: the shoot resources are deleted first "so that the
\* operator can handle finalizer-based cleanup before it is removed".
OperatorHandlesFinalizers == Quiet => <>[](phase = "deleting" => held = {})

\* dikioperator.go:105: "Wait waits until both ManagedResources are healthy",
\* that is, with the content this Reconcile has written.
WaitSeesNewContent ==
    [][pc = "waitShoot" /\ pc' = "cleanup" => shootMR.synced /\ seedMR.synced]_vars

\* example/diki-base-options-configmap.yaml:3-5: the base options "will be
\* applied to all ComplianceScans", so a running operator must get to know them.
BaseOptionsReachOperator ==
    Quiet => <>[](phase = "live" /\ PodUp /\ deploy.base => pod.base)

=============================================================================
