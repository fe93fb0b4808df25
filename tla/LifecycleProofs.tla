--------------------------- MODULE LifecycleProofs ---------------------------
(***************************************************************************)
(* Proofs about Lifecycle, for every set of scans, every bound on the CAs  *)
(* and every configuration.                                                *)
(***************************************************************************)
EXTENDS LifecycleInvariants, TLAPS

USE DEF vars, worldVars, mrVars, seedVars, secretVars, shootVars, requestVars, lifecycleVars

\* Every variable keeps to its type: TypeOK is inductive as it stands.
LEMMA TypeStep == TypeOK /\ [Next]_vars => TypeOK'
<1> SUFFICES ASSUME TypeOK, [Next]_vars PROVE TypeOK'
    OBVIOUS
<1> USE MaxCAAssumption, BaseConfigsAssumption, HibernationModesAssumption
    DEF TypeOK, WorldTypeOK
<1>1. CASE UNCHANGED vars
    BY <1>1
<1>2. CASE Invoke
    <2>1. op' \in Ops
        BY <1>2 DEF Invoke, HandlerFor, Ops, ReconcileOps, DestroyOps, Phases, AtRest
    <2> QED
        BY <1>2, <2>1 DEF Invoke, Calls
<1>3. CASE GetCluster
    BY <1>3 DEF GetCluster, Calls, DeployCalls, DestroyCalls
<1>4. CASE Deploying
    <2> USE DEF Step, Calls, DeployCalls, DestroyCalls
    <2>1. CASE ReconcileAccess("operator", "operatorAccess", "runnerAccess")
        BY <2>1 DEF ReconcileAccess, AccessSecrets
    <2>2. CASE ReconcileAccess("runner", "runnerAccess", "generateCA")
        BY <2>2 DEF ReconcileAccess, AccessSecrets
    <2>3. CASE GenerateCA
        BY <2>3 DEF GenerateCA, Clusters
    <2>4. CASE GenerateCert
        BY <2>4 DEF GenerateCert
    <2>5. CASE CreateShoot(Values) /\ UNCHANGED <<requestVars, op, snap>>
        BY <2>5 DEF CreateShoot, Values, CABundle, ShootResources, ShootHealthy, ShootMRs,
                    MRStates, CAs
    <2>6. CASE CreateSeed(Values) /\ UNCHANGED <<requestVars, op, snap>>
        BY <2>6 DEF CreateSeed, Values, Replicas, SeedResources, SeedApplied, SeedMRs, SeedSpecs,
                    MRStates
    <2>7. CASE WaitSeed /\ UNCHANGED <<requestVars, op, snap>>
        BY <2>7 DEF WaitSeed
    <2>9. CASE WaitShoot /\ UNCHANGED <<requestVars, op, snap>>
        BY <2>9 DEF WaitShoot
    <2>8. CASE Cleanup
        BY <2>8 DEF Cleanup
    <2> QED
        BY <1>4, <2>1, <2>2, <2>3, <2>4, <2>5, <2>6, <2>7, <2>8, <2>9
           DEF Deploying
<1>5. CASE Destroying
    <2> USE DEF Step, Calls, DeployCalls, DestroyCalls
    <2>1. CASE SetKeepObjects
        BY <2>1 DEF SetKeepObjects, ShootMRs
    <2>2. CASE DeleteShoot(ForceDelete) /\ UNCHANGED <<requestVars, op, snap>>
        BY <2>2 DEF DeleteShoot, Deleted, NoShootMR, ShootMRs, MRStates
    <2>3. CASE DeleteSeed(ForceDelete) /\ UNCHANGED <<requestVars, op, snap>>
        BY <2>3 DEF DeleteSeed, Deleted, NoSeedMR, NoSpec, NoTLS, SeedMRs, SeedSpecs, MRStates
    <2>4. CASE WaitShootGone /\ UNCHANGED <<requestVars, op, snap>>
        BY <2>4 DEF WaitShootGone
    <2>8. CASE WaitSeedGone /\ UNCHANGED <<requestVars, op, snap>>
        BY <2>8 DEF WaitSeedGone
    <2>5. CASE DeleteAccess("operator", "deleteOperatorAccess", "deleteRunnerAccess")
        BY <2>5 DEF DeleteAccess
    <2>6. CASE DeleteAccess("runner", "deleteRunnerAccess",
                            IF SkipSecretsManagerCleanup THEN "succeed" ELSE "cleanupAll")
        BY <2>6 DEF DeleteAccess
    <2>7. CASE CleanupAll
        BY <2>7 DEF CleanupAll, NoCA
    <2> QED
        BY <1>5, <2>1, <2>2, <2>3, <2>4, <2>5, <2>6, <2>7, <2>8
           DEF Destroying
<1>6. CASE Succeed
    BY <1>6 DEF Succeed, Return, Advanced, NoSnap, Phases, Rotations, Clusters
<1>13. CASE Fail
    BY <1>13 DEF Fail, Return, NoSnap, Rotations, Clusters
<1>14. CASE Restart
    BY <1>14 DEF Restart, Return, NoSnap, Rotations, Clusters
<1>15. CASE PodDies /\ UNCHANGED lifecycleVars
    BY <1>15 DEF PodDies, NoPod, NoTLS
<1>7. CASE Cache
    BY <1>7 DEF Cache, CacheSync
<1>8. CASE ResourceManager
    <2>1. CASE ApplyShoot /\ UNCHANGED lifecycleVars
        BY <2>1 DEF ApplyShoot, ShootMRs
    <2>2. CASE ApplySeed /\ UNCHANGED lifecycleVars
        BY <2>2 DEF ApplySeed, SeedMRs
    <2>3. CASE RemoveShootObject /\ UNCHANGED lifecycleVars
        BY <2>3 DEF RemoveShootObject
    <2>4. CASE FinalizeShootMR /\ UNCHANGED lifecycleVars
        BY <2>4 DEF FinalizeShootMR, NoShootMR, ShootMRs, MRStates
    <2>5. CASE FinalizeSeedMR /\ UNCHANGED lifecycleVars
        <3>1. NoSpec \in SeedSpecs
            BY DEF NoSpec, SeedSpecs, NoTLS
        <3>2. NoSeedMR \in SeedMRs
            BY <3>1 DEF NoSeedMR, SeedMRs, MRStates
        <3> QED
            BY <2>5, <3>1, <3>2 DEF FinalizeSeedMR
    <2> QED
        BY <1>8, <2>1, <2>2, <2>3, <2>4, <2>5 DEF ResourceManager
<1>9. CASE Kubelet
    <2>1. CASE RollPod /\ UNCHANGED lifecycleVars
        BY <2>1 DEF RollPod, SeedSpecs
    <2>2. CASE StopPod /\ UNCHANGED lifecycleVars
        BY <2>2 DEF StopPod, NoPod, NoTLS
    <2> QED
        BY <1>9, <2>1, <2>2 DEF Kubelet
<1>10. CASE Operator
    BY <1>10 DEF Operator, ReleaseScan
<1>11. CASE ScanActivity
    <2>1. ASSUME NEW s \in Scans, CreateScan(s), UNCHANGED lifecycleVars PROVE TypeOK'
        BY <2>1 DEF CreateScan
    <2>2. ASSUME NEW s \in Scans, StartScan(s), UNCHANGED lifecycleVars PROVE TypeOK'
        BY <2>2 DEF StartScan
    <2> QED
        BY <1>11, <2>1, <2>2 DEF ScanActivity
<1>12. CASE Requests
    <2> USE DEF Request, Phases
    <2>1. CASE EnableExtension
        BY <2>1 DEF EnableExtension
    <2>2. CASE RequestReconcile
        BY <2>2 DEF RequestReconcile
    <2>3. CASE ChangeHibernation
        BY <2>3 DEF ChangeHibernation, Clusters
    <2>4. CASE StartRotation
        <3>1. cluster' \in Clusters
            <4>1. /\ cluster.gen + 1 \in Nat
                  /\ cluster.hib \in BOOLEAN
                BY DEF Clusters
            <4>2. cluster' = [hib |-> cluster.hib, rot |-> "Preparing", gen |-> cluster.gen + 1]
                BY <2>4 DEF StartRotation, Clusters
            <4> QED
                BY <4>1, <4>2 DEF Rotations, Clusters
        <3> QED
            BY <2>4, <3>1 DEF StartRotation
    <2>5. CASE CompleteRotation
        BY <2>5 DEF CompleteRotation, Rotations, Clusters
    <2>6. CASE RequestDelete
        BY <2>6 DEF RequestDelete
    <2>7. CASE RequestForceDelete
        BY <2>7 DEF RequestForceDelete
    <2>8. CASE RequestMigrate
        BY <2>8 DEF RequestMigrate
    <2>9. CASE SwitchSeed
        BY <2>9 DEF SwitchSeed, Persisted, NoSpec, NoPod, NoTLS, SeedSpecs
    <2> QED
        BY <1>12, <2>1, <2>2, <2>3, <2>4, <2>5, <2>6, <2>7, <2>8, <2>9 DEF Requests
<1> QED
    BY <1>1, <1>2, <1>3, <1>4, <1>5, <1>6, <1>7, <1>8, <1>9, <1>10, <1>11, <1>12, <1>13,
       <1>14, <1>15 DEF Next, Progress, Handler, Faults, TimeOut, ReturnError

\* Types hold initially.
LEMMA TypeInit == Init => TypeOK
<1> SUFFICES ASSUME Init PROVE TypeOK
    OBVIOUS
<1> USE MaxCAAssumption, BaseConfigsAssumption, HibernationModesAssumption
<1>1. WorldTypeOK
    <2> SUFFICES ASSUME WorldInit PROVE WorldTypeOK
        BY DEF Init
    <2>1. NoSpec \in SeedSpecs
        BY DEF NoSpec, SeedSpecs, NoTLS
    <2>2. NoShootMR \in ShootMRs
        BY DEF NoShootMR, ShootMRs, MRStates
    <2>3. NoSeedMR \in SeedMRs
        BY <2>1 DEF NoSeedMR, SeedMRs, MRStates
    <2>4. NoPod \in [tls : 0..MaxCA, base : BOOLEAN]
        BY DEF NoPod, NoTLS
    <2>5. NoCA \in [cur : 0..MaxCA, gen : Nat, old : 0..MaxCA]
        BY DEF NoCA
    <2>6. 0 \in 0..MaxCA
        OBVIOUS
    <2> QED
        BY <2>1, <2>2, <2>3, <2>4, <2>5, <2>6 DEF WorldInit, WorldTypeOK
<1>2. NoSnap \in Clusters
    BY DEF NoSnap, Clusters, Rotations
<1>3. cluster \in Clusters
    BY <1>2 DEF Init, Clusters
<1> QED
    BY <1>1, <1>2, <1>3 DEF Init, TypeOK, Phases

\* No step of any actor takes a variable out of its type.
THEOREM TypeCorrect == Spec => []TypeOK
    BY TypeInit, TypeStep, PTL DEF Spec

-----------------------------------------------------------------------------
\* What the steps outside the handlers leave alone.
LEMMA WorldStep ==
    ASSUME Cache \/ ResourceManager \/ Kubelet \/ Operator \/ ScanActivity
               \/ (PodDies /\ UNCHANGED lifecycleVars)
    PROVE  UNCHANGED <<pc, op, phase, queued, cluster, base, snap, access, tls, ca, minted>>
<1>1. CASE Cache
    BY <1>1 DEF Cache, CacheSync
<1>2. CASE ResourceManager
    BY <1>2 DEF ResourceManager, ApplyShoot, ApplySeed, RemoveShootObject, FinalizeShootMR,
                FinalizeSeedMR
<1>3. CASE Kubelet
    BY <1>3 DEF Kubelet, RollPod, StopPod
<1>4. CASE Operator
    BY <1>4 DEF Operator, ReleaseScan
<1>5. CASE ScanActivity
    BY <1>5 DEF ScanActivity, CreateScan, StartScan
<1>6. CASE PodDies /\ UNCHANGED lifecycleVars
    BY <1>6 DEF PodDies
<1> QED
    BY <1>1, <1>2, <1>3, <1>4, <1>5, <1>6

\* The control state of a handler moves along its procedure.
LEMMA HandlerStep == TypeOK /\ HandlerInv /\ [Next]_vars => HandlerInv'
<1> SUFFICES ASSUME TypeOK, HandlerInv, [Next]_vars PROVE HandlerInv'
    OBVIOUS
<1> USE DEF HandlerInv, Reconciling, Waiting, ReconcileOps, DestroyOps, DeployCalls, DestroyCalls,
            AtRest
<1>1. CASE UNCHANGED <<pc, op, phase, queued>>
    BY <1>1 DEF HandlerFor
<1>2. CASE Invoke
    BY <1>2 DEF Invoke, HandlerFor, TypeOK, Phases
<1>3. CASE GetCluster
    BY <1>3 DEF GetCluster, TypeOK, Ops, HandlerFor
<1>4. CASE Deploying
    <2>1. /\ pc \in DeployCalls /\ pc' \in DeployCalls \cup {"succeed"}
          /\ UNCHANGED <<op, phase, queued>>
        BY <1>4 DEF Deploying, ReconcileAccess, GenerateCA, GenerateCert, CreateShoot, CreateSeed,
                    WaitSeed, WaitShoot, Cleanup, Step
    <2> QED
        BY <2>1 DEF HandlerFor
<1>5. CASE Destroying
    <2>1. UNCHANGED <<op, phase, queued>>
        BY <1>5 DEF Destroying, SetKeepObjects, DeleteShoot, DeleteSeed, WaitShootGone,
                    WaitSeedGone, DeleteAccess, CleanupAll
    <2>2. /\ pc \in DestroyCalls /\ pc' \in DestroyCalls \cup {"succeed"}
          /\ pc' # "setKeep"
          /\ pc' \in {"waitShootGone", "waitSeedGone"} => op # "ForceDelete"
          /\ pc' = "cleanupAll" => op # "Migrate"
        BY <1>5 DEF Destroying, SetKeepObjects, DeleteShoot, DeleteSeed, WaitShootGone,
                    WaitSeedGone, DeleteAccess, CleanupAll, Step, ForceDelete,
                    SkipSecretsManagerCleanup
    <2> QED
        BY <2>1, <2>2 DEF HandlerFor
<1>6. CASE Succeed
    BY <1>6 DEF Succeed, Return, TypeOK, Ops, HandlerFor, Phases
<1>7. CASE TimeOut \/ ReturnError
    <2>1. pc # "idle" /\ Fail
        BY <1>7 DEF TimeOut, ReturnError, DeadlineExceeded, Calls
    <2> QED
        BY <2>1 DEF Fail, Return
<1>8. CASE Restart
    BY <1>8 DEF Restart, Return, HandlerFor, TypeOK
<1>9. CASE Requests
    <2>1. /\ UNCHANGED <<pc, op>> /\ queued'
          /\ \/ phase' = "live" /\ phase \in {"gone", "live"}
             \/ phase' \in {"deleting", "migrating"} /\ phase = "live"
             \/ phase' = "forced" /\ phase \in {"live", "deleting", "restoring"}
             \/ phase' = "restoring" /\ phase = "migrated"
        BY <1>9 DEF Requests, EnableExtension, RequestReconcile, ChangeHibernation, StartRotation,
                    CompleteRotation, RequestDelete, RequestForceDelete, RequestMigrate,
                    SwitchSeed, Request
    <2> QED
        BY <2>1
<1> QED
    BY <1>1, <1>2, <1>3, <1>4, <1>5, <1>6, <1>7, <1>8, <1>9, WorldStep
       DEF Next, Progress, Handler, Faults

\* The ManagedResources are deleted only by the procedures that may, and awaited
\* where the component awaits them.
LEMMA ManagedResourceStep ==
    TypeOK /\ HandlerInv /\ ManagedResourceInv /\ [Next]_vars => ManagedResourceInv'
<1> SUFFICES ASSUME TypeOK, HandlerInv, ManagedResourceInv, [Next]_vars
             PROVE  ManagedResourceInv'
    OBVIOUS
<1> USE DEF ManagedResourceInv, Reconciling, Waiting, ReconcileOps, DestroyOps, DeployCalls,
            AtRest, AfterShoot, AfterSeed, AfterCert, AfterCA, AfterAccess, AfterCluster,
            AfterShootGone, AfterSeedGone, AfterSeedDeleted
<1>1. CASE UNCHANGED <<mrVars, deploy, pc, op, phase>>
    BY <1>1
<1>2. CASE Invoke
    BY <1>2 DEF Invoke, HandlerInv, HandlerFor, TypeOK, Phases
<1>3. CASE GetCluster
    BY <1>3 DEF GetCluster
<1>4. CASE Deploying
    <2>1. CASE CreateShoot(Values) /\ UNCHANGED <<requestVars, op, snap>>
        BY <2>1 DEF CreateShoot, Step, HandlerInv, TypeOK, WorldTypeOK, ShootMRs, MRStates
    <2>2. CASE CreateSeed(Values) /\ UNCHANGED <<requestVars, op, snap>>
        BY <2>2 DEF CreateSeed, Step, HandlerInv, TypeOK, WorldTypeOK, SeedMRs, MRStates
    <2>3. CASE UNCHANGED <<mrVars, deploy, op, phase>> /\ pc \in DeployCalls
               /\ (pc' \in AfterShoot => pc \in AfterShoot)
               /\ (pc' \in AfterSeed => pc \in AfterSeed)
        BY <2>3 DEF HandlerInv
    <2> QED
        BY <1>4, <2>1, <2>2, <2>3
           DEF Deploying, ReconcileAccess, GenerateCA, GenerateCert, WaitSeed, WaitShoot,
               Cleanup, Step
<1>5. CASE Destroying
    <2>1. CASE SetKeepObjects
        BY <2>1 DEF SetKeepObjects, Step, HandlerInv, TypeOK, WorldTypeOK, ShootMRs
    <2>2. CASE DeleteShoot(ForceDelete) /\ UNCHANGED <<requestVars, op, snap>>
        BY <2>2 DEF DeleteShoot, Deleted, Step, HandlerInv, DestroyCalls, TypeOK, WorldTypeOK,
                    ShootMRs, ForceDelete, NoShootMR
    <2>3. CASE DeleteSeed(ForceDelete) /\ UNCHANGED <<requestVars, op, snap>>
        BY <2>3 DEF DeleteSeed, Deleted, Step, HandlerInv, DestroyCalls, TypeOK, WorldTypeOK,
                    SeedMRs, ForceDelete, NoSeedMR
    <2>4. CASE WaitShootGone /\ UNCHANGED <<requestVars, op, snap>>
        BY <2>4 DEF WaitShootGone, Step, HandlerInv
    <2>5. CASE WaitSeedGone /\ UNCHANGED <<requestVars, op, snap>>
        BY <2>5 DEF WaitSeedGone, Step, HandlerInv
    <2>6. CASE UNCHANGED <<mrVars, deploy, op, phase>> /\ pc \in AfterSeedGone \ {"succeed"}
               /\ pc' \in AfterSeedGone
        BY <2>6 DEF HandlerInv, DestroyCalls
    <2> QED
        BY <1>5, <2>1, <2>2, <2>3, <2>4, <2>5, <2>6
           DEF Destroying, DeleteAccess, CleanupAll, Step
<1>6. CASE Succeed
    BY <1>6 DEF Succeed, Return, HandlerInv, NoShootMR
<1>7. CASE TimeOut \/ ReturnError \/ Restart
    <2>1. pc' = "idle" /\ op' = "none" /\ UNCHANGED <<mrVars, deploy, phase>>
        BY <1>7 DEF TimeOut, ReturnError, Fail, Restart, Return
    <2> QED
        BY <2>1
<1>8. CASE Requests
    <2>1. CASE UNCHANGED <<mrVars, deploy, pc, op>>
        BY <1>8, <2>1 DEF Requests, EnableExtension, RequestReconcile, ChangeHibernation,
                    StartRotation, CompleteRotation, RequestDelete, RequestForceDelete,
                    RequestMigrate, SwitchSeed, Request, HandlerInv
    <2>2. CASE SwitchSeed
        BY <2>2 DEF SwitchSeed, Request, HandlerInv
    <2> QED
        BY <1>8, <2>1, <2>2
           DEF Requests, EnableExtension, RequestReconcile, ChangeHibernation, StartRotation,
               CompleteRotation, RequestDelete, RequestForceDelete, RequestMigrate, Request
<1>9. CASE ResourceManager
    <2>1. CASE ApplyShoot /\ UNCHANGED lifecycleVars
        BY <2>1 DEF ApplyShoot, TypeOK, WorldTypeOK, ShootMRs
    <2>2. CASE ApplySeed /\ UNCHANGED lifecycleVars
        BY <2>2 DEF ApplySeed, TypeOK, WorldTypeOK, SeedMRs
    <2>3. CASE RemoveShootObject /\ UNCHANGED lifecycleVars
        BY <2>3 DEF RemoveShootObject
    <2>4. CASE FinalizeShootMR /\ UNCHANGED lifecycleVars
        BY <2>4 DEF FinalizeShootMR, NoShootMR
    <2>5. CASE FinalizeSeedMR /\ UNCHANGED lifecycleVars
        BY <2>5 DEF FinalizeSeedMR, NoSeedMR
    <2> QED
        BY <1>9, <2>1, <2>2, <2>3, <2>4, <2>5 DEF ResourceManager
<1>10. CASE Cache \/ Kubelet \/ Operator \/ ScanActivity \/ (PodDies /\ UNCHANGED lifecycleVars)
    <2>1. UNCHANGED <<mrVars, deploy>>
        BY <1>10 DEF Cache, CacheSync, Kubelet, RollPod, StopPod, Operator, ReleaseScan,
                     ScanActivity, CreateScan, StartScan, PodDies
    <2> QED
        BY <1>10, <1>1, <2>1, WorldStep
<1> QED
    BY <1>1, <1>2, <1>3, <1>4, <1>5, <1>6, <1>7, <1>8, <1>9, <1>10
       DEF Next, Progress, Handler, Faults

\* The Secrets are there before the seed ManagedResource refers to them and
\* until it is gone.
LEMMA SecretsStep ==
    TypeOK /\ HandlerInv /\ ManagedResourceInv /\ ManagedResourceInv' /\ SecretsInv /\ [Next]_vars
        => SecretsInv'
<1> SUFFICES ASSUME TypeOK, HandlerInv, ManagedResourceInv, ManagedResourceInv', SecretsInv,
                    [Next]_vars
             PROVE  SecretsInv'
    OBVIOUS
<1> USE DEF SecretsInv, WrittenSecretsExist, Aborted, Reconciling, Waiting, ReconcileOps,
            DestroyOps, DeployCalls, AfterSeed, AfterShoot, AfterCert, AfterCA, AfterAccess,
            AfterCluster
<1>1. CASE UNCHANGED <<seedMR, access, tls, ca, pc, op, phase>>
    BY <1>1
<1>2. CASE Invoke
    BY <1>2 DEF Invoke
<1>3. CASE GetCluster
    BY <1>3 DEF GetCluster
<1>4. CASE Deploying
    <2> USE DEF Step
    <2>1. CASE ReconcileAccess("operator", "operatorAccess", "runnerAccess")
        BY <2>1 DEF ReconcileAccess, TypeOK, WorldTypeOK, AccessSecrets
    <2>2. CASE ReconcileAccess("runner", "runnerAccess", "generateCA")
        <3>1. "operator" \in access
            BY <2>2 DEF ReconcileAccess, HandlerInv
        <3>2. access' = AccessSecrets
            BY <2>2, <3>1 DEF ReconcileAccess, TypeOK, WorldTypeOK, AccessSecrets
        <3> QED
            BY <2>2, <3>2 DEF ReconcileAccess
    <2>3. CASE GenerateCA
        <3>1. ca'.cur # 0
            BY <2>3, MaxCAAssumption DEF GenerateCA, TypeOK, WorldTypeOK
        <3> QED
            BY <2>3, <3>1 DEF GenerateCA
    <2>4. CASE GenerateCert
        BY <2>4 DEF GenerateCert
    <2>5. CASE CreateShoot(Values) /\ UNCHANGED <<requestVars, op, snap>>
        BY <2>5 DEF CreateShoot
    <2>6. CASE CreateSeed(Values) /\ UNCHANGED <<requestVars, op, snap>>
        BY <2>6 DEF CreateSeed, SeedResources, Values, HandlerInv
    <2>7. CASE WaitSeed /\ UNCHANGED <<requestVars, op, snap>>
        BY <2>7 DEF WaitSeed
    <2>8. CASE WaitShoot /\ UNCHANGED <<requestVars, op, snap>>
        BY <2>8 DEF WaitShoot
    <2>9. CASE Cleanup
        BY <2>9 DEF Cleanup, TypeOK, WorldTypeOK, HandlerInv
    <2> QED
        BY <1>4, <2>1, <2>2, <2>3, <2>4, <2>5, <2>6, <2>7, <2>8, <2>9 DEF Deploying
<1>5. CASE Destroying
    <2> USE DEF Step, HandlerInv, DestroyCalls
    <2>1. CASE SetKeepObjects
        BY <2>1 DEF SetKeepObjects
    <2>2. CASE DeleteShoot(ForceDelete) /\ UNCHANGED <<requestVars, op, snap>>
        BY <2>2 DEF DeleteShoot
    <2>3. CASE DeleteSeed(ForceDelete) /\ UNCHANGED <<requestVars, op, snap>>
        <3>1. seedMR'.st # "none" => seedMR.st # "none" /\ seedMR'.spec = seedMR.spec
            BY <2>3 DEF DeleteSeed, Deleted, NoSeedMR, TypeOK, WorldTypeOK, SeedMRs
        <3> QED
            BY <2>3, <3>1 DEF DeleteSeed
    <2>4. CASE WaitShootGone /\ UNCHANGED <<requestVars, op, snap>>
        BY <2>4 DEF WaitShootGone
    <2>5. CASE WaitSeedGone /\ UNCHANGED <<requestVars, op, snap>>
        BY <2>5 DEF WaitSeedGone
    <2>6. CASE UNCHANGED <<seedMR, op, phase>> /\ pc \in AfterSeedGone \ {"succeed"}
        BY <2>6 DEF ManagedResourceInv, AfterSeedGone
    <2> QED
        BY <1>5, <2>1, <2>2, <2>3, <2>4, <2>5, <2>6
           DEF Destroying, DeleteAccess, CleanupAll, AfterSeedGone
<1>6. CASE Succeed
    BY <1>6 DEF Succeed, Return, ManagedResourceInv
<1>7. CASE TimeOut \/ ReturnError \/ Restart
    <2>1. pc' = "idle" /\ op' = "none" /\ UNCHANGED <<seedMR, access, tls, ca, phase>>
        BY <1>7 DEF TimeOut, ReturnError, Fail, Restart, Return
    <2> QED
        BY <2>1
<1>8. CASE Requests
    <2>1. CASE SwitchSeed
        BY <2>1 DEF SwitchSeed, Request, ManagedResourceInv, HandlerInv, AtRest
    <2>2. CASE /\ UNCHANGED <<seedMR, access, tls, ca, pc, op>>
               /\ phase \in {"forced", "forceGone"} => phase' \in {"forced", "forceGone"}
        BY <2>2
    <2>3. CASE EnableExtension
        BY <2>3 DEF EnableExtension, Request
    <2> QED
        BY <1>8, <2>1, <2>2, <2>3
           DEF Requests, RequestReconcile, ChangeHibernation, StartRotation,
               CompleteRotation, RequestDelete, RequestForceDelete, RequestMigrate, Request
<1>9. CASE ResourceManager
    <2>1. CASE ApplySeed /\ UNCHANGED lifecycleVars
        BY <2>1 DEF ApplySeed, TypeOK, WorldTypeOK, SeedMRs
    <2>2. CASE FinalizeSeedMR /\ UNCHANGED lifecycleVars
        BY <2>2 DEF FinalizeSeedMR, NoSeedMR, ManagedResourceInv
    <2>3. CASE UNCHANGED seedMR
        BY <1>1, <1>9, <2>3, WorldStep
    <2> QED
        BY <1>9, <2>1, <2>2, <2>3
           DEF ResourceManager, ApplyShoot, RemoveShootObject, FinalizeShootMR
<1>10. CASE Cache \/ Kubelet \/ Operator \/ ScanActivity \/ (PodDies /\ UNCHANGED lifecycleVars)
    <2>1. UNCHANGED seedMR
        BY <1>10 DEF Cache, CacheSync, Kubelet, RollPod, StopPod, Operator, ReleaseScan,
                     ScanActivity, CreateScan, StartScan, PodDies
    <2> QED
        BY <1>10, <1>1, <2>1, WorldStep
<1> QED
    BY <1>1, <1>2, <1>3, <1>4, <1>5, <1>6, <1>7, <1>8, <1>9, <1>10
       DEF Next, Progress, Handler, Faults

\* Delete removes the operator after the shoot's objects, and leaves nothing.
LEMMA ShootStep ==
    TypeOK /\ HandlerInv /\ ManagedResourceInv /\ ManagedResourceInv' /\ ShootInv /\ [Next]_vars
        => ShootInv'
<1> SUFFICES ASSUME TypeOK, HandlerInv, ManagedResourceInv, ManagedResourceInv', ShootInv,
                    [Next]_vars
             PROVE  ShootInv'
    OBVIOUS
<1> USE DEF ShootInv, OperatorOutlivesScans, DeleteLeavesNothing, ShootCleared, Reconciling,
            Waiting, ReconcileOps, DestroyOps, AfterSeedGone
<1>1. CASE UNCHANGED <<mrVars, deploy, access, tls, ca, crd, rbac, webhook, scans, pc, op, phase>>
    BY <1>1
<1>2. CASE Invoke
    BY <1>2 DEF Invoke, HandlerFor, TypeOK, Phases, AtRest
<1>3. CASE GetCluster
    BY <1>3 DEF GetCluster, HandlerInv
<1>4. CASE Deploying
    <2>1. CASE CreateShoot(Values) /\ UNCHANGED <<requestVars, op, snap>>
        BY <2>1 DEF CreateShoot, Step, HandlerInv, DeployCalls, ManagedResourceInv
    <2>2. CASE CreateSeed(Values) /\ UNCHANGED <<requestVars, op, snap>>
        BY <2>2 DEF CreateSeed, Step, HandlerInv, DeployCalls, ManagedResourceInv, AtRest
    <2>3. CASE UNCHANGED <<mrVars, deploy, crd, rbac, webhook, scans, op, phase>>
               /\ pc \in DeployCalls
        BY <2>3 DEF HandlerInv, DeployCalls, AtRest
    <2> QED
        BY <1>4, <2>1, <2>2, <2>3
           DEF Deploying, ReconcileAccess, GenerateCA, GenerateCert, WaitSeed, WaitShoot,
               Cleanup, Step, DeployCalls
<1>5. CASE Destroying
    <2> USE DEF Step, HandlerInv, DestroyCalls, AtRest
    <2>1. CASE SetKeepObjects
        BY <2>1 DEF SetKeepObjects
    <2>2. CASE DeleteShoot(ForceDelete) /\ UNCHANGED <<requestVars, op, snap>>
        <3>1. shootMR'.st = "none" <=> shootMR.st = "none"
            BY <2>2 DEF DeleteShoot, Deleted, NoShootMR, TypeOK, WorldTypeOK, ShootMRs
        <3> QED
            BY <2>2, <3>1 DEF DeleteShoot
    <2>3. CASE DeleteSeed(ForceDelete) /\ UNCHANGED <<requestVars, op, snap>>
        BY <2>3 DEF DeleteSeed, ManagedResourceInv, AfterShootGone, AfterSeedDeleted
    <2>4. CASE WaitShootGone /\ UNCHANGED <<requestVars, op, snap>>
        BY <2>4 DEF WaitShootGone
    <2>5. CASE WaitSeedGone /\ UNCHANGED <<requestVars, op, snap>>
        BY <2>5 DEF WaitSeedGone
    <2>6. CASE DeleteAccess("operator", "deleteOperatorAccess", "deleteRunnerAccess")
        BY <2>6 DEF DeleteAccess
    <2>7. CASE DeleteAccess("runner", "deleteRunnerAccess",
                            IF SkipSecretsManagerCleanup THEN "succeed" ELSE "cleanupAll")
        BY <2>7 DEF DeleteAccess, SkipSecretsManagerCleanup, TypeOK, WorldTypeOK, AccessSecrets
    <2>8. CASE CleanupAll
        BY <2>8 DEF CleanupAll
    <2> QED
        BY <1>5, <2>1, <2>2, <2>3, <2>4, <2>5, <2>6, <2>7, <2>8 DEF Destroying
<1>6. CASE Succeed
    BY <1>6 DEF Succeed, Return, HandlerInv, ManagedResourceInv, AfterShoot, AfterCert, AfterCA,
                AfterAccess, AfterCluster, AfterShootGone, AfterSeedDeleted
<1>7. CASE TimeOut \/ ReturnError \/ Restart
    <2>1. pc' = "idle" /\ op' = "none"
          /\ UNCHANGED <<mrVars, deploy, access, tls, ca, crd, rbac, webhook, scans, phase>>
        BY <1>7 DEF TimeOut, ReturnError, Fail, Restart, Return
    <2> QED
        BY <2>1
<1>8. CASE Requests
    <2>1. CASE SwitchSeed
        BY <2>1 DEF SwitchSeed, Request, HandlerInv, AtRest
    <2>2. /\ phase' = "deleting" => phase = "live"
          /\ phase' # "gone"
          /\ phase' = "live" => phase \in {"gone", "live"}
        BY <1>8 DEF Requests, EnableExtension, RequestReconcile, ChangeHibernation, StartRotation,
               CompleteRotation, RequestDelete, RequestForceDelete, RequestMigrate, SwitchSeed,
               Request
    <2>3. CASE UNCHANGED <<worldVars, pc, op>>
        BY <2>2, <2>3 DEF ManagedResourceInv
    <2> QED
        BY <1>8, <2>1, <2>3
           DEF Requests, EnableExtension, RequestReconcile, ChangeHibernation, StartRotation,
               CompleteRotation, RequestDelete, RequestForceDelete, RequestMigrate, Request
<1>9. CASE ResourceManager
    <2>1. UNCHANGED <<pc, op, phase, access, tls, ca>>
        BY <1>9, WorldStep
    <2>2. CASE ApplyShoot /\ UNCHANGED lifecycleVars
        BY <2>1, <2>2 DEF ApplyShoot, ManagedResourceInv, TypeOK, WorldTypeOK, ShootMRs
    <2>3. CASE ApplySeed /\ UNCHANGED lifecycleVars
        BY <2>1, <2>3 DEF ApplySeed, ManagedResourceInv, TypeOK, WorldTypeOK, SeedMRs
    <2>4. CASE RemoveShootObject /\ UNCHANGED lifecycleVars
        BY <2>1, <2>4 DEF RemoveShootObject, NoShootMR
    <2>5. CASE FinalizeShootMR /\ UNCHANGED lifecycleVars
        BY <2>1, <2>5 DEF FinalizeShootMR, ManagedResourceInv, HandlerInv
    <2>6. CASE FinalizeSeedMR /\ UNCHANGED lifecycleVars
        BY <2>1, <2>6 DEF FinalizeSeedMR, NoSeedMR, ManagedResourceInv
    <2> QED
        BY <1>9, <2>2, <2>3, <2>4, <2>5, <2>6 DEF ResourceManager
<1>10. CASE ScanActivity
    <2>1. UNCHANGED <<mrVars, deploy, crd, rbac, webhook, pc, op, phase, access, tls, ca>>
          /\ (crd = "present" \/ UNCHANGED scans)
        BY <1>10 DEF ScanActivity, CreateScan, StartScan
    <2> QED
        BY <2>1
<1>11. CASE Cache \/ Kubelet \/ Operator \/ (PodDies /\ UNCHANGED lifecycleVars)
    <2>1. UNCHANGED <<mrVars, deploy, crd, rbac, webhook, scans>>
        BY <1>11 DEF Cache, CacheSync, Kubelet, RollPod, StopPod, Operator, ReleaseScan, PodDies
    <2> QED
        BY <1>11, <1>1, <2>1, WorldStep
<1> QED
    BY <1>1, <1>2, <1>3, <1>4, <1>5, <1>6, <1>7, <1>8, <1>9, <1>10, <1>11
       DEF Next, Progress, Handler, Faults

\* The bundle and the certificate follow the rotation so that each written
\* certificate is trusted by the written bundle.
LEMMA RotationStep ==
    TypeOK /\ TypeOK' /\ HandlerInv /\ ManagedResourceInv /\ SecretsInv /\ RotationInv /\ [Next]_vars
        => RotationInv'
<1> SUFFICES ASSUME TypeOK, TypeOK', HandlerInv, ManagedResourceInv, SecretsInv, RotationInv,
                    [Next]_vars
             PROVE  RotationInv'
    OBVIOUS
<1> USE DEF RotationInv, WebhookTrust, CABundle, Reconciling, ReconcileOps, AfterSeed, AfterShoot,
            AfterCert, AfterCA, AfterAccess, AfterCluster
<1>1. CASE UNCHANGED <<mrVars, ca, cluster, snap, pc, op>>
    BY <1>1
<1>2. CASE Invoke
    BY <1>2 DEF Invoke, DeployCalls
<1>3. CASE GetCluster
    <2>1. CASE op \in ReconcileOps
        BY <1>3, <2>1 DEF GetCluster, DeployCalls
    <2>2. CASE op \notin ReconcileOps
        BY <1>3, <2>2 DEF GetCluster
    <2> QED
        BY <2>1, <2>2
<1>4. CASE Deploying
    <2> USE DEF Step, DeployCalls
    <2>1. CASE GenerateCA
        BY <2>1 DEF GenerateCA, HandlerInv, TypeOK, WorldTypeOK
    <2>2. CASE CreateShoot(Values) /\ UNCHANGED <<requestVars, op, snap>>
        BY <2>2 DEF CreateShoot, Values, ShootResources, HandlerInv
    <2>3. CASE CreateSeed(Values) /\ UNCHANGED <<requestVars, op, snap>>
        BY <2>3 DEF CreateSeed, Values, SeedResources, HandlerInv, SecretsInv
    <2>4. CASE Cleanup
        BY <2>4 DEF Cleanup, HandlerInv, SecretsInv, TypeOK, WorldTypeOK
    <2>5. CASE /\ UNCHANGED <<mrVars, ca, cluster, snap, op>>
               /\ pc \in DeployCalls
               /\ (pc' \in AfterShoot => pc \in AfterShoot)
               /\ (pc' \in AfterCA => pc \in AfterCA)
        BY <2>5 DEF HandlerInv
    <2> QED
        BY <1>4, <2>1, <2>2, <2>3, <2>4, <2>5
           DEF Deploying, ReconcileAccess, GenerateCert, WaitSeed, WaitShoot
<1>5. CASE Destroying
    <2>1. op \notin ReconcileOps /\ UNCHANGED <<op, snap, cluster>>
        BY <1>5 DEF HandlerInv, DestroyCalls, DestroyOps, Destroying, SetKeepObjects, DeleteShoot,
                    DeleteSeed, WaitShootGone, WaitSeedGone, DeleteAccess, CleanupAll, Step
    <2>2. CASE SetKeepObjects
        BY <2>1, <2>2 DEF SetKeepObjects, TypeOK, WorldTypeOK, ShootMRs
    <2>3. CASE DeleteShoot(ForceDelete) /\ UNCHANGED <<requestVars, op, snap>>
        BY <2>1, <2>3 DEF DeleteShoot, Deleted, NoShootMR, TypeOK, WorldTypeOK, ShootMRs
    <2>4. CASE DeleteSeed(ForceDelete) /\ UNCHANGED <<requestVars, op, snap>>
        BY <2>1, <2>4 DEF DeleteSeed, Deleted, NoSeedMR, TypeOK, WorldTypeOK, SeedMRs
    <2>5. CASE CleanupAll
        BY <2>1, <2>5 DEF CleanupAll, NoCA, HandlerInv, Step, ManagedResourceInv, DestroyOps,
                          AfterSeedDeleted, AfterSeedGone
    <2>6. CASE UNCHANGED <<mrVars, ca>>
        BY <2>1, <2>6
    <2> QED
        BY <1>5, <2>2, <2>3, <2>4, <2>5, <2>6
           DEF Destroying, WaitShootGone, WaitSeedGone, DeleteAccess
<1>6. CASE Succeed
    <2>1. /\ UNCHANGED <<mrVars, ca>> /\ op' = "none"
          /\ cluster' = IF op \in ReconcileOps THEN Advanced(cluster) ELSE cluster
        BY <1>6 DEF Succeed, Return
    <2>2. Advanced(cluster).gen = cluster.gen
        BY DEF Advanced, TypeOK, Clusters
    <2>3. CASE cluster' = cluster
        BY <2>1, <2>3
    <2>4. CASE op \in ReconcileOps /\ snap.rot = cluster.rot /\ snap.gen = cluster.gen
        BY <1>6, <2>1, <2>2, <2>4 DEF Succeed, SecretsInv
    <2> QED
        BY <2>1, <2>3, <2>4 DEF Advanced
<1>7. CASE TimeOut \/ ReturnError \/ Restart
    <2>1. pc' = "idle" /\ op' = "none" /\ UNCHANGED <<mrVars, ca, cluster>>
        BY <1>7 DEF TimeOut, ReturnError, Fail, Restart, Return
    <2> QED
        BY <2>1
<1>8. CASE Requests
    <2>1. CASE SwitchSeed
        BY <2>1 DEF SwitchSeed, Persisted, Request
    <2>2. CASE ChangeHibernation
        <3>1. cluster'.rot = cluster.rot /\ cluster'.gen = cluster.gen
            BY <2>2 DEF ChangeHibernation, TypeOK, Clusters
        <3> QED
            BY <2>2, <3>1 DEF ChangeHibernation, Request
    <2>3. CASE StartRotation
        <3>1. cluster'.rot = "Preparing" /\ cluster'.gen = cluster.gen + 1 /\ cluster.gen \in Nat
            BY <2>3 DEF StartRotation, TypeOK, Clusters
        <3> QED
            BY <2>3, <3>1 DEF StartRotation, Request
    <2>4. CASE CompleteRotation
        <3>1. cluster'.rot = "Completing" /\ cluster'.gen = cluster.gen
            BY <2>4 DEF CompleteRotation, TypeOK, Clusters
        <3> QED
            BY <2>4, <3>1 DEF CompleteRotation, Request
    <2>5. CASE UNCHANGED <<mrVars, ca, cluster, snap, pc, op>>
        BY <2>5
    <2> QED
        BY <1>8, <2>1, <2>2, <2>3, <2>4, <2>5
           DEF Requests, EnableExtension, RequestReconcile, RequestDelete, RequestForceDelete,
               RequestMigrate, Request
<1>9. CASE ResourceManager
    <2>1. UNCHANGED <<pc, op, ca, cluster, snap>>
        BY <1>9, WorldStep
    <2>2. /\ shootMR'.st = "live" => shootMR.st = "live"
          /\ seedMR'.st = "live" => seedMR.st = "live"
          /\ shootMR.st = "live" => shootMR'.spec = shootMR.spec
          /\ seedMR.st = "live" => seedMR'.spec = seedMR.spec
        BY <1>9 DEF ResourceManager, ApplyShoot, ApplySeed, RemoveShootObject, FinalizeShootMR,
                    FinalizeSeedMR, NoShootMR, NoSeedMR, TypeOK, WorldTypeOK, ShootMRs, SeedMRs
    <2> QED
        BY <2>1, <2>2 DEF ManagedResourceInv
<1>10. CASE Cache \/ Kubelet \/ Operator \/ ScanActivity \/ (PodDies /\ UNCHANGED lifecycleVars)
    <2>1. UNCHANGED mrVars
        BY <1>10 DEF Cache, CacheSync, Kubelet, RollPod, StopPod, Operator, ReleaseScan,
                     ScanActivity, CreateScan, StartScan, PodDies
    <2> QED
        BY <1>10, <1>1, <2>1, WorldStep
<1> QED
    BY <1>1, <1>2, <1>3, <1>4, <1>5, <1>6, <1>7, <1>8, <1>9, <1>10
       DEF Next, Progress, Handler, Faults

\* A handler that no other one follows has worked on the current Cluster.
LEMMA RequestStep ==
    /\ TypeOK /\ HandlerInv /\ ManagedResourceInv /\ SecretsInv /\ RotationInv /\ RequestInv
    /\ TypeOK' /\ HandlerInv'
    /\ [Next]_vars
    => RequestInv'
<1> SUFFICES ASSUME TypeOK, HandlerInv, ManagedResourceInv, SecretsInv, RotationInv, RequestInv,
                    TypeOK', HandlerInv', [Next]_vars
             PROVE  RequestInv'
    OBVIOUS
<1> USE DEF RequestInv, NoRequestLost, UpToDate, Reconciling, ReconcileOps, AfterSeed, AfterShoot,
            AfterCert, AfterCA, AfterAccess, AfterCluster, Replicas
<1>1. CASE UNCHANGED <<mrVars, ca, access, cluster, snap, pc, op, phase, queued>>
    BY <1>1
<1>2. CASE Invoke
    BY <1>2 DEF Invoke, DeployCalls
<1>3. CASE GetCluster
    BY <1>3 DEF GetCluster, DeployCalls
<1>4. CASE Deploying
    <2> USE DEF Step, DeployCalls
    <2>1. CASE GenerateCA
        BY <2>1 DEF GenerateCA, HandlerInv, RotationInv
    <2>2. CASE CreateSeed(Values) /\ UNCHANGED <<requestVars, op, snap>>
        BY <2>2 DEF CreateSeed, Values, SeedResources, HandlerInv
    <2>3. CASE Cleanup
        BY <2>3 DEF Cleanup, HandlerInv, TypeOK, WorldTypeOK
    <2>4. CASE /\ UNCHANGED <<seedMR, ca, requestVars, snap, op>>
               /\ pc \in DeployCalls /\ pc' \in DeployCalls
               /\ (pc' \in AfterSeed => pc \in AfterSeed)
        BY <2>4 DEF HandlerInv
    <2> QED
        BY <1>4, <2>1, <2>2, <2>3, <2>4
           DEF Deploying, ReconcileAccess, GenerateCert, CreateShoot, WaitSeed, WaitShoot
<1>5. CASE Destroying
    <2>1. /\ op \notin ReconcileOps /\ UNCHANGED <<op, snap, cluster, phase, queued>>
          /\ pc' # "idle"
          /\ ca' = ca \/ ca' = NoCA
        BY <1>5 DEF HandlerInv, DestroyCalls, DestroyOps, Destroying, SetKeepObjects, DeleteShoot,
                    DeleteSeed, WaitShootGone, WaitSeedGone, DeleteAccess, CleanupAll, Step
    <2> QED
        BY <2>1 DEF NoCA
<1>6. CASE Succeed
    <2>1. /\ op' = "none" /\ pc' = "idle" /\ UNCHANGED <<mrVars, ca, access>>
          /\ cluster' = IF op \in ReconcileOps THEN Advanced(cluster) ELSE cluster
        BY <1>6 DEF Succeed, Return
    <2>2. CASE op \notin ReconcileOps
        BY <1>6, <2>1, <2>2 DEF Succeed, HandlerInv, HandlerFor, TypeOK, Ops, DestroyOps, AtRest, Phases
    <2>3. CASE op \in ReconcileOps
        <3>1. /\ cluster'.gen = cluster.gen /\ cluster'.hib = cluster.hib
              /\ cluster'.rot = IF snap.rot # cluster.rot \/ snap.gen # cluster.gen THEN cluster.rot
                                ELSE IF cluster.rot = "Preparing" THEN "Prepared"
                                ELSE IF cluster.rot = "Completing" THEN "Completed"
                                ELSE cluster.rot
            BY <2>1, <2>3 DEF Advanced, TypeOK, Clusters
        <3>2. cluster'.rot = "Completed" => ca.old = 0
            BY <1>6, <2>3, <3>1 DEF Succeed
        <3>3. CASE queued
            BY <1>6, <2>1, <2>3, <3>2, <3>3 DEF Succeed, TypeOK
        <3>4. CASE ~queued
            <4>1. snap = cluster /\ phase' = "live"
                BY <1>6, <2>3, <3>4 DEF Succeed, HandlerInv, HandlerFor, AtRest
            <4>2. cluster'.rot \in {"Prepared", "Completed"}
                BY <3>1, <4>1 DEF TypeOK, Clusters, Rotations
            <4>3. shootMR.spec = {ca.cur, ca.old} \ {0}
                BY <1>6, <2>3 DEF Succeed, RotationInv, CABundle
            <4>4. UpToDate'
                BY <1>6, <2>1, <2>3, <3>1, <3>2, <4>1, <4>2, <4>3
                   DEF Succeed, SecretsInv, RotationInv, ManagedResourceInv
            <4> QED
                BY <2>1, <3>2, <4>1, <4>4
        <3> QED
            BY <3>3, <3>4
    <2> QED
        BY <2>2, <2>3
<1>7. CASE TimeOut \/ ReturnError
    <2>1. queued' /\ op' = "none" /\ UNCHANGED <<ca, cluster>>
        BY <1>7 DEF TimeOut, ReturnError, Fail, Return
    <2> QED
        BY <2>1
<1>8. CASE Restart
    BY <1>8 DEF Restart, Return, TypeOK
<1>9. CASE Requests
    <2>1. queued' /\ UNCHANGED <<seedMR, snap, pc, op>>
        BY <1>9 DEF Requests, EnableExtension, RequestReconcile, ChangeHibernation, StartRotation,
               CompleteRotation, RequestDelete, RequestForceDelete, RequestMigrate, SwitchSeed,
               Request
    <2>2. ca' = ca
        BY <1>9 DEF Requests, EnableExtension, RequestReconcile, ChangeHibernation, StartRotation,
               CompleteRotation, RequestDelete, RequestForceDelete, RequestMigrate, SwitchSeed,
               Persisted
    <2>3. cluster'.rot = "Completed" => cluster.rot = "Completed"
        BY <1>9 DEF Requests, EnableExtension, RequestReconcile, ChangeHibernation, StartRotation,
               CompleteRotation, RequestDelete, RequestForceDelete, RequestMigrate, SwitchSeed,
               TypeOK, Clusters
    <2> QED
        BY <2>1, <2>2, <2>3
<1>10. CASE ResourceManager
    <2>1. UNCHANGED <<pc, op, phase, queued, ca, access, cluster, snap>>
        BY <1>10, WorldStep
    <2>2. /\ shootMR.st = "live" => shootMR'.st = "live" /\ shootMR'.spec = shootMR.spec
          /\ seedMR.st = "live" => seedMR'.st = "live" /\ seedMR'.spec = seedMR.spec
        BY <1>10 DEF ResourceManager, ApplyShoot, ApplySeed, RemoveShootObject, FinalizeShootMR,
                     FinalizeSeedMR, TypeOK, WorldTypeOK, ShootMRs, SeedMRs
    <2> QED
        BY <2>1, <2>2 DEF ManagedResourceInv
<1>11. CASE Cache \/ Kubelet \/ Operator \/ ScanActivity \/ (PodDies /\ UNCHANGED lifecycleVars)
    <2>1. UNCHANGED mrVars
        BY <1>11 DEF Cache, CacheSync, Kubelet, RollPod, StopPod, Operator, ReleaseScan,
                     ScanActivity, CreateScan, StartScan, PodDies
    <2> QED
        BY <1>11, <1>1, <2>1, WorldStep
<1> QED
    BY <1>1, <1>2, <1>3, <1>4, <1>5, <1>6, <1>7, <1>8, <1>9, <1>10, <1>11
       DEF Next, Progress, Handler, Faults

\* The applied webhooks never lose the last CA that the secrets manager has.
LEMMA TrustStep ==
    /\ TypeOK /\ HandlerInv /\ ManagedResourceInv /\ SecretsInv /\ ShootInv
    /\ RotationInv /\ RequestInv /\ TrustInv
    /\ TypeOK' /\ ShootInv' /\ ManagedResourceInv'
    /\ [Next]_vars
    => TrustInv'
<1> SUFFICES ASSUME TypeOK, HandlerInv, ManagedResourceInv, SecretsInv, ShootInv, RotationInv,
                    RequestInv, TrustInv, TypeOK', ShootInv', ManagedResourceInv', [Next]_vars
             PROVE  TrustInv'
    OBVIOUS
<1> USE DEF TrustInv, KnownCATrusted, Aborted, Reconciling, ReconcileOps, AfterShoot, AfterCert,
            AfterCA, AfterAccess, AfterCluster
<1>0. 0 \notin webhook /\ 0 \notin shootMR.spec
    BY DEF TypeOK, WorldTypeOK, CAs, ShootMRs
<1>1. CASE UNCHANGED <<shootMR, ca, webhook, cluster, snap, stale, pc, op, phase>>
    BY <1>1
<1>2. CASE Invoke
    BY <1>2 DEF Invoke, DeployCalls
<1>3. CASE GetCluster
    BY <1>3 DEF GetCluster, DeployCalls
<1>4. CASE Deploying
    <2> USE DEF Step, DeployCalls
    <2>1. CASE GenerateCA
        <3>1. /\ UNCHANGED <<shootMR, webhook, cluster, phase, snap, op, stale>>
              /\ pc = "generateCA" /\ pc' = "generateCert"
            BY <2>1 DEF GenerateCA
        <3>2. CASE UNCHANGED ca
            BY <3>1, <3>2
        <3>3. CASE ~UNCHANGED ca
            <4>1. /\ ca'.cur = minted + 1 /\ ca'.gen = snap.gen /\ ca'.old = ca.cur
                  /\ minted \in Nat
                  /\ ca.cur = 0 \/ ca.gen # snap.gen
                BY <2>1, <3>3, MaxCAAssumption DEF GenerateCA, TypeOK, WorldTypeOK
            <4>2. /\ ca.old = 0 /\ snap.gen = cluster.gen
                  /\ ca.cur # 0 => cluster.rot = "Preparing"
                BY <3>1, <4>1 DEF RotationInv, HandlerInv
            <4>3. ca'.cur # 0
                BY <4>1
            <4>4. /\ webhook # {} /\ ~Aborted => ca.cur \in webhook
                  /\ shootMR.st = "live" => ca.cur # 0 /\ ca.cur \in shootMR.spec
                BY <1>0, <4>2
            <4> QED
                BY <3>1, <4>1, <4>2, <4>3, <4>4
        <3> QED
            BY <3>2, <3>3
    <2>2. CASE CreateShoot(Values) /\ UNCHANGED <<requestVars, op, snap>>
        <3> DEFINE same == shootMR.spec = CABundle /\ ~shootMR.keep
        <3>1. /\ shootMR'.st = "live" /\ shootMR'.spec = CABundle
              /\ shootMR'.synced = (same /\ shootMR.synced)
              /\ stale' = IF ShootHealthy /\ ~same THEN stale \cup {"shoot"} ELSE stale
              /\ pc' = "createSeed" /\ pc = "createShoot"
              /\ UNCHANGED <<ca, webhook, cluster, snap, op, phase>>
            BY <2>2 DEF CreateShoot, Values, ShootResources, ManagedResourceInv, HandlerInv,
                        TypeOK, WorldTypeOK, ShootMRs, MRStates
        <3>2. Reconciling /\ ca.cur # 0 /\ ca.cur \in CABundle
            BY <3>1 DEF SecretsInv, HandlerInv, CABundle
        <3>3. same /\ shootMR.synced => webhook = CABundle
            BY <3>1, <3>2 DEF ManagedResourceInv, NoShootMR, TypeOK, WorldTypeOK, ShootMRs,
                              MRStates
        <3>4. snap.rot = "Completing" /\ ShootHealthy => ca.cur \in webhook
            BY <3>1, <3>2 DEF ShootHealthy, RotationInv
        <3> QED
            BY <3>1, <3>2, <3>3, <3>4
    <2>3. CASE WaitShoot /\ UNCHANGED <<requestVars, op, snap>>
        <3>1. SeesShootHealthy /\ snap.rot = "Completing" /\ Reconciling
                  => ca.cur \in webhook
            BY <2>3 DEF WaitShoot, SeesShootHealthy, ShootHealthy, RotationInv, SecretsInv, CABundle
        <3> QED
            BY <2>3, <3>1 DEF WaitShoot
    <2>4. CASE Cleanup
        <3>1. /\ UNCHANGED <<shootMR, webhook, cluster, phase, snap, op, stale>>
              /\ pc = "cleanup" /\ pc' = "succeed" /\ Reconciling
              /\ ca' = IF snap.rot = "Completing" THEN [ca EXCEPT !.old = 0] ELSE ca
            BY <2>4 DEF Cleanup, HandlerInv
        <3>2. CASE snap.rot = "Completing"
            <4>1. ca'.cur = ca.cur /\ ca'.old = 0 /\ ca'.gen = ca.gen
                BY <3>1, <3>2 DEF TypeOK, WorldTypeOK
            <4>2. cluster.rot = "Completing" /\ ca.cur \in webhook
                BY <3>1, <3>2 DEF RotationInv
            <4> QED
                BY <3>1, <4>1, <4>2
        <3>3. CASE snap.rot # "Completing"
            BY <3>1, <3>3
        <3> QED
            BY <3>2, <3>3
    <2>5. CASE /\ UNCHANGED <<shootMR, ca, webhook, cluster, snap, op, phase>>
               /\ "shoot" \in stale' => "shoot" \in stale
               /\ pc \in AfterShoot => pc' \in AfterShoot
               /\ pc' # "cleanup"
        BY <2>5
    <2>6. CASE CreateSeed(Values) /\ UNCHANGED <<requestVars, op, snap>>
        <3>1. "shoot" \in stale' => "shoot" \in stale
            BY <2>6 DEF CreateSeed
        <3> QED
            BY <2>5, <2>6, <3>1 DEF CreateSeed
    <2> QED
        BY <1>4, <2>1, <2>2, <2>3, <2>4, <2>5, <2>6
           DEF Deploying, ReconcileAccess, GenerateCert, WaitSeed
<1>5. CASE Destroying
    <2>1. /\ op \notin ReconcileOps /\ UNCHANGED <<op, snap, cluster, phase, webhook, stale>>
        BY <1>5 DEF HandlerInv, DestroyCalls, DestroyOps, Destroying, SetKeepObjects, DeleteShoot,
                    DeleteSeed, WaitShootGone, WaitSeedGone, DeleteAccess, CleanupAll, Step
    <2>2. CASE CleanupAll
        BY <2>1, <2>2 DEF CleanupAll, NoCA, HandlerInv, Step, ManagedResourceInv, DestroyOps, ShootInv,
                    ShootCleared, Waiting, AfterShootGone, AfterSeedDeleted, AfterSeedGone
    <2>3. CASE SetKeepObjects
        BY <2>1, <2>3 DEF SetKeepObjects, TypeOK, WorldTypeOK, ShootMRs
    <2>4. CASE DeleteShoot(ForceDelete) /\ UNCHANGED <<requestVars, op, snap>>
        BY <2>1, <2>4 DEF DeleteShoot, Deleted, NoShootMR, TypeOK, WorldTypeOK, ShootMRs
    <2>5. CASE UNCHANGED <<shootMR, ca>>
        BY <2>1, <2>5
    <2> QED
        BY <1>5, <2>2, <2>3, <2>4, <2>5
           DEF Destroying, DeleteSeed, WaitShootGone, WaitSeedGone, DeleteAccess
<1>6. CASE Succeed
    <2>1. /\ UNCHANGED <<shootMR, ca, webhook>> /\ op' = "none" /\ stale' = {}
          /\ cluster' = IF op \in ReconcileOps THEN Advanced(cluster) ELSE cluster
        BY <1>6 DEF Succeed, Return
    <2>2. /\ cluster'.gen = cluster.gen
          /\ cluster'.rot = "Preparing" => cluster.rot = "Preparing"
          /\ cluster'.rot # "Preparing" /\ cluster.rot = "Preparing" => op \in ReconcileOps
        BY <2>1 DEF Advanced, TypeOK, Clusters
    <2>3. op \in ReconcileOps => ca.cur \in shootMR.spec
        BY <1>6 DEF Succeed, SecretsInv, RotationInv, CABundle
    <2>4. phase' \in {"forced", "forceGone"} <=> phase \in {"forced", "forceGone"} /\ op # "Delete"
        BY <1>6 DEF Succeed, HandlerInv
    <2>5. phase' = "gone" => webhook' = {}
        BY <2>1 DEF ShootInv, DeleteLeavesNothing, ShootCleared
    <2>6. op = "Delete" => phase' = "gone"
        BY <1>6 DEF Succeed
    <2> QED
        BY <2>1, <2>2, <2>3, <2>4, <2>5, <2>6
<1>7. CASE TimeOut \/ ReturnError \/ Restart
    <2>1. op' = "none" /\ stale' = {} /\ UNCHANGED <<shootMR, ca, webhook, cluster, phase>>
        BY <1>7 DEF TimeOut, ReturnError, Fail, Restart, Return
    <2> QED
        BY <2>1
<1>8. CASE Requests
    <2>1. CASE SwitchSeed
        BY <2>1 DEF SwitchSeed, Persisted, Request
    <2>2. CASE ChangeHibernation
        <3>1. cluster'.rot = cluster.rot /\ cluster'.gen = cluster.gen
            BY <2>2 DEF ChangeHibernation, TypeOK, Clusters
        <3> QED
            BY <2>2, <3>1 DEF ChangeHibernation, Request
    <2>3. CASE StartRotation
        <3>1. cluster'.rot = "Preparing" /\ cluster.rot = "Completed"
            BY <2>3 DEF StartRotation, TypeOK, Clusters
        <3> QED
            BY <2>3, <3>1 DEF StartRotation, Request, RequestInv
    <2>4. CASE CompleteRotation
        <3>1. cluster'.rot = "Completing" /\ cluster.rot = "Prepared"
            BY <2>4 DEF CompleteRotation, TypeOK, Clusters
        <3> QED
            BY <2>4, <3>1 DEF CompleteRotation, Request
    <2>5. CASE /\ UNCHANGED <<shootMR, ca, webhook, cluster, snap, stale, pc, op>>
               /\ phase \in {"forced", "forceGone"} => phase' \in {"forced", "forceGone"}
        BY <2>5
    <2> QED
        BY <1>8, <2>1, <2>2, <2>3, <2>4, <2>5
           DEF Requests, EnableExtension, RequestReconcile, RequestDelete, RequestForceDelete,
               RequestMigrate, Request
<1>9. CASE ResourceManager
    <2>1. UNCHANGED <<pc, op, ca, cluster, snap, phase>>
        BY <1>9, WorldStep
    <2>2. CASE ApplyShoot /\ UNCHANGED lifecycleVars
        <3>1. /\ shootMR'.st = "live" /\ shootMR.st = "live" /\ shootMR'.spec = shootMR.spec
              /\ webhook' = shootMR.spec /\ stale' = stale
            BY <2>2 DEF ApplyShoot, TypeOK, WorldTypeOK, ShootMRs
        <3>2. Reconciling /\ pc \in AfterShoot => ca.cur \in shootMR.spec
            BY DEF RotationInv, SecretsInv, CABundle
        <3>3. pc = "cleanup" => pc \in AfterShoot
            BY DEF DeployCalls
        <3> QED
            BY <2>1, <3>1, <3>2, <3>3
    <2>3. CASE RemoveShootObject /\ UNCHANGED lifecycleVars
        BY <2>1, <2>3 DEF RemoveShootObject, ManagedResourceInv
    <2>4. CASE FinalizeShootMR /\ UNCHANGED lifecycleVars
        BY <2>1, <2>4 DEF FinalizeShootMR, NoShootMR
    <2>5. CASE UNCHANGED <<shootMR, webhook, stale>>
        BY <2>1, <2>5
    <2> QED
        BY <1>9, <2>2, <2>3, <2>4, <2>5 DEF ResourceManager, ApplySeed, FinalizeSeedMR
<1>10. CASE Cache
    <2>1. UNCHANGED <<shootMR, webhook>> /\ ("shoot" \in stale' => "shoot" \in stale)
        BY <1>10 DEF Cache, CacheSync
    <2> QED
        BY <1>10, <2>1, WorldStep
<1>11. CASE Kubelet \/ Operator \/ ScanActivity \/ (PodDies /\ UNCHANGED lifecycleVars)
    <2>1. UNCHANGED <<shootMR, webhook, stale>>
        BY <1>11 DEF Kubelet, RollPod, StopPod, Operator, ReleaseScan,
                     ScanActivity, CreateScan, StartScan, PodDies
    <2> QED
        BY <1>11, <1>1, <2>1, WorldStep
<1> QED
    BY <1>1, <1>2, <1>3, <1>4, <1>5, <1>6, <1>7, <1>8, <1>9, <1>10, <1>11
       DEF Next, Progress, Handler, Faults

\* What Cleanup takes from the applied Deployment is of the old CA, and as long as
\* there is one, GRM has a Deployment to apply whose certificate exists.
LEMMA DeploymentStep ==
    /\ TypeOK /\ HandlerInv /\ ManagedResourceInv /\ SecretsInv /\ ShootInv
    /\ RotationInv /\ TrustInv /\ RequestInv /\ DeploymentInv
    /\ TypeOK' /\ ManagedResourceInv' /\ ShootInv'
    /\ [Next]_vars
    => DeploymentInv'
<1> SUFFICES ASSUME TypeOK, HandlerInv, ManagedResourceInv, SecretsInv, ShootInv, RotationInv,
                    TrustInv, RequestInv, DeploymentInv, TypeOK', ManagedResourceInv', ShootInv',
                    [Next]_vars
             PROVE  DeploymentInv'
    OBVIOUS
<1> USE DEF DeploymentInv, MountedCertificateExists, Aborted, Reconciling, ReconcileOps, AfterSeed,
            AfterShoot, AfterCert, AfterCA, AfterAccess, AfterCluster
<1>0. seedMR.st = "live" => seedMR.spec.tls \in {ca.cur, ca.old} \ {0}
    BY DEF RotationInv
<1>1. CASE UNCHANGED <<seedMR, deploy, tls, ca, snap, stale, pc, op, phase>>
    BY <1>1
<1>2. CASE Invoke
    BY <1>2 DEF Invoke, DeployCalls
<1>3. CASE GetCluster
    BY <1>3 DEF GetCluster, DeployCalls
<1>4. CASE Deploying
    <2> USE DEF Step, DeployCalls
    <2>1. CASE GenerateCA
        <3>1. /\ UNCHANGED <<seedMR, deploy, tls, snap, op, stale, phase>>
              /\ pc = "generateCA" /\ pc' = "generateCert" /\ Reconciling
            BY <2>1 DEF GenerateCA, HandlerInv
        <3>2. CASE UNCHANGED ca
            BY <3>1, <3>2
        <3>3. CASE ~UNCHANGED ca
            <4>1. ca'.old = ca.cur /\ (ca.cur = 0 \/ ca.gen # snap.gen)
                BY <2>1, <3>3 DEF GenerateCA
            <4>2. ca.old = 0
                BY <3>1, <4>1 DEF TrustInv, RotationInv
            <4>3. deploy # NoSpec /\ ~Aborted => deploy.tls = ca.cur /\ deploy.tls \in tls
                BY <4>2
            <4> QED
                BY <3>1, <4>1, <4>3
        <3> QED
            BY <3>2, <3>3
    <2>2. CASE GenerateCert
        BY <2>2 DEF GenerateCert, HandlerInv
    <2>3. CASE CreateSeed(Values) /\ UNCHANGED <<requestVars, op, snap>>
        <3> DEFINE spec == SeedResources(Values)
        <3>1. /\ seedMR'.st = "live" /\ seedMR'.spec = spec /\ spec.tls = ca.cur
              /\ seedMR'.synced = (seedMR.spec = spec /\ seedMR.synced)
              /\ stale' = IF SeedApplied THEN stale \cup {"seed"} ELSE stale
              /\ pc = "createSeed" /\ pc' = "waitSeed" /\ Reconciling
              /\ UNCHANGED <<deploy, tls, ca, snap, op, phase>>
            BY <2>3 DEF CreateSeed, SeedResources, Values, HandlerInv, ManagedResourceInv,
                        TypeOK, WorldTypeOK, SeedMRs, MRStates
        <3>2. ca.cur \in tls
            BY <3>1 DEF SecretsInv
        <3>3. snap.rot = "Completing" /\ SeedApplied => deploy.tls = ca.cur
            BY <3>1 DEF SeedApplied, RotationInv
        <3>4. seedMR'.synced => deploy = spec
            BY <3>1 DEF ManagedResourceInv
        <3> QED
            BY <3>1, <3>2, <3>3, <3>4
    <2>4. CASE WaitSeed /\ UNCHANGED <<requestVars, op, snap>>
        <3>1. /\ pc = "waitSeed" /\ pc' = "waitShoot" /\ Reconciling
              /\ SeedApplied \/ "seed" \in stale
              /\ UNCHANGED <<seedMR, deploy, tls, ca, snap, stale, op, phase>>
            BY <2>4 DEF WaitSeed, SeesSeedHealthy, SeedHealthy, HandlerInv
        <3>2. seedMR.spec.tls = ca.cur
            BY <3>1 DEF SecretsInv
        <3> QED
            BY <3>1, <3>2 DEF SeedApplied
    <2>5. CASE Cleanup
        <3>1. /\ UNCHANGED <<seedMR, deploy, snap, op, stale, phase>>
              /\ pc = "cleanup" /\ pc' = "succeed" /\ Reconciling
              /\ tls' = {ca.cur} /\ ca'.cur = ca.cur
              /\ ca'.old = IF snap.rot = "Completing" THEN 0 ELSE ca.old
            BY <2>5 DEF Cleanup, HandlerInv, TypeOK, WorldTypeOK
        <3>2. seedMR.spec.tls = ca.cur /\ seedMR.st = "live"
            BY <3>1 DEF SecretsInv, ManagedResourceInv
        <3>3. deploy # NoSpec /\ deploy.tls # ca.cur => ~seedMR.synced
            BY <3>2
        <3> QED
            BY <3>1, <3>2, <3>3
    <2>6. CASE /\ UNCHANGED <<seedMR, deploy, tls, ca, snap, op, phase>>
               /\ "seed" \in stale' => "seed" \in stale
               /\ pc \in AfterSeed => pc' \in AfterSeed
               /\ pc' \in {"waitShoot", "cleanup"} => pc \in {"waitShoot", "cleanup"}
        BY <2>6
    <2>7. CASE CreateShoot(Values) /\ UNCHANGED <<requestVars, op, snap>>
        <3>1. "seed" \in stale' => "seed" \in stale
            BY <2>7 DEF CreateShoot
        <3> QED
            BY <2>6, <2>7, <3>1 DEF CreateShoot
    <2> QED
        BY <1>4, <2>1, <2>2, <2>3, <2>4, <2>5, <2>6, <2>7
           DEF Deploying, ReconcileAccess, WaitShoot
<1>5. CASE Destroying
    <2>1. /\ op \notin ReconcileOps /\ UNCHANGED <<op, snap, phase, deploy, stale>>
        BY <1>5 DEF HandlerInv, DestroyCalls, DestroyOps, Destroying, SetKeepObjects, DeleteShoot,
                    DeleteSeed, WaitShootGone, WaitSeedGone, DeleteAccess, CleanupAll, Step
    <2>2. CASE CleanupAll
        BY <2>1, <2>2 DEF CleanupAll, HandlerInv, Step, ManagedResourceInv, DestroyOps, Waiting,
                          AfterSeedGone
    <2>3. CASE DeleteSeed(ForceDelete) /\ UNCHANGED <<requestVars, op, snap>>
        <3>1. \/ seedMR.st = "none" /\ seedMR' = NoSeedMR
              \/ /\ seedMR'.st = "deleting" /\ seedMR'.spec = seedMR.spec
                 /\ seedMR'.synced = seedMR.synced
            BY <2>3 DEF DeleteSeed, Deleted, TypeOK, WorldTypeOK, SeedMRs
        <3> QED
            BY <2>1, <2>3, <3>1 DEF DeleteSeed, ManagedResourceInv, NoSeedMR
    <2>4. CASE UNCHANGED <<seedMR, tls, ca>>
        BY <2>1, <2>4
    <2> QED
        BY <1>5, <2>2, <2>3, <2>4
           DEF Destroying, SetKeepObjects, DeleteShoot, WaitShootGone, WaitSeedGone, DeleteAccess
<1>6. CASE Succeed
    <2>1. /\ UNCHANGED <<seedMR, deploy, tls, ca>> /\ op' = "none" /\ stale' = {}
        BY <1>6 DEF Succeed, Return
    <2>2. Aborted => Aborted' \/ phase' = "gone"
        BY <1>6 DEF Succeed, HandlerInv
    <2>3. phase' = "gone" => deploy' = NoSpec
        BY DEF ShootInv, DeleteLeavesNothing
    <2> QED
        BY <2>1, <2>2, <2>3
<1>7. CASE TimeOut \/ ReturnError \/ Restart
    <2>1. op' = "none" /\ stale' = {} /\ UNCHANGED <<seedMR, deploy, tls, ca, phase>>
        BY <1>7 DEF TimeOut, ReturnError, Fail, Restart, Return
    <2> QED
        BY <2>1
<1>8. CASE Requests
    <2>1. CASE SwitchSeed
        <3>1. seedMR.st = "none" /\ op = "none"
            BY <2>1 DEF SwitchSeed, ManagedResourceInv, HandlerInv
        <3> QED
            BY <2>1, <3>1 DEF SwitchSeed, Request, Persisted, ManagedResourceInv, NoSeedMR
    <2>2. CASE /\ UNCHANGED <<seedMR, deploy, tls, ca, snap, stale, pc, op>>
               /\ phase \in {"forced", "forceGone"} => phase' \in {"forced", "forceGone"}
        BY <2>2
    <2> QED
        BY <1>8, <2>1, <2>2
           DEF Requests, EnableExtension, RequestReconcile, ChangeHibernation, StartRotation,
               CompleteRotation, RequestDelete, RequestForceDelete, RequestMigrate, Request
<1>9. CASE ResourceManager
    <2>1. UNCHANGED <<pc, op, ca, snap, phase, tls>> /\ stale' = stale
        BY <1>9, WorldStep DEF ResourceManager
    <2>2. CASE ApplySeed /\ UNCHANGED lifecycleVars
        <3>1. /\ seedMR.st = "live" /\ seedMR'.st = "live" /\ seedMR'.spec = seedMR.spec
              /\ deploy' = seedMR.spec
            BY <2>2 DEF ApplySeed, TypeOK, WorldTypeOK, SeedMRs
        <3>2. Reconciling /\ pc \in AfterSeed => seedMR.spec.tls = ca.cur
            BY DEF SecretsInv
        <3>3. ~Aborted => seedMR.spec.tls \in tls
            BY <3>1 DEF SecretsInv, WrittenSecretsExist
        <3> QED
            BY <1>0, <2>1, <3>1, <3>2, <3>3 DEF DeployCalls
    <2>3. CASE FinalizeSeedMR /\ UNCHANGED lifecycleVars
        BY <2>1, <2>3 DEF FinalizeSeedMR, NoSeedMR, ManagedResourceInv
    <2>4. CASE UNCHANGED <<seedMR, deploy>>
        BY <2>1, <2>4
    <2> QED
        BY <1>9, <2>2, <2>3, <2>4
           DEF ResourceManager, ApplyShoot, RemoveShootObject, FinalizeShootMR
<1>10. CASE Cache
    <2>1. UNCHANGED <<seedMR, deploy>> /\ ("seed" \in stale' => "seed" \in stale)
        BY <1>10 DEF Cache, CacheSync
    <2> QED
        BY <1>10, <2>1, WorldStep
<1>11. CASE Kubelet \/ Operator \/ ScanActivity \/ (PodDies /\ UNCHANGED lifecycleVars)
    <2>1. UNCHANGED <<seedMR, deploy, stale>>
        BY <1>11 DEF Kubelet, RollPod, StopPod, Operator, ReleaseScan,
                     ScanActivity, CreateScan, StartScan, PodDies
    <2> QED
        BY <1>11, <1>1, <2>1, WorldStep
<1> QED
    BY <1>1, <1>2, <1>3, <1>4, <1>5, <1>6, <1>7, <1>8, <1>9, <1>10, <1>11
       DEF Next, Progress, Handler, Faults

\* Migrate sets keepObjects before it deletes, and nothing resets it afterwards.
LEMMA MigrationStep ==
    TypeOK /\ HandlerInv /\ ManagedResourceInv /\ MigrationInv /\ [Next]_vars => MigrationInv'
<1> SUFFICES ASSUME TypeOK, HandlerInv, ManagedResourceInv, MigrationInv, [Next]_vars
             PROVE  MigrationInv'
    OBVIOUS
<1> USE DEF MigrationInv
<1>1. CASE UNCHANGED <<shootMR, pc, op, phase>>
    BY <1>1
<1>2. CASE Invoke \/ GetCluster
    BY <1>2 DEF Invoke, GetCluster, DestroyCalls
<1>3. CASE Deploying
    <2>1. op \in ReconcileOps /\ UNCHANGED <<op, phase>>
        BY <1>3 DEF Deploying, ReconcileAccess, GenerateCA, GenerateCert, CreateShoot, CreateSeed,
                    WaitSeed, WaitShoot, Cleanup, Step, HandlerInv, DeployCalls, Reconciling
    <2>2. CASE CreateShoot(Values) /\ UNCHANGED <<requestVars, op, snap>>
        BY <2>1, <2>2 DEF CreateShoot, ReconcileOps, ManagedResourceInv, Reconciling
    <2>3. CASE UNCHANGED shootMR
        BY <2>1, <2>3 DEF ReconcileOps
    <2> QED
        BY <1>3, <2>2, <2>3
           DEF Deploying, ReconcileAccess, GenerateCA, GenerateCert, CreateSeed, WaitSeed,
               WaitShoot, Cleanup
<1>4. CASE Destroying
    <2> USE DEF Step, DestroyCalls
    <2>1. CASE SetKeepObjects
        BY <2>1 DEF SetKeepObjects, TypeOK, WorldTypeOK, ShootMRs
    <2>2. CASE DeleteShoot(ForceDelete) /\ UNCHANGED <<requestVars, op, snap>>
        BY <2>2 DEF DeleteShoot, Deleted, NoShootMR, TypeOK, WorldTypeOK, ShootMRs, HandlerInv,
                    DestroyOps
    <2>3. CASE UNCHANGED <<shootMR, op, phase>> /\ pc \in DestroyCalls \ {"setKeep"}
        BY <2>3
    <2> QED
        BY <1>4, <2>1, <2>2, <2>3
           DEF Destroying, DeleteSeed, WaitShootGone, WaitSeedGone, DeleteAccess, CleanupAll
<1>5. CASE Succeed
    BY <1>5 DEF Succeed, Return
<1>6. CASE TimeOut \/ ReturnError \/ Restart
    BY <1>6 DEF TimeOut, ReturnError, Fail, Restart, Return
<1>7. CASE Requests
    <2>1. /\ UNCHANGED <<shootMR, pc, op>>
          /\ phase' = "migrating" => phase = "live"
        BY <1>7 DEF Requests, EnableExtension, RequestReconcile, ChangeHibernation, StartRotation,
               CompleteRotation, RequestDelete, RequestForceDelete, RequestMigrate, SwitchSeed,
               Request
    <2> QED
        BY <2>1 DEF ManagedResourceInv
<1>8. CASE ResourceManager
    <2>1. /\ shootMR'.st = shootMR.st \/ shootMR'.st = "none"
          /\ shootMR'.keep = shootMR.keep \/ shootMR'.st = "none"
        BY <1>8 DEF ResourceManager, ApplyShoot, ApplySeed, RemoveShootObject, FinalizeShootMR,
                    FinalizeSeedMR, NoShootMR, TypeOK, WorldTypeOK, ShootMRs
    <2> QED
        BY <1>8, <2>1, WorldStep
<1>9. CASE Cache \/ Kubelet \/ Operator \/ ScanActivity \/ (PodDies /\ UNCHANGED lifecycleVars)
    <2>1. UNCHANGED shootMR
        BY <1>9 DEF Cache, CacheSync, Kubelet, RollPod, StopPod, Operator, ReleaseScan,
                    ScanActivity, CreateScan, StartScan, PodDies
    <2> QED
        BY <1>9, <1>1, <2>1, WorldStep
<1> QED
    BY <1>1, <1>2, <1>3, <1>4, <1>5, <1>6, <1>7, <1>8, <1>9 DEF Next, Progress, Handler, Faults

-----------------------------------------------------------------------------
\* The invariant holds initially.
LEMMA InvInit == Init => IInv
<1> SUFFICES ASSUME Init PROVE IInv
    OBVIOUS
<1>1. TypeOK
    BY TypeInit
<1>2. HandlerInv /\ ManagedResourceInv /\ SecretsInv /\ ShootInv
    BY DEF Init, WorldInit, HandlerInv, ManagedResourceInv, SecretsInv, ShootInv,
           WrittenSecretsExist, OperatorOutlivesScans, DeleteLeavesNothing, ShootCleared,
           NoShootMR, NoSeedMR, DeployCalls, DestroyCalls, Reconciling, ReconcileOps, Waiting,
           DestroyOps, AtRest
<1>3. RotationInv /\ RequestInv
    BY DEF Init, WorldInit, RotationInv, RequestInv, WebhookTrust, NoRequestLost, NoCA, NoSeedMR,
           Reconciling, ReconcileOps, AtRest
<1>4. TrustInv /\ DeploymentInv /\ MigrationInv
    BY DEF Init, WorldInit, TrustInv, DeploymentInv, MountedCertificateExists, NoSeedMR,
           MigrationInv, KnownCATrusted, NoCA, NoShootMR, Reconciling,
           ReconcileOps
<1> QED
    BY <1>1, <1>2, <1>3, <1>4 DEF IInv

\* All layers together are inductive.
THEOREM Inductive == Spec => []IInv
<1>1. IInv /\ [Next]_vars => IInv'
    BY TypeStep, HandlerStep, ManagedResourceStep, SecretsStep, ShootStep, RotationStep,
       RequestStep, TrustStep, DeploymentStep, MigrationStep DEF IInv
<1> QED
    BY InvInit, <1>1, PTL DEF Spec

-----------------------------------------------------------------------------
(* The safety properties of Lifecycle, for every instance.                  *)

\* The operator is removed only after the shoot's CRDs and scans are gone.
THEOREM OperatorOutlivesScansAlways == Spec => []OperatorOutlivesScans
    BY Inductive, PTL DEF IInv, ShootInv

\* Neither what is written nor what is applied of the operator loses its Secrets,
\* but for the certificate of the old CA in a Deployment that GRM has to replace.
THEOREM SecretsOutliveOperatorAlways == Spec => []SecretsOutliveOperator
<1>1. IInv => SecretsOutliveOperator
    BY DEF IInv, SecretsInv, DeploymentInv, SecretsOutliveOperator
<1> QED
    BY Inductive, <1>1, PTL

\* The written webhook bundle trusts the written serving certificate.
THEOREM WebhookTrustAlways == Spec => []WebhookTrust
    BY Inductive, PTL DEF IInv, RotationInv

\* The applied webhooks trust a CA the secrets manager still has.
THEOREM KnownCATrustedAlways == Spec => []KnownCATrusted
    BY Inductive, PTL DEF IInv, TrustInv

\* A deleted Extension leaves nothing behind.
THEOREM DeleteLeavesNothingAlways == Spec => []DeleteLeavesNothing
    BY Inductive, PTL DEF IInv, ShootInv

\* An idle, unqueued Extension is up to date.
THEOREM NoRequestLostAlways == Spec => []NoRequestLost
    BY Inductive, PTL DEF IInv, RequestInv

-----------------------------------------------------------------------------
\* The ManagedResource keeps its objects during a migration, and what it applies
\* is never an empty bundle.
LEMMA MigrationAction ==
    IInv /\ Next =>
        (Migrating /\ ~Aborted' =>
            /\ crd = "present" => crd' = "present"
            /\ rbac => rbac'
            /\ webhook # {} => webhook' # {}
            /\ scans \subseteq scans')
<1> SUFFICES ASSUME IInv, Next, Migrating
             PROVE  /\ crd = "present" => crd' = "present"
                    /\ rbac => rbac'
                    /\ webhook # {} => webhook' # {}
                    /\ scans \subseteq scans'
    OBVIOUS
<1> USE DEF IInv
<1>1. CASE ApplyShoot
    BY <1>1 DEF ApplyShoot, TrustInv
<1>2. CASE RemoveShootObject
    <2>1. shootMR.st = "deleting" /\ ~shootMR.keep
        BY <1>2 DEF RemoveShootObject
    <2> QED
        BY <2>1 DEF Migrating, MigrationInv, ManagedResourceInv
<1>3. CASE \E s \in Scans : CreateScan(s)
    BY <1>3 DEF CreateScan
<1>4. CASE UNCHANGED <<crd, rbac, webhook, scans>>
    BY <1>4
<1>5. CASE Cache \/ ResourceManager \/ Kubelet \/ Operator \/ ScanActivity \/ PodDies
    BY <1>1, <1>2, <1>3, <1>4, <1>5
       DEF Cache, CacheSync, ResourceManager, ApplySeed, FinalizeShootMR, FinalizeSeedMR,
           Kubelet, RollPod, StopPod, Operator, ReleaseScan, ScanActivity, StartScan, PodDies
<1>6. CASE Deploying \/ Destroying
    BY <1>4, <1>6
       DEF Deploying, ReconcileAccess, GenerateCA, GenerateCert, CreateShoot, CreateSeed, WaitSeed,
           WaitShoot, Cleanup, Destroying, SetKeepObjects, DeleteShoot, DeleteSeed,
           WaitShootGone, WaitSeedGone, DeleteAccess, CleanupAll
<1>7. CASE Invoke \/ GetCluster \/ Succeed \/ TimeOut \/ ReturnError \/ Restart \/ Requests
    BY <1>4, <1>7
       DEF Invoke, GetCluster, Succeed, TimeOut, ReturnError, Fail, Restart, Requests,
           EnableExtension, RequestReconcile, ChangeHibernation, StartRotation, CompleteRotation,
           RequestDelete, RequestForceDelete, RequestMigrate, SwitchSeed
<1> QED
    BY <1>5, <1>6, <1>7 DEF Next, Progress, Handler, Faults

\* A migration takes nothing out of the shoot.
THEOREM MigrationKeepsShootAlways == Spec => MigrationKeepsShoot
<1>1. IInv /\ [Next]_vars =>
          [Migrating /\ ~Aborted' =>
              /\ crd = "present" => crd' = "present"
              /\ rbac => rbac'
              /\ webhook # {} => webhook' # {}
              /\ scans \subseteq scans']_vars
    BY MigrationAction
<1> QED
    BY Inductive, <1>1, PTL DEF Spec, MigrationKeepsShoot

\* A mint finds no old CA to push out, and the Cleanup that drops one comes when
\* the Deployment mounts the current CA's certificate and the webhooks trust it.
LEMMA CAAction ==
    ASSUME IInv, Next, NEW c \in {ca.cur, ca.old} \ {0}
    PROVE  \/ c \in {ca'.cur, ca'.old}
           \/ op \in {"Delete", "ForceDelete"}
           \/ /\ c # ca.cur
              /\ seedMR.spec.tls = ca.cur /\ deploy.tls = ca.cur /\ ca.cur \in webhook
<1> USE DEF IInv
<1>1. CASE ca' = ca
    BY <1>1
<1>2. CASE GenerateCA /\ ca' # ca
    <2>1. /\ ca'.old = ca.cur
          /\ pc = "generateCA"
          /\ ca.cur = 0 \/ ca.gen # snap.gen
        BY <1>2 DEF GenerateCA, Step
    <2>2. ca.old = 0
        BY <2>1 DEF TrustInv, RotationInv, HandlerInv, Reconciling, AfterCluster, DeployCalls
    <2> QED
        BY <2>1, <2>2
<1>3. CASE Cleanup
    <2>1. ca'.cur = ca.cur /\ pc = "cleanup" /\ Reconciling
        BY <1>3 DEF Cleanup, Step, TypeOK, WorldTypeOK, HandlerInv, DeployCalls
    <2>2. seedMR.spec.tls = ca.cur
        BY <2>1 DEF SecretsInv, DeployCalls, AfterSeed, AfterShoot, AfterCert,
                    AfterCA, AfterAccess, AfterCluster
    <2>3. CASE snap.rot = "Completing"
        BY <2>1, <2>2, <2>3 DEF TrustInv, DeploymentInv
    <2>4. CASE snap.rot # "Completing"
        BY <1>3, <2>4 DEF Cleanup
    <2> QED
        BY <2>3, <2>4
<1>4. CASE CleanupAll
    BY <1>4 DEF CleanupAll, Step, HandlerInv
<1>5. CASE Cache \/ ResourceManager \/ Kubelet \/ Operator \/ ScanActivity
           \/ (PodDies /\ UNCHANGED lifecycleVars)
    BY <1>1, <1>5, WorldStep
<1>6. CASE Deploying \/ Destroying
    BY <1>1, <1>2, <1>3, <1>4, <1>6
       DEF Deploying, ReconcileAccess, GenerateCert, CreateShoot, CreateSeed, WaitSeed,
           WaitShoot, Destroying, SetKeepObjects, DeleteShoot, DeleteSeed,
           WaitShootGone, WaitSeedGone, DeleteAccess
<1>7. CASE Invoke \/ GetCluster \/ Succeed \/ TimeOut \/ ReturnError \/ Restart \/ Requests
    BY <1>1, <1>7
       DEF Invoke, GetCluster, Succeed, TimeOut, ReturnError, Fail, Restart, Requests,
           EnableExtension, RequestReconcile, ChangeHibernation, StartRotation, CompleteRotation,
           RequestDelete, RequestForceDelete, RequestMigrate, SwitchSeed, Persisted
<1> QED
    BY <1>5, <1>6, <1>7 DEF Next, Progress, Handler, Faults

\* Only a rotation replaces a webhook CA.
THEOREM CAReplacedByRotationOnlyAlways == Spec => CAReplacedByRotationOnly
<1>1. IInv /\ [Next]_vars =>
          [\A c \in {ca.cur, ca.old} \ {0} :
              \/ c \in {ca'.cur, ca'.old}
              \/ op \in {"Delete", "ForceDelete"}
              \/ /\ c # ca.cur
                 /\ seedMR.spec.tls = ca.cur /\ deploy.tls = ca.cur /\ ca.cur \in webhook]_vars
    BY CAAction
<1> QED
    BY Inductive, <1>1, PTL DEF Spec, CAReplacedByRotationOnly

=============================================================================
