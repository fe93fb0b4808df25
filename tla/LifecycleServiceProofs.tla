----------------------- MODULE LifecycleServiceProofs -----------------------
(***************************************************************************)
(* Lifecycle implements DikiService, for every instance.                   *)
(***************************************************************************)
EXTENDS LifecycleService, LifecycleProofs

USE DEF vars, worldVars, mrVars, seedVars, secretVars, shootVars, requestVars, lifecycleVars

\* The status by request.
LEMMA StatusOf ==
    /\ phase = "gone" => Status = "off"
    /\ phase = "live" => Status = "on"
    /\ phase \in {"migrating", "migrated", "restoring"} => Status = "moving"
    /\ phase = "deleting" => Status = "removing"
    /\ phase \in {"forced", "forceGone"} => Status = "abandoned"
    BY DEF Status

\* A step that users cannot tell.
LEMMA Unnoticed ==
    ASSUME UNCHANGED <<phase, scans, held>>, (seedMR.st = "live") <=> (seedMR'.st = "live")
    PROVE  UNCHANGED Service!vars
    BY DEF Service!vars, Status

\* The calls of Reconcile: the second write of Deploy may deploy the operator.
LEMMA DeployingServes ==
    ASSUME IInv, Deploying
    PROVE  [Service!Next]_(Service!vars)
<1> USE DEF IInv
<1>1. CASE CreateSeed(Values) /\ UNCHANGED <<requestVars, op, snap>>
    <2>1. /\ seedMR'.st = "live" /\ seedMR.st # "deleting"
          /\ UNCHANGED <<phase, scans, held>>
        BY <1>1 DEF CreateSeed, Step, HandlerInv, DeployCalls, ManagedResourceInv, TypeOK,
                    WorldTypeOK, SeedMRs, MRStates
    <2>2. Status # "off"
        BY <1>1, StatusOf
           DEF CreateSeed, Step, HandlerInv, TypeOK, Phases, AtRest
    <2>3. UNCHANGED Status
        BY <2>1 DEF Status
    <2>4. CASE seedMR.st = "live"
        BY <2>1, <2>4, Unnoticed
    <2>5. CASE seedMR.st # "live"
        BY <2>1, <2>2, <2>3, <2>5 DEF Service!Next, Service!Deploy
    <2> QED
        BY <2>4, <2>5
<1>2. CASE UNCHANGED <<phase, scans, held, seedMR>>
    BY <1>2, Unnoticed
<1> QED
    BY <1>1, <1>2
       DEF Deploying, ReconcileAccess, GenerateCA, GenerateCert, CreateShoot, WaitSeed, WaitShoot,
           Cleanup

\* The calls of delete: the operator is withdrawn when the scans are gone, when
\* the control plane moves, or by force.
LEMMA DestroyingServes ==
    ASSUME IInv, Destroying
    PROVE  [Service!Next]_(Service!vars)
<1> USE DEF IInv
<1>1. CASE DeleteSeed(ForceDelete) /\ UNCHANGED <<requestVars, op, snap>>
    <2>1. /\ seedMR'.st # "live" /\ UNCHANGED <<phase, scans, held>>
          /\ pc = "deleteSeed" /\ op \in DestroyOps
        BY <1>1 DEF DeleteSeed, Deleted, NoSeedMR, Step, HandlerInv, DestroyCalls, TypeOK,
                    WorldTypeOK, SeedMRs
    <2>2. \/ Status \in {"moving", "abandoned"}
          \/ Status = "removing" /\ scans = {}
        <3>1. CASE op = "Migrate"
            BY <3>1, StatusOf DEF HandlerInv
        <3>2. CASE op = "ForceDelete"
            BY <3>2, StatusOf DEF HandlerInv
        <3>3. CASE op = "Delete"
            <4>1. scans = {}
                BY <2>1, <3>3 DEF ManagedResourceInv, ShootInv, ShootCleared, Waiting,
                                  AfterShootGone
            <4> QED
                BY <3>3, <4>1, StatusOf DEF HandlerInv
        <3> QED
            BY <2>1, <3>1, <3>2, <3>3 DEF DestroyOps
    <2>3. UNCHANGED Status
        BY <2>1 DEF Status
    <2>4. CASE seedMR.st = "live"
        BY <2>1, <2>2, <2>3, <2>4 DEF Service!Next, Service!Withdraw
    <2>5. CASE seedMR.st # "live"
        BY <2>1, <2>5, Unnoticed
    <2> QED
        BY <2>4, <2>5
<1>2. CASE UNCHANGED <<phase, scans, held, seedMR>>
    BY <1>2, Unnoticed
<1> QED
    BY <1>1, <1>2
       DEF Destroying, SetKeepObjects, DeleteShoot, WaitShootGone, WaitSeedGone, DeleteAccess,
           CleanupAll

\* A successful handler settles a move or ends a removal.
LEMMA SucceedServes ==
    ASSUME IInv, Succeed
    PROVE  [Service!Next]_(Service!vars)
<1> USE DEF IInv
<1>1. UNCHANGED <<seedMR, scans, held>> /\ pc = "succeed"
    BY DEF Succeed
<1>2. CASE op = "Delete"
    <2>1. phase' = "gone" /\ phase \in {"deleting", "forced"}
        BY <1>2 DEF Succeed, HandlerInv
    <2>2. seedMR.st = "none" /\ shootMR.st = "none"
        BY <1>1, <1>2 DEF ManagedResourceInv, Waiting, AfterShootGone, AfterSeedDeleted,
                          AfterSeedGone
    <2>3. scans = {}
        BY <1>2, <2>2 DEF ShootInv, ShootCleared
    <2>4. Status' = "off" /\ Status \in {"removing", "abandoned"}
        BY <2>1, StatusOf DEF Status
    <2> QED
        BY <1>1, <2>2, <2>3, <2>4 DEF Service!Next, Service!Removed, Service!Change
<1>3. CASE op = "Restore" /\ phase = "restoring"
    <2>1. phase' = "live" /\ seedMR.st = "live"
        BY <1>1, <1>3
           DEF Succeed, ManagedResourceInv, Reconciling, ReconcileOps, AfterSeed, AfterShoot,
               AfterCert, AfterCA, AfterAccess, AfterCluster
    <2>2. Status' = "on" /\ Status = "moving"
        BY <1>3, <2>1 DEF Status
    <2> QED
        BY <1>1, <2>1, <2>2 DEF Service!Next, Service!Settle, Service!Change
<1>4. CASE op = "ForceDelete" \/ (op = "Migrate" /\ phase = "migrating")
    <2>1. UNCHANGED Status
        BY <1>4 DEF Succeed, HandlerInv, Status
    <2> QED
        BY <1>1, <2>1 DEF Service!vars
<1>5. CASE /\ op \notin {"Delete", "ForceDelete"}
           /\ ~(op = "Migrate" /\ phase = "migrating")
           /\ ~(op = "Restore" /\ phase = "restoring")
    <2>1. phase' = phase
        BY <1>5 DEF Succeed
    <2> QED
        BY <1>1, <2>1, Unnoticed
<1> QED
    BY <1>2, <1>3, <1>4, <1>5

\* The requests are those of the service; a change of the seed is none.
LEMMA RequestsServe ==
    ASSUME IInv, Requests
    PROVE  [Service!Next]_(Service!vars)
<1> USE DEF Request
<1>1. UNCHANGED <<seedMR, scans, held>>
    BY DEF Requests, EnableExtension, RequestReconcile, ChangeHibernation, StartRotation,
           CompleteRotation, RequestDelete, RequestForceDelete, RequestMigrate, SwitchSeed
<1>2. CASE EnableExtension
    <2>1. Status = "off" /\ Status' = "on"
        BY <1>2 DEF EnableExtension, Status
    <2> QED
        BY <1>1, <2>1 DEF Service!Next, Service!Enable, Service!Change
<1>3. CASE RequestDelete
    <2>1. Status = "on" /\ Status' = "removing"
        BY <1>3 DEF RequestDelete, Status
    <2> QED
        BY <1>1, <2>1 DEF Service!Next, Service!Disable, Service!Change
<1>4. CASE RequestForceDelete
    <2>1. Status \in {"on", "moving", "removing"} /\ Status' = "abandoned"
        BY <1>4 DEF RequestForceDelete, Status
    <2> QED
        BY <1>1, <2>1 DEF Service!Next, Service!Abandon, Service!Change
<1>5. CASE RequestMigrate
    <2>1. Status = "on" /\ Status' = "moving"
        BY <1>5 DEF RequestMigrate, Status
    <2> QED
        BY <1>1, <2>1 DEF Service!Next, Service!Move, Service!Change
<1>6. CASE SwitchSeed
    <2>1. UNCHANGED Status
        BY <1>6 DEF SwitchSeed, Status
    <2> QED
        BY <1>1, <2>1 DEF Service!vars
<1>7. CASE RequestReconcile \/ ChangeHibernation \/ StartRotation \/ CompleteRotation
    <2>1. phase' = phase
        BY <1>7 DEF RequestReconcile, ChangeHibernation, StartRotation, CompleteRotation
    <2> QED
        BY <1>1, <2>1, Unnoticed
<1> QED
    BY <1>2, <1>3, <1>4, <1>5, <1>6, <1>7 DEF Requests

\* GRM takes away the scans only of an extension that is being removed.
LEMMA ResourceManagerServes ==
    ASSUME IInv, ResourceManager
    PROVE  [Service!Next]_(Service!vars)
<1> USE DEF IInv
<1>1. UNCHANGED phase
    BY WorldStep
<1>2. CASE RemoveShootObject
    <2>1. /\ UNCHANGED <<seedMR, held>>
          /\ shootMR.st = "deleting" /\ ~shootMR.keep
          /\ scans' = scans \/ (scans' = {} /\ held = {})
        BY <1>2 DEF RemoveShootObject
    <2>2. Status \in {"removing", "abandoned"}
        BY <2>1, StatusOf DEF ManagedResourceInv, MigrationInv, TypeOK, Phases
    <2>3. UNCHANGED Status
        BY <1>1 DEF Status
    <2>4. CASE scans' = scans
        BY <1>1, <2>1, <2>4, Unnoticed
    <2>5. CASE scans' # scans
        BY <2>1, <2>2, <2>3, <2>5 DEF Service!Next, Service!Drop
    <2> QED
        BY <2>4, <2>5
<1>3. CASE UNCHANGED <<seedMR, scans, held>>
    BY <1>1, <1>3, Unnoticed
<1>4. CASE ApplySeed
    <2>1. seedMR'.st = seedMR.st /\ UNCHANGED <<scans, held>>
        BY <1>4 DEF ApplySeed, TypeOK, WorldTypeOK, SeedMRs
    <2> QED
        BY <1>1, <2>1, Unnoticed
<1>5. CASE FinalizeSeedMR
    <2>1. seedMR.st # "live" /\ seedMR'.st # "live" /\ UNCHANGED <<scans, held>>
        BY <1>5 DEF FinalizeSeedMR, NoSeedMR
    <2> QED
        BY <1>1, <2>1, Unnoticed
<1> QED
    BY <1>2, <1>3, <1>4, <1>5 DEF ResourceManager, ApplyShoot, FinalizeShootMR

\* Users create scans, the operator runs and completes them.
LEMMA ScansServe ==
    ASSUME IInv, Operator \/ ScanActivity
    PROVE  [Service!Next]_(Service!vars)
<1> USE DEF IInv
<1>1. UNCHANGED <<phase, seedMR>>
    BY WorldStep DEF Operator, ReleaseScan, ScanActivity, CreateScan, StartScan
<1>2. UNCHANGED Status
    BY <1>1 DEF Status
<1>3. ASSUME NEW s \in Scans, CreateScan(s) PROVE Service!Create(s)
    <2>1. phase # "gone"
        BY <1>3 DEF CreateScan, ShootInv, DeleteLeavesNothing, ShootCleared
    <2>2. Status # "off"
        BY <2>1, StatusOf DEF TypeOK, Phases
    <2> QED
        BY <1>1, <1>2, <1>3, <2>2 DEF CreateScan, Service!Create
<1>4. ASSUME NEW s \in Scans, StartScan(s) PROVE Service!Run(s)
    BY <1>1, <1>2, <1>4 DEF StartScan, Service!Run
<1>5. ASSUME NEW s \in Scans, ReleaseScan(s) PROVE Service!Complete(s)
    BY <1>1, <1>2, <1>5 DEF ReleaseScan, Service!Complete
<1> QED
    BY <1>3, <1>4, <1>5 DEF Operator, ScanActivity, Service!Next

\* The extension keeps what is promised to the users of the shoot.
THEOREM ServiceImplemented == Spec => ImplementsService
<1>1. Init => Service!Init
    BY StatusOf DEF Init, WorldInit, NoSeedMR, Service!Init
<1>2. IInv /\ [Next]_vars => [Service!Next]_(Service!vars)
    <2> SUFFICES ASSUME IInv, [Next]_vars PROVE [Service!Next]_(Service!vars)
        OBVIOUS
    <2>1. CASE UNCHANGED <<phase, seedMR, scans, held>>
        BY <2>1, Unnoticed
    <2>2. CASE Deploying
        BY <2>2, DeployingServes
    <2>3. CASE Destroying
        BY <2>3, DestroyingServes
    <2>4. CASE Succeed
        BY <2>4, SucceedServes
    <2>5. CASE Requests
        BY <2>5, RequestsServe
    <2>6. CASE ResourceManager
        BY <2>6, ResourceManagerServes
    <2>7. CASE Operator \/ ScanActivity
        BY <2>7, ScansServe
    <2> QED
        BY <2>1, <2>2, <2>3, <2>4, <2>5, <2>6, <2>7
           DEF Next, Progress, Handler, Faults, Invoke, GetCluster, TimeOut, ReturnError, Fail,
               Restart, Cache, CacheSync, Kubelet, RollPod, StopPod, PodDies
<1> QED
    BY Inductive, <1>1, <1>2, PTL DEF Spec, ImplementsService, Service!Spec

=============================================================================
