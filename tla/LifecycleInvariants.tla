------------------------- MODULE LifecycleInvariants -------------------------
(***************************************************************************)
(* The inductive invariant behind the safety properties of Lifecycle, in   *)
(* layers: each layer is preserved by every step that starts and ends in   *)
(* states of the layers before it.                                         *)
(***************************************************************************)
EXTENDS Lifecycle

\* The calls of Reconcile that follow a given point of the procedure.
AfterCluster == DeployCalls \cup {"succeed"}
AfterAccess == AfterCluster \ {"operatorAccess", "runnerAccess"}
AfterCA == AfterAccess \ {"generateCA"}
AfterCert == AfterCA \ {"generateCert"}
AfterShoot == AfterCert \ {"createShoot"}
AfterSeed == AfterShoot \ {"createSeed"}
\* The calls of Delete, ForceDelete and Migrate that follow a deletion.
AfterSeedGone == {"deleteOperatorAccess", "deleteRunnerAccess", "cleanupAll", "succeed"}
AfterSeedDeleted == AfterSeedGone \cup {"waitSeedGone"}
AfterShootGone == AfterSeedDeleted \cup {"deleteSeed"}

Reconciling == op \in ReconcileOps
\* Delete and Migrate wait for what they delete.
Waiting == op \in {"Delete", "Migrate"}

-----------------------------------------------------------------------------
\* Which handler can be at which call, for which request; a request that came
\* in after the handler was invoked is in the queue.
HandlerInv ==
    /\ pc = "idle" <=> op = "none"
    /\ pc \in DeployCalls => Reconciling
    /\ pc \in DestroyCalls => op \in DestroyOps
    /\ pc = "setKeep" => op = "Migrate"
    /\ pc \in {"waitShootGone", "waitSeedGone"} => Waiting
    /\ pc = "cleanupAll" => op \in {"Delete", "ForceDelete"}
    /\ op = "Reconcile" => phase \in {"live", "deleting", "forced", "migrating"}
    /\ op = "Restore" => phase \in {"restoring", "forced"}
    /\ op = "Delete" => phase \in {"deleting", "forced"}
    /\ op = "ForceDelete" => phase = "forced"
    /\ op = "Migrate" => phase = "migrating" /\ ~queued
    /\ phase \in AtRest => pc = "idle" /\ ~queued
    /\ phase \notin AtRest /\ ~queued =>
          \/ op = HandlerFor(phase)
          \/ op = "none" /\ phase = "live"

\* How far the two ManagedResources are deleted.
ManagedResourceInv ==
    /\ shootMR.st = "none" => shootMR = NoShootMR
    /\ seedMR.st = "none" => seedMR = NoSeedMR /\ deploy = NoSpec
    /\ shootMR.keep => phase = "migrating"
    /\ phase \in {"live", "restoring"} \/ Reconciling =>
          shootMR.st # "deleting" /\ seedMR.st # "deleting"
    /\ phase \in {"gone", "migrated"} => shootMR.st = "none" /\ seedMR.st = "none"
    /\ phase = "forceGone" => shootMR.st # "live" /\ seedMR.st # "live"
    /\ Reconciling /\ pc \in AfterShoot => shootMR.st = "live"
    /\ Reconciling /\ pc \in AfterSeed => seedMR.st = "live"
    /\ Waiting /\ pc \in AfterShootGone => shootMR.st = "none"
    /\ Waiting /\ pc \in AfterSeedGone => seedMR.st = "none"
    /\ op \in DestroyOps /\ pc \in AfterShootGone => shootMR.st # "live"
    /\ op \in DestroyOps /\ pc \in AfterSeedDeleted => seedMR.st # "live"

\* Which Secrets exist at which call.
SecretsInv ==
    /\ ~Aborted => WrittenSecretsExist
    /\ Reconciling /\ pc \in AfterCluster \ {"operatorAccess"} => "operator" \in access
    /\ Reconciling /\ pc \in AfterAccess => access = AccessSecrets
    /\ Reconciling /\ pc \in AfterCA => ca.cur # 0
    /\ Reconciling /\ pc \in AfterCert => ca.cur \in tls
    /\ Reconciling /\ pc \in AfterSeed => seedMR.spec.tls = ca.cur

\* What Delete has removed at which call.
ShootInv ==
    /\ OperatorOutlivesScans
    /\ DeleteLeavesNothing
    /\ crd = "absent" => scans = {}
    /\ phase \in {"gone", "live", "deleting"} \/ op = "Delete" =>
          (shootMR.st = "none" => ShootCleared)
    /\ phase = "deleting" /\ seedMR.st = "deleting" => shootMR.st = "none"
    /\ op \in {"Delete", "ForceDelete"} =>
          /\ pc \in AfterSeedGone \ {"deleteOperatorAccess"} => "operator" \notin access
          /\ pc \in {"cleanupAll", "succeed"} => access = {}
          /\ pc = "succeed" => tls = {} /\ ca = NoCA

\* How the CA follows the rotation, and the ManagedResources the CA.
RotationInv ==
    /\ WebhookTrust
    /\ ca.cur = 0 => ca.old = 0
    /\ Reconciling /\ pc \in AfterCluster =>
          /\ snap.rot = "Completing" => cluster.rot = "Completing"
          /\ snap.gen # cluster.gen =>
                cluster.rot = "Preparing" /\ ca.cur # 0 /\ ca.gen = snap.gen
          /\ snap.gen = cluster.gen =>
                \/ snap.rot = cluster.rot
                \/ snap.rot = "Prepared" /\ cluster.rot = "Completing"
    /\ Reconciling /\ pc \in AfterCA => ca.gen = snap.gen
    /\ Reconciling /\ pc \in AfterShoot => shootMR.spec = CABundle
    /\ cluster.rot # "Preparing" /\ ca.cur # 0 => ca.gen = cluster.gen
    /\ seedMR.st = "live" =>
          /\ seedMR.spec.tls \in {ca.cur, ca.old} \ {0}
          /\ seedMR.spec.tls # ca.cur => ca.gen = cluster.gen /\ cluster.rot = "Preparing"

\* A handler that is not followed by another one works on the current Cluster.
RequestInv ==
    /\ NoRequestLost
    /\ cluster.rot = "Completed" => ca.old = 0
    /\ Reconciling /\ pc = "succeed" /\ snap.rot = "Completing" => ca.old = 0
    /\ Reconciling /\ pc \in AfterCluster /\ ~queued => snap = cluster
    /\ Reconciling /\ pc \in AfterSeed => seedMR.spec.replicas = Replicas(snap)

\* How the webhooks in the shoot, applied some time after the ManagedResource is
\* written and awaited through a lagging cache, keep up with the CA.
TrustInv ==
    /\ KnownCATrusted
    /\ shootMR.st = "live" /\ shootMR.synced => webhook = shootMR.spec
    /\ cluster.rot = "Preparing" /\ ca.gen # cluster.gen => ca.old = 0
    /\ shootMR.st = "live" =>
          /\ ca.cur # 0 /\ shootMR.spec \cap {ca.cur, ca.old} # {}
          /\ cluster.rot # "Preparing" => ca.cur \in shootMR.spec
    /\ "shoot" \in stale => Reconciling /\ pc \in AfterShoot
    /\ /\ Reconciling /\ snap.rot = "Completing"
       /\ pc = "cleanup" \/ "shoot" \in stale
       => ca.cur \in webhook

\* How the Deployment in the seed, applied and awaited likewise, keeps up with the
\* CA and its certificates.
DeploymentInv ==
    /\ ~Aborted => MountedCertificateExists
    /\ seedMR.synced => \/ deploy = seedMR.spec
                        \/ deploy = NoSpec /\ seedMR.st = "deleting"
    /\ deploy # NoSpec /\ ~Aborted => deploy.tls \in {ca.cur, ca.old} \ {0}
    /\ "seed" \in stale => Reconciling /\ pc \in AfterSeed
    /\ /\ Reconciling /\ snap.rot = "Completing"
       /\ pc \in {"waitShoot", "cleanup"} \/ "seed" \in stale
       => deploy.tls = ca.cur

\* While the control plane migrates, the shoot ManagedResource goes only with
\* keepObjects set.
MigrationInv ==
    /\ op = "Migrate" /\ pc \in DestroyCalls \ {"setKeep"} =>
          shootMR.st = "none" \/ shootMR.keep
    /\ phase = "migrating" /\ shootMR.st = "deleting" => shootMR.keep

IInv ==
    /\ TypeOK /\ HandlerInv /\ ManagedResourceInv /\ SecretsInv
    /\ ShootInv /\ RotationInv /\ RequestInv /\ TrustInv
    /\ DeploymentInv /\ MigrationInv

=============================================================================
