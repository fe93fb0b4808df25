---------------------------- MODULE DikiOperator ----------------------------
(***************************************************************************)
(* pkg/component/dikioperator: the Component that deploys the operator     *)
(* through two ManagedResources.  Deploy, Destroy and Wait are procedures  *)
(* of single API calls; "pc" names the next one.  The component is called  *)
(* by the actuator (module Lifecycle), which passes the Values.            *)
(***************************************************************************)
EXTENDS ShootCluster

VARIABLES
    pc,       \* the call the handler of this shoot makes next, or "idle"
    stale     \* ManagedResources whose informer cache may still show them healthy,
              \* as they were before the handler's own write

\* The Values of a component: replicas, the Secret with the serving
\* certificate, the CA bundle of the webhooks, "base options are configured".
ValuesType == [replicas : {0, 1}, tls : 0..MaxCA, bundle : SUBSET CAs, base : BOOLEAN]

Step(from, to) == pc = from /\ pc' = to

\* What is listed in the two ManagedResources.
ShootResources(values) == values.bundle
SeedResources(values) ==
    [replicas |-> values.replicas, tls |-> values.tls, base |-> values.base]

ShootHealthy == shootMR.st = "live" /\ shootMR.synced
\* Pods come and go: what is applied may have been healthy a moment ago.
SeedApplied == seedMR.st = "live" /\ seedMR.synced
SeedHealthy == SeedApplied /\ (deploy.replicas = 0 \/ PodUp)

-----------------------------------------------------------------------------
(* Deploy: the shoot ManagedResource, then the seed ManagedResource.  The   *)
(* write goes to the API server; the cached copy the handler reads later    *)
(* may lag behind it.                                                       *)

CreateShoot(values) ==
    /\ Step("createShoot", "createSeed")
    /\ LET spec == ShootResources(values)
           same == shootMR.spec = spec /\ ~shootMR.keep
       IN /\ shootMR' = [st     |-> IF shootMR.st = "none" THEN "live" ELSE shootMR.st,
                         keep   |-> FALSE,
                         spec   |-> spec,
                         synced |-> same /\ shootMR.synced]
          /\ stale' = IF ShootHealthy /\ ~same THEN stale \cup {"shoot"} ELSE stale
    /\ UNCHANGED <<seedMR, seedVars, secretVars, shootVars>>

CreateSeed(values) ==
    /\ Step("createSeed", "waitSeed")
    /\ LET spec == SeedResources(values)
           same == seedMR.spec = spec
       IN /\ seedMR' = [st     |-> IF seedMR.st = "none" THEN "live" ELSE seedMR.st,
                        spec   |-> spec,
                        synced |-> same /\ seedMR.synced]
          /\ stale' = IF SeedApplied THEN stale \cup {"seed"} ELSE stale
    /\ UNCHANGED <<shootMR, seedVars, secretVars, shootVars>>

\* The informer delivers the version the handler wrote.
CacheSync(mr) ==
    /\ mr \in stale
    /\ stale' = stale \ {mr}
    /\ UNCHANGED <<pc, worldVars>>

-----------------------------------------------------------------------------
(* Wait: first the seed, then the shoot ManagedResource, read from the      *)
(* informer cache.                                                          *)

SeesSeedHealthy == SeedHealthy \/ "seed" \in stale
SeesShootHealthy == ShootHealthy \/ "shoot" \in stale

\* Mutant: the health of the seed ManagedResource is not awaited.
HealthUnawaited ==
    /\ Step("waitSeed", "waitShoot")
    /\ UNCHANGED <<stale, worldVars>>

WaitSeed ==
    /\ Step("waitSeed", "waitShoot")
    /\ SeesSeedHealthy
    /\ UNCHANGED <<stale, worldVars>>

WaitShoot ==
    /\ Step("waitShoot", "cleanup")
    /\ SeesShootHealthy
    /\ UNCHANGED <<stale, worldVars>>

-----------------------------------------------------------------------------
(* Destroy(force): the shoot ManagedResource is deleted and awaited before  *)
(* the seed ManagedResource is deleted and awaited; force skips both waits. *)

Deleted(mr, none) == IF mr.st = "none" THEN none ELSE [mr EXCEPT !.st = "deleting"]

\* Mutant: Destroy goes on to the seed without awaiting the shoot ManagedResource.
DeleteShootUnawaited(force) ==
    /\ Step("deleteShoot", "deleteSeed")
    /\ shootMR' = Deleted(shootMR, NoShootMR)
    /\ UNCHANGED <<stale, seedMR, seedVars, secretVars, shootVars>>

DeleteShoot(force) ==
    /\ Step("deleteShoot", IF force THEN "deleteSeed" ELSE "waitShootGone")
    /\ shootMR' = Deleted(shootMR, NoShootMR)
    /\ UNCHANGED <<stale, seedMR, seedVars, secretVars, shootVars>>

\* Mutant: Destroy awaits the wrong ManagedResource first.
WaitOtherGone ==
    /\ Step("waitShootGone", "deleteSeed")
    /\ seedMR.st = "none"
    /\ UNCHANGED <<stale, worldVars>>

WaitShootGone ==
    /\ Step("waitShootGone", "deleteSeed")
    /\ shootMR.st = "none"
    /\ UNCHANGED <<stale, worldVars>>

DeleteSeed(force) ==
    /\ Step("deleteSeed", IF force THEN "deleteOperatorAccess" ELSE "waitSeedGone")
    /\ seedMR' = Deleted(seedMR, NoSeedMR)
    /\ UNCHANGED <<stale, shootMR, seedVars, secretVars, shootVars>>

\* Mutant: Destroy does not await the seed ManagedResource.
SeedUnawaited ==
    /\ Step("waitSeedGone", "deleteOperatorAccess")
    /\ UNCHANGED <<stale, worldVars>>

WaitSeedGone ==
    /\ Step("waitSeedGone", "deleteOperatorAccess")
    /\ seedMR.st = "none"
    /\ UNCHANGED <<stale, worldVars>>

\* The two-minute context of Wait or Destroy ends before the condition is seen.
DeadlineExceeded ==
    \/ pc = "waitSeed" /\ ~SeesSeedHealthy
    \/ pc = "waitShoot" /\ ~SeesShootHealthy
    \/ pc = "waitShootGone" /\ shootMR.st # "none"
    \/ pc = "waitSeedGone" /\ seedMR.st # "none"

=============================================================================
