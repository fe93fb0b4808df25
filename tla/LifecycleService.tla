-------------------------- MODULE LifecycleService --------------------------
(***************************************************************************)
(* Lifecycle implements DikiService: an operator is deployed when the seed *)
(* ManagedResource exists and is not being deleted, and a scan is being    *)
(* worked on when it carries the operator's finalizer.                     *)
(***************************************************************************)
EXTENDS LifecycleInvariants

Status ==
    CASE phase = "gone" -> "off"
      [] phase = "live" -> "on"
      [] phase \in {"migrating", "migrated", "restoring"} -> "moving"
      [] phase = "deleting" -> "removing"
      [] phase \in {"forced", "forceGone"} -> "abandoned"

Service == INSTANCE DikiService WITH
    status <- Status,
    operator <- (seedMR.st = "live"),
    running <- held

\* Every step of the actuator, its surroundings and their failures is a step of
\* the service that users are promised, or changes nothing they can tell.
ImplementsService == Service!Spec

=============================================================================
