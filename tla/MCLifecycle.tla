----------------------------- MODULE MCLifecycle -----------------------------
(***************************************************************************)
(* Model checking of Lifecycle: the MCLifecycle_*.cfg files give the       *)
(* constants their values.  The scans are model values.                    *)
(***************************************************************************)
EXTENDS LifecycleService

=============================================================================
