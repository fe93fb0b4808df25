------------------------------ MODULE MCRollout ------------------------------
(***************************************************************************)
(* Model checking of Rollout: the MCRollout_*.cfg files give the constants *)
(* their values.                                                           *)
(***************************************************************************)
EXTENDS Rollout

=============================================================================
