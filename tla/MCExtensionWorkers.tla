------------------------- MODULE MCExtensionWorkers -------------------------
(***************************************************************************)
(* Model checking of ExtensionWorkers: the MCExtensionWorkers_*.cfg files  *)
(* give the constants their values; Extensions and workers are model       *)
(* values.                                                                 *)
(***************************************************************************)
EXTENDS ExtensionWorkers

=============================================================================
