--------------------------- MODULE ReconcileLoop ---------------------------
(***************************************************************************)
(* What the actuator may rely on for one Extension, whatever else the      *)
(* process does: handlers of the Extension run one after the other, each   *)
(* for a request; a request that arrives while a handler runs, or whose    *)
(* handler fails, is followed by a later handler.                          *)
(***************************************************************************)
VARIABLES
    pending,     \* a handler is due for the Extension
    running      \* a handler of the Extension runs

vars == <<pending, running>>

Init == ~pending /\ ~running

Request == pending' = TRUE /\ UNCHANGED running

Start ==
    /\ pending /\ ~running
    /\ pending' = FALSE /\ running' = TRUE

Finish ==
    /\ running
    /\ running' = FALSE /\ UNCHANGED pending

Fail ==
    /\ running
    /\ running' = FALSE /\ pending' = TRUE

Next == Request \/ Start \/ Finish \/ Fail

Spec == Init /\ [][Next]_vars

\* A due handler starts, and a handler that runs ends.
Prompt == (pending ~> running) /\ (running ~> ~running)

=============================================================================
