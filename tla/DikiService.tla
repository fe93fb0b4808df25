----------------------------- MODULE DikiService -----------------------------
(***************************************************************************)
(* What the extension promises the users of one shoot, whatever happens in *)
(* the seed: ComplianceScans stay in the shoot for as long as the          *)
(* extension is enabled, also while the control plane moves, and none that *)
(* is being worked on is taken away; the operator is withdrawn from an     *)
(* extension that is being removed only when no scan is left; a removed    *)
(* extension leaves neither scans nor operator behind.  Only a forced      *)
(* deletion ("abandoned") gives up on the order.                           *)
(***************************************************************************)
CONSTANT Scans

VARIABLES
    status,      \* "off", "on", "moving", "removing", "abandoned"
    operator,    \* an operator is deployed for the shoot
    scans,       \* ComplianceScans in the shoot
    running      \* those the operator is working on

vars == <<status, operator, scans, running>>

Init == status = "off" /\ ~operator /\ scans = {} /\ running = {}

Change(from, to) ==
    /\ status = from /\ status' = to
    /\ UNCHANGED <<operator, scans, running>>

Enable == Change("off", "on")
Disable == Change("on", "removing")
Abandon == \E from \in {"on", "moving", "removing"} : Change(from, "abandoned")
Move == Change("on", "moving")
Settle == operator /\ Change("moving", "on")

\* Also when the deletion was forced after all had been removed in order.
Removed ==
    /\ ~operator /\ scans = {}
    /\ \E from \in {"removing", "abandoned"} : Change(from, "off")

Deploy ==
    /\ status # "off" /\ ~operator /\ operator' = TRUE
    /\ UNCHANGED <<status, scans, running>>

Withdraw ==
    /\ operator /\ operator' = FALSE
    /\ \/ status \in {"moving", "abandoned"}
       \/ status = "removing" /\ scans = {}
    /\ UNCHANGED <<status, scans, running>>

Create(s) ==
    /\ status # "off" /\ s \notin scans
    /\ scans' = scans \cup {s}
    /\ UNCHANGED <<status, operator, running>>

Run(s) ==
    /\ s \in scans \ running
    /\ running' = running \cup {s}
    /\ UNCHANGED <<status, operator, scans>>

Complete(s) ==
    /\ s \in running
    /\ running' = running \ {s}
    /\ UNCHANGED <<status, operator, scans>>

\* The scans go with their CRD, all at once.
Drop ==
    /\ status \in {"removing", "abandoned"}
    /\ scans # {} /\ running = {}
    /\ scans' = {}
    /\ UNCHANGED <<status, operator, running>>

Next ==
    \/ Enable \/ Disable \/ Abandon \/ Move \/ Settle \/ Removed
    \/ Deploy \/ Withdraw \/ Drop
    \/ \E s \in Scans : Create(s) \/ Run(s) \/ Complete(s)

Spec == Init /\ [][Next]_vars

=============================================================================
