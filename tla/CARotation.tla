----------------------------- MODULE CARotation -----------------------------
(***************************************************************************)
(* What the rotation of a webhook CA promises, whatever updates, failures  *)
(* and delays there are in between: bundles and certificate only move on,  *)
(* and the next rotation begins only when nothing depends on the previous  *)
(* CA any more.  CAs are numbered.                                         *)
(***************************************************************************)
EXTENDS Naturals

CONSTANT Clients    \* webhook configurations that call the server

VARIABLES
    newest,     \* the last CA issued
    cert,       \* the CA of the certificate that is deployed
    trust       \* the bundle of each client

vars == <<newest, cert, trust>>

Init == newest = 1 /\ cert = 1 /\ trust = [c \in Clients |-> {1}]

\* A bundle moves on when no CA in it is replaced by an older one.
Onwards(old, new) ==
    /\ \A m \in old : \E n \in new : m <= n
    /\ \A n \in new : \E m \in old : m <= n

Introduce ==
    /\ cert = newest /\ \A c \in Clients : newest \in trust[c]
    /\ newest' = newest + 1
    /\ UNCHANGED <<cert, trust>>

Deploy ==
    /\ cert' = newest
    /\ UNCHANGED <<newest, trust>>

\* To the bundle before the rotation, the one during it, or the one after it.
Distribute(c) ==
    /\ \E bundle \in {{newest - 1}, {newest - 1, newest}, {newest}} :
        /\ Onwards(trust[c], bundle)
        /\ trust' = [trust EXCEPT ![c] = bundle]
    /\ UNCHANGED <<newest, cert>>

Next == Introduce \/ Deploy \/ \E c \in Clients : Distribute(c)

Spec == Init /\ [][Next]_vars

=============================================================================
