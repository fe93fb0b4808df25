----------------------- MODULE ExtensionWorkersProofs -----------------------
(***************************************************************************)
(* Proofs about ExtensionWorkers for any number of Extensions and workers: *)
(* WorkersInv is inductive, and from it follows that the workers give every*)
(* Extension its ReconcileLoop.                                            *)
(***************************************************************************)
EXTENDS ExtensionWorkers, TLAPS

\* Who is handled after a worker has started or finished.
LEMMA HandledAfterTake ==
    ASSUME TypeOK, NEW w \in Workers, NEW e \in Extensions, Take(w, e)
    PROVE  Handled' = Handled \cup {e}
  BY NoneAssumption DEF TypeOK, Take, Handled

LEMMA HandledAfterReturn ==
    ASSUME WorkersInv, NEW w \in Workers, handling[w] # None, Done(w)
    PROVE  /\ handling[w] \in Extensions
           /\ Handled' = Handled \ {handling[w]}
  BY DEF WorkersInv, TypeOK, Done, Handled

LEMMA WorkersStep ==
    ASSUME WorkersInv, [Next]_vars
    PROVE  WorkersInv'
<1> USE NoneAssumption
<1>1. ASSUME NEW e \in Extensions, Event(e)
      PROVE  WorkersInv'
  BY <1>1 DEF WorkersInv, TypeOK, NoRequestForgotten, Event, Handled
<1>2. ASSUME NEW e \in Extensions, BackoffEnds(e)
      PROVE  WorkersInv'
  BY <1>2 DEF WorkersInv, TypeOK, NoRequestForgotten, BackoffEnds, Handled
<1>3. ASSUME NEW e \in Extensions, ChangeHealth(e)
      PROVE  WorkersInv'
  BY <1>3 DEF WorkersInv, TypeOK, NoRequestForgotten, ChangeHealth, queueVars, Handled
<1>4. ASSUME NEW w \in Workers, NEW e \in Extensions, Take(w, e)
      PROVE  WorkersInv'
  <2>1. Handled' = Handled \cup {e}
    BY <1>4, HandledAfterTake DEF WorkersInv
  <2>2. \A v \in Workers : handling[v] # e
    BY <1>4 DEF Take, Handled
  <2> QED
    BY <1>4, <2>1, <2>2 DEF WorkersInv, TypeOK, NoRequestForgotten, Take
<1>5. ASSUME NEW w \in Workers, Succeed(w)
      PROVE  WorkersInv'
  <2>1. handling[w] \in Handled
    BY <1>5 DEF Succeed, Handled
  <2>2. Handled' = Handled \ {handling[w]}
    BY <1>5, HandledAfterReturn DEF Succeed
  <2> QED
    BY <1>5, <2>1, <2>2 DEF WorkersInv, TypeOK, NoRequestForgotten, Succeed, Done, queueVars
<1>6. ASSUME NEW w \in Workers, Fail(w)
      PROVE  WorkersInv'
  <2>1. handling[w] \in Extensions /\ handling[w] \in Handled
    BY <1>6 DEF Fail, Handled, WorkersInv, TypeOK
  <2>2. Handled' = Handled \ {handling[w]}
    BY <1>6, <2>1, HandledAfterReturn DEF Fail
  <2> QED
    BY <1>6, <2>1, <2>2 DEF WorkersInv, TypeOK, NoRequestForgotten, Fail, Done
<1>7. ASSUME Restart
      PROVE  WorkersInv'
  BY <1>7 DEF WorkersInv, TypeOK, NoRequestForgotten, Restart, Handled
<1>8. CASE UNCHANGED vars
  BY <1>8 DEF WorkersInv, TypeOK, NoRequestForgotten, Handled, vars
<1> QED
  BY <1>1, <1>2, <1>3, <1>4, <1>5, <1>6, <1>7, <1>8 DEF Next, Return

\* In every behaviour the queue, the workers and the open requests fit together:
\* at most one worker handles an Extension, and nothing requested is lost.
THEOREM WorkersInvariant == Spec => []WorkersInv
<1>1. Init => WorkersInv
  BY NoneAssumption DEF Init, WorkersInv, TypeOK, NoRequestForgotten, Handled
<1> QED
  BY <1>1, WorkersStep, PTL DEF Spec

\* Through crashes, failing handlers and requests at any time, an Extension with
\* an open request is queued, waits for a retry, or is being handled.
THEOREM NoRequestForgottenAlways == Spec => []NoRequestForgotten
  BY WorkersInvariant, PTL DEF WorkersInv

-----------------------------------------------------------------------------
\* Each step of the workers is, for each Extension, a step of its loop or none.
LEMMA LoopStep ==
    ASSUME WorkersInv, [Next]_vars, NEW f \in Extensions
    PROVE  [Loop(f)!Next]_(Loop(f)!vars)
<1> USE NoneAssumption DEF Loop!vars
<1>1. ASSUME NEW e \in Extensions, Event(e)
      PROVE  Loop(f)!Request \/ UNCHANGED Loop(f)!vars
  BY <1>1 DEF Event, Handled, Loop!Request
<1>2. ASSUME NEW e \in Extensions, BackoffEnds(e)
      PROVE  UNCHANGED Loop(f)!vars
  BY <1>2 DEF BackoffEnds, Handled
<1>3. ASSUME NEW e \in Extensions, ChangeHealth(e)
      PROVE  UNCHANGED Loop(f)!vars
  BY <1>3 DEF ChangeHealth, queueVars, Handled
<1>4. ASSUME NEW w \in Workers, NEW e \in Extensions, Take(w, e)
      PROVE  Loop(f)!Start \/ UNCHANGED Loop(f)!vars
  <2>1. Handled' = Handled \cup {e}
    BY <1>4, HandledAfterTake DEF WorkersInv
  <2> QED
    BY <1>4, <2>1 DEF Take, WorkersInv, Loop!Start
<1>5. ASSUME NEW w \in Workers, Succeed(w)
      PROVE  Loop(f)!Finish \/ UNCHANGED Loop(f)!vars
  <2>1. handling[w] \in Handled /\ Handled' = Handled \ {handling[w]}
    BY <1>5, HandledAfterReturn DEF Succeed, Handled
  <2> QED
    BY <1>5, <2>1 DEF Succeed, queueVars, Loop!Finish
<1>6. ASSUME NEW w \in Workers, Fail(w)
      PROVE  Loop(f)!Fail \/ UNCHANGED Loop(f)!vars
  <2>1. handling[w] \in Extensions /\ handling[w] \in Handled
    BY <1>6 DEF Fail, Handled, WorkersInv, TypeOK
  <2>2. Handled' = Handled \ {handling[w]}
    BY <1>6, <2>1, HandledAfterReturn DEF Fail
  <2> QED
    BY <1>6, <2>1, <2>2 DEF Fail, Loop!Fail
<1>7. ASSUME Restart
      PROVE  Loop(f)!Fail \/ Loop(f)!Request \/ UNCHANGED Loop(f)!vars
  BY <1>7 DEF Restart, WorkersInv, NoRequestForgotten, Handled, Loop!Fail, Loop!Request
<1>8. CASE UNCHANGED vars
  BY <1>8 DEF vars, Handled
<1> QED
  BY <1>1, <1>2, <1>3, <1>4, <1>5, <1>6, <1>7, <1>8 DEF Next, Return, Loop!Next

\* The shared workers give every Extension the loop that Lifecycle assumes.
THEOREM LoopsImplemented == Spec => ImplementsLoops
<1>1. Init => \A e \in Extensions : Loop(e)!Init
  BY NoneAssumption DEF Init, Handled, Loop!Init
<1>2. WorkersInv /\ [Next]_vars
      => [\A e \in Extensions : [Loop(e)!Next]_(Loop(e)!vars)]_vars
  BY LoopStep
<1> QED
  BY <1>1, <1>2, WorkersInvariant, PTL DEF Spec, ImplementsLoops

=============================================================================
