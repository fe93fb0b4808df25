-------------------------- MODULE ExtensionWorkers --------------------------
(***************************************************************************)
(* pkg/controller/lifecycle/add.go, cmd/.../app/options.go: the Extensions *)
(* of all shoots of a seed share one workqueue and a fixed number of       *)
(* workers.  A handler keeps its worker while it waits for ManagedResources*)
(* (pkg/component/dikioperator), until one of the deadlines there.         *)
(*                                                                         *)
(* The workqueue is the library's: an Extension is in it at most once,     *)
(* ready or waiting for the backoff of a retry, and is not handed out while*)
(* it is being handled.  In which order it hands Extensions out is left    *)
(* open.                                                                   *)
(***************************************************************************)
EXTENDS FiniteSets

CONSTANTS
    Extensions,     \* one per shoot with the extension enabled
    Workers,        \* MaxConcurrentReconciles of them
    None            \* a worker without work

ASSUME NoneAssumption == None \notin Extensions

VARIABLES
    ready,       \* Extensions in the workqueue
    delayed,     \* Extensions whose retry waits for its backoff
    handling,    \* what each worker handles
    failing,     \* Extensions whose handlers cannot succeed at present: a call
                 \* fails, or a ManagedResource does not get healthy or go away
    owed,        \* Extensions with a request that no handler has fulfilled yet
    fresh        \* those of them whose last request is later than the start of
                 \* the handler that runs

queueVars == <<ready, delayed>>
vars == <<ready, delayed, handling, failing, owed, fresh>>

Handled == {handling[w] : w \in Workers} \ {None}

TypeOK ==
    /\ ready \subseteq Extensions
    /\ delayed \subseteq Extensions
    /\ handling \in [Workers -> Extensions \cup {None}]
    /\ failing \subseteq Extensions
    /\ owed \subseteq Extensions
    /\ fresh \subseteq owed

Init ==
    /\ ready = {} /\ delayed = {}
    /\ handling = [w \in Workers |-> None]
    /\ failing = {} /\ owed = {} /\ fresh = {}

-----------------------------------------------------------------------------
\* Mutant: an event for an Extension that is being handled is dropped.
EventUnlessHandled(e) ==
    /\ ready' = IF e \in Handled THEN ready ELSE ready \cup {e}
    /\ delayed' = delayed \ {e}
    /\ owed' = owed \cup {e} /\ fresh' = fresh \cup {e}
    /\ UNCHANGED <<handling, failing>>

\* An event of the Extension that passes the predicates: it gets ready at once.
Event(e) ==
    /\ ready' = ready \cup {e}
    /\ delayed' = delayed \ {e}
    /\ owed' = owed \cup {e} /\ fresh' = fresh \cup {e}
    /\ UNCHANGED <<handling, failing>>

\* Mutant: the queue hands out what another worker is handling.
TakeUnlocked(w, e) ==
    /\ handling[w] = None
    /\ e \in ready
    /\ handling' = [handling EXCEPT ![w] = e]
    /\ ready' = ready \ {e} /\ fresh' = fresh \ {e}
    /\ UNCHANGED <<delayed, failing, owed>>

\* An idle worker takes an Extension, and reads the Extension and the Cluster.
Take(w, e) ==
    /\ handling[w] = None
    /\ e \in ready \ Handled
    /\ handling' = [handling EXCEPT ![w] = e]
    /\ ready' = ready \ {e} /\ fresh' = fresh \ {e}
    /\ UNCHANGED <<delayed, failing, owed>>

Done(w) == handling' = [handling EXCEPT ![w] = None]

Succeed(w) ==
    /\ handling[w] \in Extensions \ failing
    /\ Done(w)
    /\ owed' = IF handling[w] \in fresh THEN owed ELSE owed \ {handling[w]}
    /\ UNCHANGED <<queueVars, failing, fresh>>

\* Mutant: the waits have no deadline; a handler that cannot succeed never returns.
FailWithoutDeadline(w) == FALSE

\* Mutant: a handler that failed is not retried.
FailUnretried(w) ==
    /\ handling[w] \in failing
    /\ Done(w)
    /\ UNCHANGED <<queueVars, failing, owed, fresh>>

\* A call returned an error, or a wait ran into its deadline: the Extension is
\* tried again after a backoff, at once if another event has come.
Fail(w) ==
    /\ handling[w] \in failing
    /\ Done(w)
    /\ delayed' = IF handling[w] \in ready THEN delayed ELSE delayed \cup {handling[w]}
    /\ UNCHANGED <<ready, failing, owed, fresh>>

Return(w) == Succeed(w) \/ Fail(w)

BackoffEnds(e) ==
    /\ e \in delayed
    /\ delayed' = delayed \ {e} /\ ready' = ready \cup {e}
    /\ UNCHANGED <<handling, failing, owed, fresh>>

\* A shoot or the API server has a problem that makes handlers fail, or has
\* recovered from it.
ChangeHealth(e) ==
    /\ failing' = IF e \in failing THEN failing \ {e} ELSE failing \cup {e}
    /\ UNCHANGED <<queueVars, handling, owed, fresh>>

\* The process restarts: handlers, queue and backoffs are gone.  The new process
\* lists the Extensions and queues those whose last operation has not succeeded,
\* with --ignore-operation-annotation any others as well.
Restart ==
    \E listed \in SUBSET Extensions :
        /\ owed \subseteq listed
        /\ ready' = listed /\ delayed' = {}
        /\ handling' = [w \in Workers |-> None]
        /\ owed' = listed /\ fresh' = listed
        /\ UNCHANGED failing

Next ==
    \/ \E e \in Extensions : Event(e) \/ BackoffEnds(e) \/ ChangeHealth(e)
    \/ \E w \in Workers, e \in Extensions : Take(w, e)
    \/ \E w \in Workers : Return(w)
    \/ Restart

Spec == Init /\ [][Next]_vars

\* Backoffs end, handlers return (every wait has a deadline, every other call
\* an answer), and the queue passes over no Extension for ever.
Fairness ==
    /\ \A e \in Extensions :
        WF_vars(BackoffEnds(e)) /\ SF_vars(\E w \in Workers : Take(w, e))
    /\ \A w \in Workers : WF_vars(Return(w))

FairSpec == Spec /\ Fairness

-----------------------------------------------------------------------------
\* Between an event and its fulfilment an Extension is never lost: it is queued,
\* waits for a retry, or is being handled; and nothing else ever is.
NoRequestForgotten == owed = ready \cup delayed \cup Handled

\* No Extension is handled by two workers, none is both ready and delayed, and
\* exactly what came after the start of a handler is ready for the next one.
WorkersInv ==
    /\ TypeOK
    /\ NoRequestForgotten
    /\ \A v, w \in Workers : handling[v] = handling[w] /\ v # w => handling[v] = None
    /\ ready \cap delayed = {} /\ delayed \cap Handled = {}
    /\ fresh \cap Handled = ready \cap Handled

\* The loop of one Extension, as the queue and the workers show it.
Loop(e) == INSTANCE ReconcileLoop WITH
    pending <- e \in ready \cup delayed,
    running <- e \in Handled

\* Every Extension has the reconcile loop that module Lifecycle assumes of one:
\* queue, workers, backoffs and restarts start a handler of it only when one is due
\* and none runs, and a handler that is due stays due until it starts.
ImplementsLoops ==
    /\ \A e \in Extensions : Loop(e)!Init
    /\ [][\A e \in Extensions : [Loop(e)!Next]_(Loop(e)!vars)]_vars

\* No Extension waits for ever and no handler runs for ever, though all workers
\* may be blocked by handlers that fail, unless the process keeps restarting.
LoopsArePrompt ==
    <>[][~Restart]_vars => \A e \in Extensions : Loop(e)!Prompt

\* The last request is fulfilled, unless the Extension itself has a problem,
\* however many of the others have one and however often those are requested.
HealthyServed ==
    \A e \in Extensions :
        <>[][~Restart /\ ~Event(e)]_vars => []<>(e \in owed => e \in failing)

=============================================================================
