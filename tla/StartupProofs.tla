---------------------------- MODULE StartupProofs ----------------------------
(***************************************************************************)
(* What the process registers, proved for every set of configuration files *)
(* and of deployments.                                                     *)
(***************************************************************************)
EXTENDS Startup, TLAPS

USE DEF DikiController, Heartbeat, Controllers

\* Whatever file completes the options holds a configuration that is accepted.
LEMMA CompletesAccepted ==
    ASSUME NEW file, Completes(file)
    PROVE  Accepted(Base(file)) /\ pod.disabled \subseteq Controllers
<1>1. Base(file) # ""
    BY DEF Completes, ValidateConfiguration, Base, NoBase
<1>2. Base(file) \notin Undecoded
    BY DEF Completes, Base, NoBase, Undecoded
<1>. QED
    BY <1>1, <1>2 DEF Accepted, Completes, Undecoded

\* What a deployment carries.
LEMMA DeploymentFields ==
    ASSUME NEW d \in Deployments
    PROVE  d.file \in Files /\ d.ignore \in BOOLEAN /\ Workers(d) \in Nat /\ Renew(d) \in Nat
BY DeploymentsAssumption DEF Workers, Renew, Flag, NewOptions

LEMMA NoOptionsType == NoOptions \in AddOptions /\ NewOptions \in AddOptions
BY DEF NoOptions, NewOptions, AddOptions, NoBase

LEMMA InitInv == Init => StartupInv
<1>. SUFFICES ASSUME Init PROVE StartupInv
    OBVIOUS
<1>1. TypeOK
    BY NoOptionsType, DeploymentFields DEF Init, TypeOK, Steps
<1>2. StepsInOrder
    BY DEF Init, StepsInOrder
<1>3. ReadFromPod
    BY DEF Init, ReadFromPod
<1>. QED
    BY <1>1, <1>2, <1>3 DEF StartupInv

\* A process that begins anew has the invariant, whatever pod it is in.
LEMMA ExitInv ==
    ASSUME StartupInv, Exit, chart' \in Deployments, pod' \in Deployments,
           volume' \subseteq Files, chart'.file \in volume'
    PROVE  StartupInv'
<1>1. TypeOK'
    BY NoOptionsType DEF Exit, TypeOK, Steps
<1>2. StepsInOrder'
    BY DEF Exit, StepsInOrder
<1>3. ReadFromPod'
    BY DEF Exit, ReadFromPod
<1>. QED
    BY <1>1, <1>2, <1>3 DEF StartupInv

LEMMA CompleteInv == ASSUME StartupInv, Complete PROVE StartupInv'
<1>. USE DEF StartupInv
<1>1. PICK file \in Readable :
        /\ Completes(file)
        /\ options' = [config |-> Base(file), ignore |-> pod.ignore,
                       workers |-> Workers(pod), renew |-> Renew(pod)]
    BY DEF Complete
<1>2. file \in Files
    BY <1>1, DeploymentFields DEF Readable, TypeOK
<1>3. /\ options' \in AddOptions /\ options'.config = Base(file)
      /\ FlagsOf(pod, options')
    BY <1>1, <1>2, DeploymentFields DEF AddOptions, Base, NoBase, TypeOK, FlagsOf
<1>4. TypeOK'
    BY <1>3 DEF Complete, TypeOK, Steps
<1>5. registered = {}
    BY DEF Complete, StepsInOrder
<1>6. StepsInOrder'
    BY <1>1, <1>3, <1>5, CompletesAccepted
       DEF Complete, StepsInOrder, Enabled, FlagsOf, Workers, Renew
<1>7. ~early' => file = pod.file
    BY <1>1 DEF Complete, Readable
<1>8. ReadFromPod'
    BY <1>3, <1>7 DEF Complete, ReadFromPod
<1>. QED
    BY <1>4, <1>6, <1>8

LEMMA AddToManagerInv ==
    ASSUME StartupInv, NEW c \in Controllers, AddToManager(c)
    PROVE  StartupInv'
<1>. USE DEF StartupInv
<1>1. /\ given' \in AddOptions
      /\ IF c = DikiController
            THEN /\ given'.config = defaults.config /\ given'.ignore = defaults.ignore
                 /\ given'.workers = defaults.workers /\ given'.renew = given.renew
            ELSE /\ given'.config = given.config /\ given'.ignore = given.ignore
                 /\ given'.workers = given.workers /\ given'.renew = defaults.renew
    BY DEF AddToManager, Given, TypeOK, AddOptions
<1>2. TypeOK'
    BY <1>1 DEF AddToManager, Advance, TypeOK, Steps
<1>3. StepsInOrder'
    BY <1>1 DEF AddToManager, Advance, StepsInOrder, Enabled, FlagsOf, Workers, Renew
<1>4. ReadFromPod'
    BY DEF AddToManager, Advance, ReadFromPod
<1>. QED
    BY <1>2, <1>3, <1>4

LEMMA NextInv == StartupInv /\ [Next]_vars => StartupInv'
<1>. SUFFICES ASSUME StartupInv, [Next]_vars PROVE StartupInv'
    OBVIOUS
<1>. USE DEF StartupInv
<1>1. CASE Complete
    BY <1>1, CompleteInv
<1>2. CASE ValidateHeartbeat \/ NewManager
    <2>1. TypeOK'
        BY <1>2 DEF ValidateHeartbeat, NewManager, Advance, TypeOK, Steps
    <2>2. StepsInOrder'
        BY <1>2 DEF ValidateHeartbeat, NewManager, Advance, StepsInOrder, Enabled,
                     FlagsOf, Workers, Renew
    <2>3. ReadFromPod'
        BY <1>2 DEF ValidateHeartbeat, NewManager, Advance, ReadFromPod
    <2>. QED BY <2>1, <2>2, <2>3
<1>3. CASE Apply
    <2>0. defaults' = options
        BY <1>3 DEF Apply, ApplyConfig, TypeOK, AddOptions
    <2>1. TypeOK'
        BY <1>3, <2>0 DEF Apply, Advance, TypeOK, Steps
    <2>2. registered = {}
        BY <1>3 DEF Apply, Advance, StepsInOrder
    <2>3. StepsInOrder'
        BY <1>3, <2>0, <2>2 DEF Apply, Advance, StepsInOrder, Enabled,
                                 FlagsOf, Workers, Renew
    <2>4. ReadFromPod'
        BY <1>3 DEF Apply, Advance, ReadFromPod
    <2>. QED BY <2>1, <2>3, <2>4
<1>4. CASE \E c \in Controllers : AddToManager(c)
    BY <1>4, AddToManagerInv
<1>5. CASE AddChecks \/ Start
    <2>1. TypeOK'
        BY <1>5 DEF AddChecks, Start, Advance, TypeOK, Steps
    <2>2. StepsInOrder'
        BY <1>5 DEF AddChecks, Start, Advance, StepsInOrder, Enabled,
                     FlagsOf, Workers, Renew
    <2>3. ReadFromPod'
        BY <1>5 DEF AddChecks, Start, Advance, ReadFromPod
    <2>. QED BY <2>1, <2>2, <2>3
<1>6. CASE Reject \/ Fail
    BY <1>6, ExitInv DEF Reject, Fail, TypeOK, ReadFromPod
<1>7. CASE Upgrade
    <2>1. TypeOK'
        BY <1>7, DeploymentFields DEF Upgrade, TypeOK, processVars
    <2>2. StepsInOrder'
        BY <1>7 DEF Upgrade, StepsInOrder, Enabled, processVars, FlagsOf, Workers, Renew
    <2>3. ReadFromPod'
        BY <1>7 DEF Upgrade, ReadFromPod, processVars
    <2>. QED BY <2>1, <2>2, <2>3
<1>8. CASE SyncVolume
    <2>1. TypeOK'
        BY <1>8, DeploymentFields DEF SyncVolume, TypeOK, processVars
    <2>2. StepsInOrder'
        BY <1>8 DEF SyncVolume, StepsInOrder, Enabled, processVars, FlagsOf, Workers, Renew
    <2>3. ReadFromPod'
        BY <1>8 DEF SyncVolume, ReadFromPod, processVars
    <2>. QED BY <2>1, <2>2, <2>3
<1>9. CASE Replace
    BY <1>9, ExitInv, DeploymentFields DEF Replace, TypeOK
<1>10. CASE UNCHANGED vars
    <2>1. TypeOK'
        BY <1>10 DEF vars, processVars, TypeOK
    <2>2. StepsInOrder'
        BY <1>10 DEF vars, processVars, StepsInOrder, Enabled, FlagsOf, Workers, Renew
    <2>3. ReadFromPod'
        BY <1>10 DEF vars, processVars, ReadFromPod
    <2>. QED BY <2>1, <2>2, <2>3
<1>. QED
    BY <1>1, <1>2, <1>3, <1>4, <1>5, <1>6, <1>7, <1>8, <1>9, <1>10
    DEF Next, Progress, Process

\* The steps of every process of every pod come in order: what the configuration
\* volume holds, and upgrades at any time, do not get between them.
THEOREM StartupInvariant == Spec => []StartupInv
BY InitInv, NextInv, PTL DEF Spec

\* A started process runs all enabled controllers, the lifecycle controller with
\* a configuration that passed the validation.
THEOREM AlwaysRunsAsValidated == Spec => []RunsAsValidated
<1>1. StartupInv => RunsAsValidated
    BY DEF StartupInv, StepsInOrder, RunsAsValidated, Enabled
<1>. QED
    BY <1>1, StartupInvariant, PTL

\* The controllers have the options the process completed, and those of its pod
\* unless an upgrade was on its way.
THEOREM OptionsAlwaysInForce == Spec => []OptionsInForce
<1>1. StartupInv => OptionsInForce
    BY DEF StartupInv, StepsInOrder, ReadFromPod, OptionsInForce, FlagsOf
<1>. QED
    BY <1>1, StartupInvariant, PTL

=============================================================================
