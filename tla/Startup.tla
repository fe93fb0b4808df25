------------------------------ MODULE Startup ------------------------------
(***************************************************************************)
(* cmd/gardener-extension-diki, pkg/cmd, pkg/apis/config/validation and    *)
(* add.go: how the process gets from its command line and configuration    *)
(* file to running controllers, while its chart may be upgraded at any     *)
(* time.  Options exist three times: as completed options, as defaults of  *)
(* the packages of the controllers, and in what these were added with.     *)
(***************************************************************************)
EXTENDS Naturals, FiniteSets

CONSTANTS
    Files,        \* what may be found where --config points to, see Base
    Deployments   \* the configuration files and command lines that are deployed

DikiController == "diki-controller"
Heartbeat == "heartbeat"
Controllers == {DikiController, Heartbeat}

\* Of the command line: whether the operation annotation is ignored, the number of
\* concurrent reconciles, the interval in which the heartbeat is renewed (0 if the
\* flag is not there), the list of disabled controllers, whether the heartbeat has
\* a namespace.
ASSUME DeploymentsAssumption == \A d \in Deployments :
    /\ DOMAIN d = {"file", "ignore", "workers", "renew", "disabled", "namespace"}
    /\ d.file \in Files /\ d.ignore \in BOOLEAN /\ d.namespace \in BOOLEAN
    /\ d.workers \in Nat /\ d.renew \in Nat

\* A file is "unset" (no --config), "unreadable", "malformed", or else the value
\* of its baseDikiConfig, "nil" when that is missing.
NoBase == "nil"
Base(file) == IF file = "unset" THEN NoBase ELSE file
Undecoded == {"unreadable", "malformed"}

\* What the lifecycle controller (the first three) and the heartbeat are added with.
AddOptions ==
    [config : Files \cup {NoBase}, ignore : BOOLEAN, workers : Nat, renew : Nat]
NoOptions == [config |-> NoBase, ignore |-> FALSE, workers |-> 0, renew |-> 0]

\* The options of a process before its flags are parsed.
NewOptions == [config |-> NoBase, ignore |-> FALSE, workers |-> 5, renew |-> 30]

Flag(value, default) == IF value = 0 THEN default ELSE value
Workers(d) == Flag(d.workers, NewOptions.workers)
Renew(d) == Flag(d.renew, NewOptions.renew)

Steps == {"complete", "validate", "manager", "apply", "add", "checks", "started"}

VARIABLES
    chart,         \* the Deployment and the ConfigMap as the chart has them now
    pod,           \* those the newest pod was created from
    volume,        \* what the pod may find in its configuration volume
    step,          \* what the process in the pod does next
    options,       \* its options, completed from the second step on
    early,         \* they were completed while an upgrade had not reached the pod
    defaults,      \* DefaultAddOptions of the packages lifecycle and heartbeat
    registered,    \* the controllers added to the manager
    given          \* the options they were added with

processVars == <<step, options, early, defaults, registered, given>>
vars == <<chart, pod, volume, processVars>>

Init ==
    /\ chart \in Deployments /\ pod = chart /\ volume = {chart.file}
    /\ step = "complete" /\ early = FALSE /\ registered = {}
    /\ options = NewOptions /\ defaults = NoOptions /\ given = NoOptions

-----------------------------------------------------------------------------
Advance(from, to) ==
    step = from /\ step' = to /\ UNCHANGED <<chart, pod, volume, early>>

\* The process exits, with the error of the step.  The kubelet starts another.
Exit ==
    /\ step' = "complete" /\ early' = FALSE /\ registered' = {}
    /\ options' = NewOptions /\ defaults' = NoOptions /\ given' = NoOptions

\* Mutant: an empty baseDikiConfig is accepted.
AcceptAll(base) == TRUE

ValidateConfiguration(base) == base # NoBase => base # ""

\* Without --config no file is read.
Readable == IF pod.file = "unset" THEN {"unset"} ELSE volume \ {"unset"}

Completes(file) ==
    /\ file \notin Undecoded
    /\ ValidateConfiguration(Base(file))
    /\ pod.disabled \subseteq Controllers

Complete ==
    /\ step = "complete" /\ step' = "validate"
    /\ \E file \in Readable :
        /\ Completes(file)
        /\ options' = [config |-> Base(file), ignore |-> pod.ignore,
                       workers |-> Workers(pod), renew |-> Renew(pod)]
    /\ early' = (volume # {pod.file})
    /\ UNCHANGED <<chart, pod, volume, defaults, registered, given>>

ValidateHeartbeat ==
    /\ Advance("validate", "manager")
    /\ pod.namespace
    /\ UNCHANGED <<options, defaults, registered, given>>

NewManager ==
    /\ Advance("manager", "apply")
    /\ UNCHANGED <<options, defaults, registered, given>>

ApplyConfig(opts) == [opts EXCEPT !.config = options.config]

\* Mutant: the options of the heartbeat are not applied.
ApplyToDikiOnly ==
    /\ Advance("apply", "add")
    /\ defaults' = [ApplyConfig(defaults) EXCEPT !.workers = options.workers,
                                                !.ignore = options.ignore]
    /\ UNCHANGED <<options, registered, given>>

\* Mutant: only the configuration is applied to the lifecycle controller.
ApplyConfigOnly ==
    /\ Advance("apply", "add")
    /\ defaults' = [ApplyConfig(defaults) EXCEPT !.renew = options.renew]
    /\ UNCHANGED <<options, registered, given>>

Apply ==
    /\ Advance("apply", "add")
    /\ defaults' = [ApplyConfig(defaults) EXCEPT !.workers = options.workers,
                                                !.ignore = options.ignore,
                                                !.renew = options.renew]
    /\ UNCHANGED <<options, registered, given>>

Enabled == Controllers \ pod.disabled

\* Each controller takes the defaults of its package, as they are.
Given(c) ==
    IF c = DikiController THEN [defaults EXCEPT !.renew = given.renew]
                          ELSE [given EXCEPT !.renew = defaults.renew]

\* Mutant: the switches are not looked at.
AddAnyToManager(c) ==
    /\ Advance("add", "add")
    /\ c \in Controllers \ registered
    /\ registered' = registered \cup {c}
    /\ given' = Given(c)
    /\ UNCHANGED <<options, defaults>>

\* The enabled controllers, in any order.
AddToManager(c) ==
    /\ Advance("add", "add")
    /\ c \in Enabled \ registered
    /\ registered' = registered \cup {c}
    /\ given' = Given(c)
    /\ UNCHANGED <<options, defaults>>

AddChecks ==
    /\ Advance("add", "checks")
    /\ Enabled \subseteq registered
    /\ UNCHANGED <<options, defaults, registered, given>>

Start ==
    /\ Advance("checks", "started")
    /\ UNCHANGED <<options, defaults, registered, given>>

\* The options do not complete or are not valid: the command returns the error.
Reject ==
    /\ \/ step = "complete" /\ \E file \in Readable : ~Completes(file)
       \/ step = "validate" /\ ~pod.namespace
    /\ Exit
    /\ UNCHANGED <<chart, pod, volume>>

\* A call to the API server or of the manager fails, or the process dies.
Fail ==
    /\ step \notin {"complete", "validate"}
    /\ Exit
    /\ UNCHANGED <<chart, pod, volume>>

-----------------------------------------------------------------------------
\* The ConfigMap keeps its name: its new content also gets into the volume of
\* the pod that is still there, at some time.
Upgrade ==
    /\ chart' \in Deployments
    /\ volume' = volume \cup {chart'.file}
    /\ UNCHANGED <<pod, processVars>>

SyncVolume ==
    /\ volume' = {chart.file}
    /\ UNCHANGED <<chart, pod, processVars>>

\* Mutant: the pod template has no checksum of the configuration.
OutdatedFlags == [chart EXCEPT !.file = ""] # [pod EXCEPT !.file = ""]

\* The flags are part of the pod template, the file by its checksum.
Outdated == chart # pod

\* The Deployment controller creates another pod.  The one it replaces is not
\* looked at any more.
Replace ==
    /\ Outdated
    /\ pod' = chart /\ volume' = {chart.file}
    /\ Exit
    /\ UNCHANGED chart

Process ==
    \/ Complete \/ ValidateHeartbeat \/ NewManager \/ Apply
    \/ (\E c \in Controllers : AddToManager(c)) \/ AddChecks \/ Start

Progress == Process \/ Reject \/ SyncVolume \/ Replace

Next == Progress \/ Fail \/ Upgrade

Spec == Init /\ [][Next]_vars

\* The process does not stop between two steps; volumes and pods are brought up
\* to date.
Fairness ==
    /\ WF_vars(Process) /\ WF_vars(Reject)
    /\ WF_vars(SyncVolume) /\ WF_vars(Replace)

FairSpec == Spec /\ Fairness

-----------------------------------------------------------------------------
TypeOK ==
    /\ chart \in Deployments /\ pod \in Deployments
    /\ volume \subseteq Files
    /\ step \in Steps /\ early \in BOOLEAN
    /\ options \in AddOptions /\ defaults \in AddOptions /\ given \in AddOptions
    /\ registered \subseteq Controllers

\* The flags of the command line have gone into these options.
FlagsOf(d, opts) ==
    opts.ignore = d.ignore /\ opts.workers = Workers(d) /\ opts.renew = Renew(d)

Accepted(base) == base \notin Undecoded \cup {""}

\* The process has options only from Complete on, the defaults are the options
\* only from Apply on, and controllers are added only after that.
StepsInOrder ==
    /\ step # "complete" => /\ Accepted(options.config)
                            /\ FlagsOf(pod, options)
                            /\ pod.disabled \subseteq Controllers
    /\ step \notin {"complete", "validate"} => pod.namespace
    /\ step \in {"add", "checks", "started"} => defaults = options
    /\ registered # {} => step \in {"add", "checks", "started"}
    /\ registered \subseteq Enabled
    /\ DikiController \in registered =>
          /\ given.config = defaults.config /\ given.ignore = defaults.ignore
          /\ given.workers = defaults.workers
    /\ Heartbeat \in registered => given.renew = defaults.renew
    /\ step \in {"checks", "started"} => registered = Enabled

\* While the volume holds only what the pod was created with, or the process
\* completed its options when it did, they are those of the pod.
ReadFromPod ==
    /\ step # "complete" /\ ~early => options.config = Base(pod.file)
    /\ chart.file \in volume

StartupInv == TypeOK /\ StepsInOrder /\ ReadFromPod

\* No controller runs with a configuration that the validation rejects, and the
\* process runs either all enabled controllers or none.
RunsAsValidated ==
    step = "started" =>
        /\ DikiController \in registered => Accepted(given.config)
        /\ registered = Controllers \ pod.disabled
        /\ pod.namespace

\* The controllers have the options this process completed, not those of a default
\* or of an earlier process; they are those its pod was created with, unless the
\* process began while an upgrade was on its way.
OptionsInForce ==
    /\ DikiController \in registered =>
        /\ given.config = options.config
        /\ given.ignore = pod.ignore /\ given.workers = Workers(pod)
        /\ ~early => given.config = Base(pod.file)
    /\ Heartbeat \in registered => given.renew = Renew(pod)

Valid(deployment) ==
    /\ Accepted(deployment.file)
    /\ deployment.disabled \subseteq Controllers
    /\ deployment.namespace

\* Once upgrades and failures cease, the controllers run with what the chart
\* says, if it is valid.  The exception is a configuration that was changed and
\* changed back: a process that began in between keeps what it has read then,
\* because its pod is not replaced.
ConfigTakesEffect ==
    <>[][Progress]_vars => <>[](Valid(chart) =>
        /\ step = "started" /\ pod = chart
        /\ DikiController \in registered =>
            /\ given.ignore = chart.ignore /\ given.workers = Workers(chart)
            /\ early \/ given.config = Base(chart.file)
        /\ Heartbeat \in registered => given.renew = Renew(chart))

=============================================================================
