---------------------------- MODULE ShootCluster ----------------------------
(***************************************************************************)
(* The surroundings of gardener-extension-diki for one shoot: the shoot's  *)
(* namespace in the seed (ManagedResources, Secrets, the Deployment of the *)
(* diki-operator and its pod) and the objects the extension keeps in the   *)
(* shoot cluster (CRDs, RBAC, webhooks, ComplianceScans).  None of these   *)
(* actors lives in this repository: gardener-resource-manager (GRM), the   *)
(* kubelet and the diki-operator are modelled from the way                 *)
(* pkg/component/dikioperator and pkg/controller/lifecycle rely on them.   *)
(***************************************************************************)
EXTENDS Naturals, FiniteSets

CONSTANTS
    Scans,        \* the ComplianceScans a user of the shoot may create
    MaxCA,        \* bound: webhook CAs minted over the life of the shoot
    BaseConfigs   \* values of "a non-empty baseDikiConfig is configured"

ASSUME MaxCAAssumption == MaxCA \in Nat
ASSUME BaseConfigsAssumption == BaseConfigs \subseteq BOOLEAN

CAs == 1..MaxCA
NoTLS == 0        \* no certificate, hence no Deployment or no pod
AccessSecrets == {"operator", "runner"}
MRStates == {"none", "live", "deleting"}

\* The part of the seed objects that properties tell apart: the replicas, the
\* webhook certificate (named by the CA that signed it), the base options.
SeedSpecs == [replicas : {0, 1}, tls : 0..MaxCA, base : BOOLEAN]
NoSpec == [replicas |-> 0, tls |-> NoTLS, base |-> FALSE]

\* A ManagedResource: deletionTimestamp and finalizer ("st"), spec.keepObjects,
\* the objects it lists, and observedGeneration = generation ("synced").  Of
\* the shoot objects only the CA bundle of the webhooks ever changes.
ShootMRs == [st : MRStates, keep : BOOLEAN, spec : SUBSET CAs, synced : BOOLEAN]
SeedMRs == [st : MRStates, spec : SeedSpecs, synced : BOOLEAN]
NoShootMR == [st |-> "none", keep |-> FALSE, spec |-> {}, synced |-> FALSE]
NoSeedMR == [st |-> "none", spec |-> NoSpec, synced |-> FALSE]

\* The CA of the secrets manager: current, its rotation generation, old.
NoCA == [cur |-> 0, gen |-> 0, old |-> 0]
NoPod == [tls |-> NoTLS, base |-> FALSE]

VARIABLES
    shootMR,      \* ManagedResource extension-diki-shoot
    seedMR,       \* ManagedResource extension-diki-seed
    deploy,       \* the Deployment as applied to the seed, NoSpec if absent
    pod,          \* the ready operator pod: mounted certificate, options read
    access,       \* existing shoot access Secrets
    tls,          \* existing webhook server certificate Secrets
    ca,           \* CA Secrets of the secrets manager
    minted,       \* number of CAs minted so far
    crd,          \* the CRDs in the shoot
    rbac,         \* the operator's ClusterRoles and bindings in the shoot
    webhook,      \* CA bundle of the applied webhook configurations, {} if none
    scans,        \* ComplianceScans in the shoot
    held          \* those that carry the operator's finalizer

mrVars == <<shootMR, seedMR>>
seedVars == <<deploy, pod>>
secretVars == <<access, tls, ca, minted>>
shootVars == <<crd, rbac, webhook, scans, held>>
worldVars == <<mrVars, seedVars, secretVars, shootVars>>

WorldTypeOK ==
    /\ shootMR \in ShootMRs
    /\ seedMR \in SeedMRs
    /\ deploy \in SeedSpecs
    /\ pod \in [tls : 0..MaxCA, base : BOOLEAN]
    /\ access \subseteq AccessSecrets
    /\ tls \subseteq 0..MaxCA
    /\ ca \in [cur : 0..MaxCA, gen : Nat, old : 0..MaxCA]
    /\ minted \in 0..MaxCA
    /\ crd \in {"absent", "present", "terminating"}
    /\ rbac \in BOOLEAN
    /\ webhook \subseteq CAs
    /\ scans \subseteq Scans
    /\ held \subseteq scans

WorldInit ==
    /\ shootMR = NoShootMR /\ seedMR = NoSeedMR
    /\ deploy = NoSpec /\ pod = NoPod
    /\ access = {} /\ tls = {} /\ ca = NoCA /\ minted = 0
    /\ crd = "absent" /\ rbac = FALSE /\ webhook = {}
    /\ scans = {} /\ held = {}

ShootCleared == crd = "absent" /\ ~rbac /\ webhook = {}
PodUp == pod.tls # NoTLS

-----------------------------------------------------------------------------
(* gardener-resource-manager: applies what a ManagedResource lists, reports *)
(* the observed generation, and on deletion removes the objects of a        *)
(* ManagedResource in no particular order before it drops the finalizer.    *)

ApplyShoot ==
    /\ shootMR.st = "live" /\ ~shootMR.synced
    /\ shootMR' = [shootMR EXCEPT !.synced = TRUE]
    /\ crd' = "present" /\ rbac' = TRUE /\ webhook' = shootMR.spec
    /\ UNCHANGED <<seedMR, seedVars, secretVars, scans, held>>

ApplySeed ==
    /\ seedMR.st = "live" /\ ~seedMR.synced
    /\ seedMR' = [seedMR EXCEPT !.synced = TRUE]
    /\ deploy' = seedMR.spec
    /\ UNCHANGED <<shootMR, pod, secretVars, shootVars>>

\* A CRD stays "terminating" while one of its objects carries a finalizer.
RemoveShootObject ==
    /\ shootMR.st = "deleting" /\ ~shootMR.keep
    /\ \/ rbac /\ rbac' = FALSE /\ UNCHANGED <<crd, webhook, scans>>
       \/ webhook # {} /\ webhook' = {} /\ UNCHANGED <<crd, rbac, scans>>
       \/ crd = "present" /\ crd' = "terminating" /\ UNCHANGED <<rbac, webhook, scans>>
       \/ crd = "terminating" /\ held = {} /\ crd' = "absent" /\ scans' = {}
          /\ UNCHANGED <<rbac, webhook>>
    /\ UNCHANGED <<mrVars, seedVars, secretVars, held>>

FinalizeShootMR ==
    /\ shootMR.st = "deleting"
    /\ shootMR.keep \/ ShootCleared
    /\ shootMR' = NoShootMR
    /\ UNCHANGED <<seedMR, seedVars, secretVars, shootVars>>

FinalizeSeedMR ==
    /\ seedMR.st = "deleting"
    /\ \/ deploy # NoSpec /\ deploy' = NoSpec /\ UNCHANGED seedMR
       \/ deploy = NoSpec /\ seedMR' = NoSeedMR /\ UNCHANGED deploy
    /\ UNCHANGED <<shootMR, pod, secretVars, shootVars>>

-----------------------------------------------------------------------------
(* The kubelet and the Deployment controller.  A pod gets ready only with   *)
(* the Secrets it mounts and with its permissions and CRDs in the shoot; it *)
(* is replaced when the pod template changes, that is the Secret name of    *)
(* the certificate, and reads its configuration file when it starts.        *)

RollPod ==
    /\ deploy.replicas = 1 /\ pod.tls # deploy.tls
    /\ deploy.tls \in tls /\ "operator" \in access
    /\ rbac /\ crd = "present"
    /\ pod' = [tls |-> deploy.tls, base |-> deploy.base]
    /\ UNCHANGED <<mrVars, deploy, secretVars, shootVars>>

StopPod ==
    /\ deploy.replicas = 0 /\ PodUp
    /\ pod' = NoPod
    /\ UNCHANGED <<mrVars, deploy, secretVars, shootVars>>

PodDies ==
    /\ PodUp
    /\ pod' = NoPod
    /\ UNCHANGED <<mrVars, deploy, secretVars, shootVars>>

-----------------------------------------------------------------------------
(* Users and the running diki-operator.  Every create and update of a scan  *)
(* passes the webhooks, whose failurePolicy is Fail: the API server must    *)
(* trust the certificate the pod serves.                                    *)

Admitted == webhook = {} \/ pod.tls \in webhook

CreateScan(s) ==
    /\ crd = "present" /\ s \notin scans /\ Admitted
    /\ scans' = scans \cup {s}
    /\ UNCHANGED <<mrVars, seedVars, secretVars, crd, rbac, webhook, held>>

StartScan(s) ==
    /\ PodUp /\ rbac /\ Admitted
    /\ crd = "present" /\ s \in scans \ held
    /\ held' = held \cup {s}
    /\ UNCHANGED <<mrVars, seedVars, secretVars, crd, rbac, webhook, scans>>

ReleaseScan(s) ==
    /\ PodUp /\ rbac /\ Admitted
    /\ s \in held
    /\ held' = held \ {s}
    /\ UNCHANGED <<mrVars, seedVars, secretVars, crd, rbac, webhook, scans>>

=============================================================================
