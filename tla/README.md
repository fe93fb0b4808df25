# Verification of gardener-extension-diki

`gardener-extension-diki` is a Gardener extension. For every shoot that enables
it, it deploys the diki-operator into the shoot's namespace of the seed, with
CRDs, RBAC and admission webhooks in the shoot cluster, so that users can create
`ComplianceScan`s there. This directory holds TLA+ specifications of the
extension, TLC configurations that check them, and proofs for TLAPS.

Contents: [inventory](#inventory), [modules](#modules),
[correspondence](#how-the-model-corresponds-to-the-code), [runs](#runs),
[fairness](#fairness), [proofs](#proofs), [divergences](#where-the-code-and-its-documentation-differ),
[not modelled](#what-is-not-modelled).

## Inventory

| Component | State | Operations | Hard behaviour | Correct when |
|---|---|---|---|---|
| Lifecycle actuator, `pkg/controller/lifecycle/actuator.go` | none of its own: it works on API objects; the configuration it was started with | `Reconcile`, `Restore`, `Delete`, `ForceDelete`, `Migrate` | 8 to 11 API calls each; any may fail; the process may restart between two; the Cluster read first is old when used; requests arrive meanwhile | operations are idempotent, nothing is lost, nothing is left behind, objects are created and removed in an order their users survive |
| diki-operator component, `pkg/component/dikioperator` | the ManagedResources `extension-diki-shoot` and `extension-diki-seed` | `Deploy`, `Destroy(force)`, `Wait` | two writes that are not atomic; waits of two minutes; reads from an informer cache that lags behind writes | the operator outlives what it must clean up; certificate and CA bundle fit |
| Manifests, `seed_resources.go`, `shoot_resources.go` | contents of the two ManagedResources | built from `Values` | references between objects of two clusters, which an update reaches one by one | references resolve at every step; webhooks find and trust the operator; accounts keep to their rights |
| Secrets, `pkg/secrets` | CA (persisted) and webhook certificate | through the secrets manager: generate, bundle, clean up | CA rotation in phases; change of the seed | a certificate in use is trusted and exists |
| Registration, `add.go` | workqueue, workers | event, take, return, retry | five workers that block in waits, for many shoots; restarts | one handler per shoot at a time, no request forgotten, no shoot starved |
| Process start, `cmd/.../app`, `pkg/cmd`, `pkg/apis/config`; the chart's Deployment | options, in three places | complete, validate, apply, add to manager, start | restart with another configuration in the midst of an upgrade | the configuration given is the one in force |
| Surroundings (no code here): gardenlet, gardener-resource-manager (GRM), kubelet, diki-operator, users | Extension and Cluster resources, Deployment, pod, shoot objects, scans with finalizers | request, apply, remove, roll, create and release scans | all concurrent with the handlers | assumed as described below |

The parts interact only through API objects: the gardenlet annotates or deletes
the Extension, the controller calls the actuator, the actuator writes Secrets
and ManagedResources, GRM applies those to seed and shoot, the kubelet runs the
operator, and the operator works on the scans through the webhooks that GRM
installed. `PROJECT.json` lists the hazards of that at their lines.

## Modules

Lifecycle of one shoot:

| Module | Models |
|---|---|
| `ShootCluster` | state outside of the process: ManagedResources, Secrets, Deployment, pod, shoot objects; the steps of GRM, kubelet, operator and users. External, modelled from how the code relies on them. |
| `DikiOperator` (extends it) | the component: one action per API call or wait of `Deploy`, `Destroy`, `Wait`. |
| `Lifecycle` (extends it) | the actuator and its reconcile loop, requests, failures, restarts; the specification `Spec`, `FairSpec`; the properties. |
| `LifecycleInvariants`, `LifecycleProofs` | the inductive invariant `IInv`, in layers; the proofs of it and of the safety properties. |
| `DikiService` | the abstract specification: what users of the shoot are promised, in terms of the extension's status, whether an operator is deployed, the scans and those being worked on. |
| `LifecycleService` (extends `LifecycleInvariants`), `LifecycleServiceProofs` | the refinement mapping, `ImplementsService`; its proof. |

Workers for many shoots:

| Module | Models |
|---|---|
| `ExtensionWorkers` | the workqueue and the workers that handlers of all Extensions share. |
| `ReconcileLoop` | the abstract specification: what `Lifecycle` assumes of the loop of its one Extension. |
| `ExtensionWorkersProofs` | proofs of the invariants and of the refinement. |

Content of the ManagedResources:

| Module | Models |
|---|---|
| `DikiResources` | every object of the two ManagedResources as a function of `Values`; no state. |
| `Rollout` (extends it) | how updates of the `Values` get from `Deploy` to the clusters, object by object, and to the pods. |
| `CARotation` | the abstract specification: what the rotation of a webhook CA promises to those who depend on it, in terms of the last CA, the certificate and the bundles that are deployed. |
| `ResourcesProofs` | lemmas about the objects, for all `Values`: which there are, what they refer to, bundles, certificate, permissions. |
| `RolloutProofs` (extends it) | proofs of the invariants of `Rollout`, and that it implements `CARotation`. |

Process:

| Module | Models |
|---|---|
| `Startup` | from the command line and the configuration file to started controllers; upgrades of the chart. |
| `StartupProofs` | proofs for it. |

`MCLifecycle`, `MCExtensionWorkers`, `MCRollout` and `MCStartup` are the roots
for TLC; the runs are their `.cfg` files. The four groups share no variables.
They are composed by assumption and guarantee: `ExtensionWorkers` shows that each
Extension has the loop which `Lifecycle` takes for granted (`pending` of
`ReconcileLoop` is `queued` there, `running` is a handler in progress); `Rollout`
takes the steps apart that are one step of `ShootCluster` each (`ApplyShoot`,
`ApplySeed`, `RollPod`), for a live Extension; `Startup` shows that the options which `newComponent` uses are those configured.

Definitions whose comment says "Mutant" are used by no specification. Each is a
plausible bug of the definition below it; substituted for it, TLC finds the
property violated that `PROJECT.json` names.

## How the model corresponds to the code

A handler is a procedure of API calls. `pc` names the call it makes next, `op`
the handler, `snap` the Cluster it has read. Each call is one action, so that
every other actor can move between two calls, and after each of them the handler
may fail (`ReturnError`), run into its deadline (`TimeOut`) or vanish with the
process (`Restart`).

| Code | Model |
|---|---|
| `GetCluster`, replicas (actuator.go:56-63, 128) | `GetCluster`, `Replicas` |
| access Secrets (65-73) | `ReconcileAccess`, variable `access` |
| `GenerateAllSecrets` (75-84), `ConfigsFor` | `GenerateCA`, `GenerateCert`, `Persisted`; variables `ca`, `tls`, `minted` |
| CA bundle (86-89), `newComponent` (175) | `CABundle`, `Values` |
| `Deploy` (dikioperator.go:49) | `CreateShoot`, `CreateSeed` |
| `Wait` (105) | `WaitSeed`, `WaitShoot`, with what the cache shows: `stale`, `CacheSync` |
| `secretsManager.Cleanup` (actuator.go:104, 167) | `Cleanup`, `CleanupAll` |
| `SetKeepObjects` (141) | `SetKeepObjects` |
| `Destroy` (dikioperator.go:77) | `DeleteShoot`, `WaitShootGone`, `DeleteSeed`, `WaitSeedGone` |
| deletion of the access Secrets (151) | `DeleteAccess` |
| an error or a deadline returned | `Fail`: the Extension goes back to the queue |

In `Lifecycle`, certificates are named by the CA that signed them; CAs are
numbered in the order in which they are issued. A ManagedResource has a deletion state, `keepObjects`,
the part of its content that a property can tell apart, and `synced`, which says
that `observedGeneration` has reached `generation`.

Assumptions of `Lifecycle` about the surroundings:

- GRM applies a ManagedResource in one step, and computes its health from the
  current state. It removes the objects of a ManagedResource one at a time in
  any order. With `keepObjects` it removes none. A CRD is terminating as long as
  one of its objects has a finalizer.
- A pod becomes ready only with the certificate Secret it mounts, the operator's
  access Secret, and RBAC and CRDs in the shoot. It is replaced when its
  template changes, in one step.
- A webhook with `failurePolicy: Fail` rejects what it guards unless the pod
  serves a certificate of a CA in its bundle.
- Informers have caught up when a handler is invoked; within a handler they may
  lag behind its own writes for any time. A lagging read of the Cluster is the
  same as an earlier read of it.
- The secrets manager keeps a CA as long as the rotation generation in the
  Cluster is the one it was issued for, keeps the previous one as "old", leaves
  it out of the bundle while the rotation completes, and removes it in the
  `Cleanup` of that phase.
- The gardenlet starts and completes rotations on a live Extension only, and
  ends a rotation phase when a handler that read this phase has succeeded. It
  requests Delete and Migrate of a live Extension, a forced deletion also of one
  being deleted or restored, and switches the seed after a finished migration.

Workers:

| Code | Model |
|---|---|
| `AddToManagerWithOptions`, `MaxConcurrentReconciles` (add.go:45, options.go:48) | `Workers`, `Take` |
| a watch event that passes the predicates (add.go:49) | `Event` |
| `nil` or an error returned by the actuator, a deadline of `Wait` or `Destroy` | `Succeed`, `Fail`, `BackoffEnds` |
| the process ends; the next one lists all Extensions | `Restart` |

`failing` holds the Extensions whose handlers cannot succeed at present;
`owed` those with a request not fulfilled, `fresh` those whose request came after
the start of the handler that runs. The queue is the library's; in which order it
hands out what is ready is left open.

Manifests: the operators of `DikiResources` have the names of the methods of
`Component`. An object is a record of what others depend on: the objects and
Secrets it refers to, ports, labels, mounts, rules, bundles. Labels and verbs are
strings that are compared only. In `Rollout`, `at` is what a `Reconcile` does
next: `CreateShoot`, `CreateSeed`, `WaitAndCleanup`. `Reconcile` may start anew
at any time with other `Values`, which covers a handler that fails or crashes
between its writes. `Apply` and `Prune` are one object each, in any order, so the
update of one ManagedResource may be overtaken by that of the other or by the
next update. `StartPod` and `StopPod` are a rolling update that starts the new
pod first; `pods` has the certificates that are served at present. The accounts
in the shoot and the access Secrets exist already.

`Wait` reads the ManagedResources from the informer cache. It passes on the health
that GRM reports (`SeedHealthy`, `ShootHealthy`: everything listed is applied, and
one pod is available, which may be an old one) or, at once, on the healthy version
from before this Reconcile's own write: `stale`. The latter is there only if what
`CreateShoot` or `CreateSeed` replaced was applied; its pod may have been available
a moment ago even if it is not now. A Reconcile that is started later finds a cache
that has caught up.

Process start:

| Code | Model |
|---|---|
| `DikiOptions.Complete`, `Configuration`, `ValidateConfiguration` (app.go:40) | `Complete`, `Readable`, `ValidateConfiguration`, `Reject` |
| `NewOptions` (options.go:33) and the flags | `NewOptions`, `Flag`; variable `options` |
| heartbeat validation (app.go:48) | `ValidateHeartbeat`, `Reject` |
| manager, schemes (app.go:62-86) | `NewManager` |
| configuration, number of workers, the predicate's flag, renewal of the heartbeat (app.go:88-91) | `Apply`; variable `defaults` for the two package variables `DefaultAddOptions` |
| `AddToManager` (app.go:93, add.go:36-52) | `AddToManager(c)`, `Given`; variable `given` for the options the controllers get |
| health checks, `mgr.Start` | `AddChecks`, `Start` |
| any error: `os.Exit` (main.go) | `Fail`, `Exit`: another process starts in the pod |
| the chart's ConfigMap and Deployment (deployment.yaml:22) | `Upgrade`, `SyncVolume`, `Outdated`, `Replace` |

A configuration file is the value of `baseDikiConfig`, or one that cannot be read
or decoded, or none. Of the options for the manager nothing is modelled, of those of
the heartbeat whether there is a namespace and how often it is renewed.

## Runs

Runs of `MCLifecycle`. They use one `ComplianceScan`: nothing relates two scans,
and one is enough to hold a finalizer while the operator goes. They switch the
deadlock check off because the system may stop for good: nothing happens after a
forced deletion, nor after a deletion once `MaxCA` allows no further CA. All other
runs check for deadlock.

| Run | Bounds | Checks |
|---|---|---|
| `lifecycle` | `MaxCA = 2` | order of creation and removal over all handlers and their failures; `IInv` is an invariant. Two CAs give one rotation, or a deletion and a second life. |
| `requests` | `MaxCA = 1`, hibernation may change at any time, a restart may bring another configuration | nothing requested is lost: request and hibernation. There is no rotation; `NoRequestLost` with one is part of `IInv` in `lifecycle`. That a new configuration gets to the operator is not claimed. |
| `rotation` | `MaxCA = 3` | CA, certificate and webhooks over two rotations in a row, which is where an old CA could be pushed out too early |
| `liveness` | `MaxCA = 1`, hibernation may change | operations end |
| `finalizers`, `stale_health`, `base_options` | `MaxCA = 1` | violated: see below |

`MaxCA` bounds `EnableExtension`, `StartRotation` and `GenerateCA`; nothing else
is bounded in the guards. The properties:

- `OperatorOutlivesScans`: Delete removes the operator only after CRDs, RBAC,
  webhooks and scans are gone from the shoot.
- `SecretsOutliveOperator`: unless deletion is forced, the Secrets that the written
  seed objects name exist as long as the seed ManagedResource does
  (`WrittenSecretsExist`), and the certificate that the applied Deployment mounts
  exists (`MountedCertificateExists`), with one exception that does occur: after a
  wait for a stale ManagedResource `Cleanup` deletes the certificate of the old CA,
  which the Deployment mounts until GRM has applied the new one. Two mutants: one
  lets the generation of a certificate replace the one before, one does not wait for
  the health of the seed ManagedResource, so that the Deployment may be two CAs late.
- `DeleteLeavesNothing`: after Delete, in any number of attempts, nothing is left.
- `MigrationKeepsShoot`: migration takes nothing out of the shoot.
- `ImplementsService`: `Lifecycle` implements `DikiService`, with the status
  taken from the request, "operator deployed" from the seed ManagedResource and
  "being worked on" from the finalizers. So whatever fails, scans leave the shoot
  only with a removal, never while one is being worked on, and only a forced
  deletion withdraws the operator before they are gone. A forced deletion may
  still end like an ordinary one, if the Delete that was running when it was
  requested succeeds.
- `NoRequestLost`: an Extension that is neither queued nor handled is up to date
  with the current Cluster (`UpToDate`; the base options are not part of it).
- `WebhookTrust`, `KnownCATrusted`: the written bundle trusts the written
  certificate; the applied webhooks trust a CA the secrets manager has, the current
  or the old one.
- `CAReplacedByRotationOnly`: a CA is dropped by deletion, or else when the written
  and the applied Deployment mount the certificate of the CA after it and the applied
  webhooks trust that, although the waits may have been for stale ManagedResources.
  It does not say that no pod serves with the dropped CA: health does not wait for
  the end of a rollout, and a pod of the Deployment before may be up.
  `DistrustIsTransient` is about these pods.
- `ReconcileConverges`, `DeletionFinishes`, `MigrationFinishes`,
  `ForceDeletionFinishes`: liveness.

The other runs:

| Run | Bounds | Checks |
|---|---|---|
| `workers` | 3 Extensions, 2 workers | the queue. The workers can be blocked by two failing shoots while a third waits, which is the case of interest; with a third worker it could not occur, and a fourth Extension adds nothing but symmetric copies. |
| `rollout` | `MaxCA = 2`, base options or none | references between objects. One rotation, base options set and removed, in any order and overlapping. A second value of the base options triples the states and shows nothing else: they are compared with none only. |
| `distrust` | `MaxCA = 3`, no base options | trust during a rollout, and the refinement of `CARotation`. Two rotations in a row, so that a pod with the certificate of the first CA can meet the bundle of the last. |
| `startup` | 5 configuration files, 10 deployments | the process. Each file and each kind of command line occurs; upgrades go from any to any. |

`MaxCA` bounds `PrepareRotation` in `Rollout`. `workers` and `startup` have no
bound but their sets. Their properties:

- `WorkersInv`, `NoRequestForgotten`: no Extension is handled twice at once; one
  with a request that is not fulfilled is queued, waits for a retry or is handled.
- `ImplementsLoops`: in terms of one Extension, each step of the queue and the
  workers is one of `ReconcileLoop` or a stutter.
- `LoopsArePrompt`, `HealthyServed`: no shoot keeps others waiting for ever, and
  the last request of a shoot that has no problem of its own is fulfilled. They
  depend on the deadlines of `Wait` and `Destroy`: without these, two failing
  shoots would hold two workers for good.
- `ReferencesResolve`: what is written always resolves. What is applied does, too,
  whatever GRM has applied already, but for the base options, because the operator's
  ConfigMap may be applied before or after them; and but for the certificate of a
  Deployment that GRM has still to replace. For `Cleanup` comes after a wait that
  may have been for a stale ManagedResource, and deletes the certificate that the
  old Deployment mounts. Its pod, should it die then, waits for GRM.
- `OptionsFollow`, `OnlyOptionsVanish`: once an update is applied, base options
  are there and named exactly when configured; nothing else is ever pruned.
- `OperatorIsFound`: webhook URL, Service, ports, NetworkPolicy annotations,
  selectors (of the Deployment, the Service and the ServiceMonitor), configuration
  file, mount and DNS names agree.
- `AccountsStayApart`: what the operator and the runner of scans may do. A rule is a
  resource and a verb. API groups are left out: the name of a resource tells its group,
  but for events, which the property does not look at.
- `ImplementsRotation`: `Rollout` implements `CARotation`, with the certificate that
  the Deployment in the cluster mounts and the bundles of the webhook configurations
  in the cluster. So with updates, failures, stale caches and GRM in between, they
  only move on, never back to an older CA; and a CA is introduced only when
  certificate and all bundles have the last one, so that nothing needs the one before.
- `RotationInv`: where what is written and what is applied are in a rotation.
- `DistrustIsTransient`: a webhook distrusts a running pod only while the Deployment
  replaces that pod, or in a rotation while GRM has not applied what is written of
  the webhook or of the certificate. `failurePolicy` is `Fail`, so scans cannot be
  written in that time. All of this does occur: health does not wait for a rollout to
  end, nothing orders the two ManagedResources, and a wait may be for a stale one.
  `TrustReturns`: it ends.
- `StartupInv`, `RunsAsValidated`, `OptionsInForce`: the controllers run with
  options that were validated, all of them or none, and those are what the process
  has completed although the controllers take them from their packages' defaults.
  `ConfigTakesEffect`: what the chart says gets into force, with one exception: see `ConfigTakesEffect` [below](#where-the-code-and-its-documentation-differ).

## Fairness

`Lifecycle`: weak fairness is assumed of the reconcile loop (a queued Extension is
taken), of a running handler (every call has a context, every wait a deadline), of
informers, GRM, kubelet and operator. None is assumed of users, requests or
faults. Liveness is stated for behaviours in which requests and faults cease
(`Quiet`), because a handler that fails for ever never ends; timeouts do not
count as faults there, they are part of the progress of the handlers.

`ExtensionWorkers`: weak fairness of `Return` (every wait has a deadline, every
call an answer) and of `BackoffEnds` (a timer); strong fairness of each Extension
being taken. Weak fairness would not do, as an Extension cannot be taken while no
worker is free; strong fairness says that the queue passes over no Extension for
ever, which holds of a queue in the order of arrival. Liveness is stated for
processes that do not restart for ever. `ChangeHealth` has no fairness.

`Rollout`: weak fairness of the actuator, GRM, and the two steps of the Deployment
controller; `Startup`: of the process, of the kubelet that updates the volume, and
of the Deployment controller. Requests, upgrades and failures have none, and
liveness is stated for behaviours in which they cease.

## Proofs

### Lifecycle

`LifecycleProofs` proves, for every set of scans, every `MaxCA` and every choice
of configurations and hibernation modes, with no assumption but the types of
these constants, that `Spec` implies:

- `[]TypeOK` (`TypeCorrect`), which is inductive on its own;
- `[]IInv` (`Inductive`);
- the six safety invariants (`OperatorOutlivesScansAlways`,
  `SecretsOutliveOperatorAlways`, `DeleteLeavesNothingAlways`,
  `NoRequestLostAlways`, `WebhookTrustAlways`, `KnownCATrustedAlways`);
- the action properties `MigrationKeepsShootAlways` and
  `CAReplacedByRotationOnlyAlways`;
- `ImplementsService` (`ServiceImplemented`, in `LifecycleServiceProofs`): one
  lemma per group of actions shows which step of `DikiService` each is, from
  `IInv`; the rest stutters.

No safety property is inductive: why the operator is not deleted early, say,
depends on which handler can be at which call for which request. `IInv` is a
conjunction of layers. Each is preserved by steps between states of the layers
before it, and has a lemma of its own with one step per action:

1. `HandlerInv`: handler, call, request and queue fit together.
2. `ManagedResourceInv`: how far each ManagedResource is deleted at which call.
3. `SecretsInv`: which Secrets exist at which call, those that the written seed
   objects name among them.
4. `ShootInv`: what has been removed from the shoot at which call.
5. `RotationInv`: the CA follows the rotation that the handler has read, and the
   ManagedResources follow the CA. The Cluster may be at most one phase ahead.
6. `RequestInv`: a handler that no other will follow works on the current Cluster.
7. `TrustInv`: the webhooks in the shoot keep up with the CA although they are
   applied later and awaited through a lagging cache. The key is that a stale
   cache shows the version of the phase before, which already trusts the current
   CA when a rotation completes.
8. `DeploymentInv`: likewise the Deployment in the seed with the CA and its
   certificates. A stale cache at the end of a rotation shows a version that already
   mounts the certificate of the current CA.
9. `MigrationInv`: Migrate deletes only with `keepObjects`.

`WorldStep` says once what the surroundings leave alone.

### Workers

`ExtensionWorkersProofs` proves, for any sets of Extensions and workers and `None`
outside of the former, `[]WorkersInv` (`WorkersInvariant`), `[]NoRequestForgotten`
and `ImplementsLoops` (`LoopsImplemented`). `WorkersInv` is inductive: that no
Extension has two handlers needs `Take` to look at what is handled, and that
`owed` is the union of what is ready, delayed and handled needs to know that an
Extension in `fresh` that is being handled is ready as well, and the reverse.

### Rollout

`RolloutProofs` proves, for any `MaxCA > 0`, `Namespace` and base options, every
property of the two runs but the liveness property. Two invariants hold without
regard to the rotation:

- `ListingInv`: which objects the bundles list and the clusters have does not depend
  on the `Values`, the base options aside. Hence `OnlyOptionsVanish`
  (`OnlyOptionsEverVanish`).
- `WrittenInv` (`WrittenInvariant`): each bundle is rendered for some `Values`, of
  which the Secrets are kept, and if a Reconcile is waiting or done, the seed's
  is rendered for its `Values`; every single object in the clusters is rendered for
  some `Values`. It is inductive, and all that remains to show is what holds of
  objects from any mixture of `Values`; the lemmas of `ResourcesProofs` say that,
  object by object. Hence `[]ReferencesResolve` (`ReferencesAlwaysResolve`),
  `[]OptionsFollow` (`OptionsAlwaysFollow`), `[]OperatorIsFound`
  (`OperatorAlwaysFound`) and `[]AccountsStayApart` (`AccountsAlwaysApart`).

`[]RotationInv` (`RotationInvariant`) is inductive with `ListingInv`. It has one lemma
per action. Its parts:

- `BundlesInv`: what is written of the webhooks is of this phase, or of the phase
  before as long as this phase has not written it; what is applied is not newer, and
  not older than the rotation before.
- `CertificateInv`: likewise for the certificate. The one applied is not newer than
  the one written, or else GRM could go back.
- `CompletionInv`: at the end of a rotation, everything applied has left the CA
  before. That is where the stale caches matter. A wait may be for a stale
  ManagedResource in every phase; but stale means that what the phase before has
  written was applied when this phase overwrote it. So each phase of a rotation,
  once a Reconcile has succeeded in it, has at least the phase before applied, and
  the two phases together have moved everything to the new CA.

From it follow `[]DistrustIsTransient` (`DistrustAlwaysTransient`) and, with
`WrittenInv`, `ImplementsRotation` (`RotationImplemented`): `PrepareRotation` is
`Introduce`, because of `CompletionInv`; `Apply` of the Deployment is `Deploy` or
stutters; `Apply` of a webhook configuration is `Distribute`, in the order of
`BundlesInv`; all else stutters.

### Start

`StartupProofs` proves, for any files and deployments, `[]StartupInv`, which is
inductive, and from it `[]RunsAsValidated` and `[]OptionsInForce`. `StartupInv`
adds to these which steps come before which, and how what a process has read
relates to the pod it runs in.

### Only model-checked

All liveness properties (`ReconcileConverges`, `DeletionFinishes`,
`MigrationFinishes`, `ForceDeletionFinishes`, `LoopsArePrompt`, `HealthyServed`,
`TrustReturns`, `ConfigTakesEffect`): proofs under fairness need `ENABLED`, which
the prover does not support. Every other property that a run finds to hold has a
theorem. The three properties that are violated have none, of course.

## Where the code and its documentation differ

- `OperatorHandlesFinalizers`. The comment on `Destroy` promises that the
  operator can handle finalizers before it is removed. It is still running then,
  but the shoot ManagedResource also lists its RBAC, and may lose that first.
  Delete is then stuck on the scan. That depends on the order in which GRM
  removes the objects of one ManagedResource, which this repository does not fix.
- `WaitSeesNewContent`. `Wait` promises healthy ManagedResources but may look at
  cached versions from before `Deploy`. The proofs show that no Secret is lost that
  what is written names, and that a CA is dropped only after the applied Deployment
  and webhooks have moved on (`CAReplacedByRotationOnly`). But the success reported
  may be early, and the certificate that the applied Deployment mounts may be deleted
  before GRM has applied the new one: the exceptions in `SecretsOutliveOperator` and
  `ReferencesResolve`.
- `BaseOptionsReachOperator`. Base options are said to apply to all scans; an
  operator that was running when they were configured for the first time is not
  restarted, and its configuration names them only in a file it has already read.

- `ConfigTakesEffect`. The checksum of the configuration in the pod template is to
  restart the process when its configuration changes. The ConfigMap keeps its
  name, so a process that restarts while an upgrade is on its way may read the new
  file in the old pod; if the chart is then rolled back, the checksum matches and
  no pod is replaced. The property excepts such a process (`early`).

The first three are runs that TLC finds violated; the last one is an exception in
a property that holds.

## What is not modelled

- Of the manifests: resource requests, security contexts, priorities, update
  modes, and the schema of the CRDs, which are static and which nothing refers to.
- The image vector: an embedded file and an environment variable, read once when
  the package is initialised.
- Of the chart: RBAC, VPA, PDB, NetworkPolicies; the examples. They are static.
- Generated code (API conversion, defaulting, deep copies, CRDs), and the scheme
  registration. Library code: the heartbeat controller, the generic reconciler,
  the secrets manager and `managedresources` are modelled as far as this code
  relies on them.
- `Rollout` starts from an extension that was reconciled once: the order in which
  objects are created for the first time multiplies the states beyond reach, and
  `Lifecycle` has the first Reconcile. Deletion and migration are in `Lifecycle`
  only.
- `Startup` looks at the newest pod only; with leader election, an older one may
  still be the leader for a while, with its own configuration.
- Deletion of an Extension that is still being restored, which the gardenlet does
  not request.
- The renewal of a certificate towards the end of its validity, without a rotation.
