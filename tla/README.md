# Kubegres: models, model checking and proofs

Kubegres is a Kubernetes operator that keeps a cluster of PostgreSQL instances:
one primary and its replicas, each instance a StatefulSet with one pod. This
directory holds TLA+ models of the operator, the TLC configurations that check
them on small instances, and TLAPS proofs of the properties that matter most for
every instance. Paths below are relative to the repository, and `controllers/` is
where nearly all of the operator lives.

## The system

A change of a Kubegres resource, of an owned StatefulSet or Service, an error or a
delay asked for earlier makes the controller manager call `Reconcile`
(`controllers/kubegres_controller.go`). One reconciliation

1. reads the Kubegres resource and every resource it owns (`states/`),
2. loads the *blocking operation* kept in the status (`operation/`) and returns at
   once if it still has time left,
3. checks the spec (`spec/checker`),
4. runs the enforcers of the resource counts, in this order: base config map,
   StatefulSets (primary, then replicas), services, back-up cron job
   (`spec/enforcer/resources_count_spec`),
5. runs the enforcers of the StatefulSets' spec (`spec/enforcer/statefulset_spec`),
6. writes the status, if anything in it was set (`ctx/status`).

Only one reconciliation of a resource runs at a time. What makes the operator hard
to get right is everything that does not wait for it: pods fail and recover, users
delete StatefulSets and edit the resource, calls to the API server fail, and the
status is written last, after the cluster was changed. What an enforcer has started
is remembered only in the status.

### Inventory

| Part | Source | Models | State |
| --- | --- | --- | --- |
| Blocking operation | `operation/` | `BlockingOperation`, `BlockingOperationLifecycle` | modelled |
| Status wrapper | `ctx/status` | `BlockingOperation`, `KubegresCluster` | modelled |
| Primary count enforcer | `.../PrimaryDbCountSpecEnforcer.go` | `PrimaryDbCount` | modelled |
| Fail-over | `.../failover/PrimaryToReplicaFailOver.go` | `PrimaryDbCount`, `PodTemplates` | modelled |
| Replica count enforcer | `.../ReplicaDbCountSpecEnforcer.go` | `ReplicaDbCount` | modelled |
| Resource count enforcement | `.../StatefulSetCountSpecEnforcer.go`, `ResourcesCountSpecEnforcer.go` | `StatefulSetCount`, `Kubegres`, `ResourcesCount` | modelled |
| Reconciliation loop | `kubegres_controller.go`, `ctx/resources` | the same, `KubegresCluster` | modelled |
| StatefulSet and pod states | `states/statefulset` | `KubegresCluster`, `PodTemplates` | modelled |
| StatefulSet spec enforcement | `.../AllStatefulSetsSpecEnforcer.go`, `StatefulSetsSpecEnforcer.go` | `StatefulSetsSpec` | modelled |
| Enforcers of image, port, custom config | `spec/enforcer/statefulset_spec`, `comparator` | `PodTemplates`, `StatefulSetsSpec` | modelled |
| Enforcers of copied fields | `spec/enforcer/statefulset_spec` | | not modelled |
| Services enforcer | `.../ServicesCountSpecEnforcer.go` | `ServicesCount` | modelled |
| Base config map, back-up | `.../BaseConfigMapCountSpecEnforcer.go`, `BackUpCronJobCountSpecEnforcer.go` | `ResourcesCount` | modelled |
| States of the other resources | `states/` | `ConfigStates`, `ClusterResources` | modelled |
| Spec checker and defaults | `spec/checker`, `spec/defaultspec` | `ClusterResources` | partly |
| Resources from templates | `spec/template` | `ConfigStates`, `PodTemplates`, `ResourcesCount` | partly |
| Generated code, logging, start-up | | | not modelled |

`PROJECT.json` has the same list with the reasons, the source lines of each
definition, and the hazards the code is exposed to with the properties about them.

## Modules

### BlockingOperation

The methods of the Go struct as operators on a record `mem`: the two operations of
the struct (`active`, `previous`), the two status fields they are copied to
(`blocking`, `previousBlocking`) and whether the status has to be written
(`changed`). The table of configs is `OperationIdOf`, `StepsWithCompletionChecker`
and `StepsMovingToTransition`. A deadline is the number of ticks left before it,
and `Elapse` lets one pass. That an operation has timed out is only written to
`active`, as in the code, so that it is found out again by each reconciliation.

### BlockingOperationLifecycle

The operation over many reconciliations: `Load`, any sequence of `Activate` and
`Remove` by the enforcers, `SaveStatus`, or `LoseStatus` when the update is refused
or the process stops. The completion checkers answer anything.

### KubegresCluster

The state outside the operator and the two ends of a reconciliation.

| Variable | Stands for |
| --- | --- |
| `spec`, `status` | the Kubegres resource in the API server |
| `sts` | the owned StatefulSets by instance index: role, and state of the pod |
| `pvcs` | the instances whose volume claim exists |
| `lastPrimary` | history: the instance last given the primary role |
| `pc` | where the reconciliation is: idle, primary, replica, services, specs, save |
| `mem`, `seen` | what the reconciliation holds: the resource and the operation, the StatefulSets as listed |
| `outdated` | the resource was edited since it was read |
| `budget` | how many disruptions may still happen |

`Load` lists the StatefulSets into `seen`; everything later is decided on `seen`
and `mem` and done to `sts`, which may have changed. `LoadFails` is the error
return on two primaries. A StatefulSet is ready when its pod is. An update of a
StatefulSet or of the resource is refused when it changed since it was read. The
outcomes of a failing call, a crash and every change by a user or a node are
*disruptions*: the constant `Disruptions` says which may happen and
`MaxDisruptions` how many.

### PrimaryDbCount, ReplicaDbCount, StatefulSetCount

Each enforcer is a set of actions, one per way through its `Enforce`, each action
with all the calls made on that way and their outcomes:

| Action | Code |
| --- | --- |
| `PrimaryUnchanged` | the early returns of `PrimaryDbCountSpecEnforcer.Enforce`, and timed-out attempts |
| `FailOverRefused` | `FailOver`: the requested replica is not ready |
| `waitBeforePromotingReplicaToPrimary` | first step of the fail-over, with `deletePrimaryStatefulSet` |
| `promoteReplicaToPrimary` | second step of the fail-over |
| `deployNewPrimaryStatefulSet` | the same, with `getLastDeployedPrimaryPvc` |
| `deployReplicaStatefulSet`, `undeployReplicaStatefulSets` | the same, with `resetInSpecManualFailover` |
| `ReplicasUnchanged`, `ReplicasSkipped` | the other returns of `ReplicaDbCountSpecEnforcer.Enforce` |

`StatefulSetCount` composes them. An error of the primary enforcer skips the
replica enforcer, as in `StatefulSetCountSpecEnforcer.EnforceSpec`.
`resetInSpecManualFailover` updates the Kubegres resource in mid-reconciliation;
the client then decodes the answer into the object it sent, so stored status
fields replace the ones in memory (`decodedStatus`, external).

### InstanceRoles

What the count of instances promises, without operations and reconciliations: the
instances that hold the primary role and those that follow. A primary is created
only in an empty cluster, a follower is promoted only when there is no primary, and a
primary never becomes a follower. `StatefulSetCount` implements it with
`holders <- primaries(sts)` and `followers <- replicas(sts)` (`InstanceRolesAreKept`).

### ConfigStates

The config files, each of which comes from the custom config map if that one is
deployed and holds it, and otherwise from the base config map (`ConfigLocations`), and the
mounts of a StatefulSet as `CustomConfigSpecHelper` and the promotion write them.

### PodTemplates, ServicesCount, StatefulSetsSpec, Kubegres

The count of instances together with what the instances run.

| Variable | Stands for |
| --- | --- |
| `wanted` | the fields of the spec that go into the pods: image, port, config map |
| `deployed`, `mounts` | the template of each StatefulSet, and the volume of each file it mounts |
| `running` | the template the pod of each was created from |
| `stuck` | the instances whose pod is stuck |
| `services` | the port of the service of each role, 0 if there is none |
| `view` | what this reconciliation has read of all these |

`PodTemplates` says what each step of `StatefulSetCount` does to the templates, and
what Kubernetes does (external): it replaces the ready pod of a changed
StatefulSet, leaves an unready one alone, and creates no pod whose mounts lack a volume.
`StatefulSetsSpec` has one action for each way through the loop of
`AllStatefulSetsSpecEnforcer.EnforceSpec`:

| Action | Code |
| --- | --- |
| `SpecsUnchanged` | the early returns, and a loop that finds nothing to do |
| `SpecEnforcementTimedOut` | the timed-out attempt, kept or removed |
| `enforceSpec` | the same: operation, update, and its removal on an error |
| `handleWhenStuckPod` | the same: the pod is deleted |
| `handleWhenPodSpecNotUpToDateOrNotReady` | the same |
| `OnSpecUpdatedSuccessfully` | the end of `verifySpecEnforcementIsAppliedToPod`, with the deletion of an outdated service |

The loop needs no variable: an iteration that changes something without returning
(a removed operation) leaves the action enabled for the next StatefulSet, and what makes it
stop at a StatefulSet does not appear behind it. `Kubegres` composes the count of the
instances, the services and the spec enforcement in the order of the code.

### ClusterResources, ResourcesCount

The count of instances together with config maps, storage and back-up: a second
composition, since neither part depends on the templates of the pods.

| Variable | Stands for |
| --- | --- |
| `asked` | the fields of the spec about these resources, 0 for an undefined one |
| `owned` | the config maps, storage classes and claims for back-ups there are |
| `cronJob` | the cron job of the back-up |
| `storage` | the storage of each StatefulSet: volume mount, class and size are one value |
| `stage` | how far a reconciliation is before the instances are enforced |
| `read` | what it has read of all these |

A reconciliation sets the defaults (`SetDefaultForUndefinedSpecValues`), reads the
resources, checks the spec (`CheckSpec`, which rolls back a storage other than that of a
ready primary and updates the resource in mid-reconciliation), deploys the base
config map, runs the enforcers of the instances and ends with `EnforceBackUp`. A fatal
error of the check ends it before the enforcers.

### Proof modules

Each extends those it builds on; what they prove is below.

| Module | About |
| --- | --- |
| `BlockingOperationLifecycleProofs` | the lifecycle |
| `StatefulSetCountProofs` | types, the one primary, the refinement of the roles, promotions and deletions under any disruptions; the lemmas on what each enforcer does to memory and StatefulSets |
| `StatusCountersProofs` | the two counters of the status, and the disabled fail-over |
| `KubegresProofs` | the composition with templates and services |
| `PodUpdatesProofs`, `HeldReplicaProofs` | lemmas on a replica that is held back in that composition: the steps of Kubernetes, pods, users and time, and those of a reconciliation |
| `SpecUpdatesProofs` | how far a changed spec gets in that composition, and its counters |
| `ResourcesCountProofs` | the composition with config maps, storage and back-up |

The lemmas of the count are stated for any set of spec differences that an operation may
carry and for any answer of a completion checker, so that both compositions use them.

## Runs

The time-outs are one tick for waits and two for deployments, updates and fail-overs, so
that a reconciliation can find an operation running with time left, completed, and timed
out.

| Run | Module | Checks | Shows |
| --- | --- | --- | --- |
| lifecycle | `MCBlockingOperationLifecycle` | `TypeOK`, `TransitionRemembersItsStep`, `OnlyTheWaitTimesOutIntoTransition`, `EnforcementIsReachedAgain` | the record of the operation is coherent whatever is lost, and the operator is never blocked for ever |
| safety | `MCStatefulSetCount` | `TypeOK`, `OnlyOnePrimary`, `NewIndexesAreFresh`, `EnforcedReplicasCoverDeployed`, `InstanceRolesAreKept` | one primary, counters in the status that agree with the cluster, and the abstract roles, under any two disruptions that lose no status, no claim and no deletion of a primary |
| converges | `MCStatefulSetCount` | `ConvergesToSpec` | after failing pods and calls, scaling and requested promotions the cluster of the spec is reached and kept |
| replicas | `MCStatefulSetCount` | `ReadyPrimaryGetsItsReplicas`, `NoReplicaIsReplacedWhenDisabled` | a ready primary gets its replicas, also when StatefulSets are deleted, and a deleted replica is not replaced while the fail-over is disabled |
| failures | `MCStatefulSetCount` | `PromotionFollowsWait`, `LastReadyIsKeptUnlessStale` | a promotion follows its wait, and the operator deletes the last ready instance only if one it had listed as ready failed after that, with up to three instances and any two disruptions at all, crashes and lost statuses included |
| all_enforcers | `MCKubegres` (`Kubegres_failures.cfg`) | `AllTypeOK`, `PromotionFollowsWait`, `ChangesRestOnACompleteList`, `TemplatesFollowTheOrder` | in the whole reconciliation, where the spec enforcement keeps operations of its own and deletes pods, with pods that get stuck, go missing or are slow: a promotion follows its wait, no enforcer acts on a list that another one of the same reconciliation has made incomplete, and templates reach the StatefulSets in order |
| specs | `MCKubegres` | `OnlyOnePrimary`, `MountsHaveVolumes`, `UpdatesFollowTheOrder`, `BrokenImageStopsAtReplicas`, `SpecIsApplied`, `ReadyRolesAreServed` | a changed spec goes through the instances in order and reaches all of them, a broken image stops at a replica, mounts keep their volumes, and services come back |
| resources | `MCResourcesCount` | `ResourcesTypeOK`, `InstancesWaitForBaseConfig`, `ReplicasShareStorage`, `StorageChangeIsUndone`, `CronJobIsCurrent`, `BaseConfigIsRestored` | instances wait for the base config map, replicas get the storage of the primary, and a changed storage, a changed or lost cron job and a lost base config map are put right |

### Where the code does otherwise

These runs end in a counterexample. Each contradicts a comment, a message, a test or the
README of the repository, quoted in `PROJECT.json`.

| Run | What happens |
| --- | --- |
| edited_meanwhile | The user edits the resource while a replica is promoted, so the status is refused. The promoted pod restarts, and the next reconciliation, which still finds the end of the wait, promotes a second replica. |
| wrong_claim | A cluster is scaled down to one instance, and its primary is deleted. The primary is created again on the claim of the last created instance, a former replica. |
| failover_blocked | The StatefulSet of the primary is deleted while its spec is being updated. The spec enforcer returns early without a ready primary, its operation stays active, and the fail-over waits for it for ever. |
| spec_spreads | A stuck pod of a replica is deleted. While it is missing it counts as not stuck, and the next operation is activated for instance 0, which does not exist; when that one has timed out, the broken spec goes on to the primary. |

### More behaviours the models show

The same models reach these with other disruptions. No run is kept for them; the
hazards in `PROJECT.json` name the lines.

- A cluster is scaled from two instances to one, and the pod of the primary fails after the
  StatefulSets were listed: the replica that is deleted was the last ready instance. It is
  what `LastReadyIsKeptUnlessStale` exempts; the primary starts again (`ConvergesToSpec`).
- The deletion of a failing primary fails, the error is dropped and a replica is promoted
  beside it (`OnlyOnePrimary` with `deletePrimaryFails` and `podFails`).
- A single primary is deleted with its claim: the new one takes the next index
  without recording it, and after scaling up the replica that is given the same index is
  never created (`ReadyPrimaryGetsItsReplicas` with `scale`, `deleteStatefulSet`, `deletePvc`).
- The only replica of a standby cluster fails and is undeployed, the cluster is made a
  normal one and scaled up: the new primary takes the next index without recording it, and
  the replica after it gets the same (`NewIndexesAreFresh` with `podFails`, `toggleStandby`
  and `scale`: three disruptions).
- With the automatic fail-over disabled, a replica that is not ready is replaced
  (`NoReplicaIsReplacedWhenDisabled` with `podFails`).
- The promoted primary is deleted before its fail-over completed, and the ready
  replica is never promoted: the timed-out fail-over is only removed when the primary is
  ready (`LostPrimaryIsReplaced` with `podFails` and `deleteStatefulSet`).
- A crash after a promotion, before the status is saved, leaves the transition of the
  wait as the active operation for ever: the primary is ready, and the replica that was
  promoted is never replaced (`ReadyPrimaryGetsItsReplicas` with `deleteStatefulSet`, `crash`).
- The promotion script is mounted from the volume of the custom config of the
  current spec; the StatefulSet may not have that volume, or loses it when the config is
  taken back, and its pod cannot be created (`MountsHaveVolumes` with `MCPromotionData`,
  `changeTemplate` and `podFails`).
- A broken image is asked for, taken back and asked for again while the operation of its
  first update runs. The replica has the image already, so the timed-out operation no longer
  has the differences of now and is removed, and the loop goes on to the primary
  (`BrokenImageStopsAtReplicas` with three `changeTemplate`). In the same way an instance is
  updated before the pod of the one before it (`UpdatesFollowTheOrder` with three
  `changeTemplate` and three instances, or four and two).
- A stuck pod whose deletion fails, with a disabled fail-over and a deleted StatefulSet, is
  no longer verified (`UpdatesFollowTheOrder` with `deletePodFails` and five other disruptions).
- A port changed during a fail-over leaves the service of the other role on the old
  port, and so does a deletion of the service that fails.

A status that is lost after an instance was created also makes the next replica get an
index in use (`Disruptions = {"scale", "editWhileReconciling"}` shows it).

### Bounds

- `Replicas`: up to three instances, the smallest cluster in which a fail-over has a
  choice of replicas and leaves one behind. `all_enforcers` has two, with every disruption there
  is, and `resources` up to two, since its questions are about one primary and one replica.
- `MaxDisruptions`: two (three in `replicas`: the fail-over is disabled, a replica
  deleted, and something else). Each run above that ends in a counterexample takes two; two
  cover a failure during the recovery from another. Instance indexes are bounded only
  through this number. In `specs` two is more than a bound: what returning to an earlier
  template does, which takes three changes, is above and is a condition of the two
  theorems on the updates. The theorems have no such bound.
- `Templates`: a working template, one that differs in port and config map, and one with
  a broken image; `ConfigData`: one custom config map, with the file the question is about.
- `Storages`, `BackUps`: two storages; back-ups that differ in schedule, mount and claim,
  and none.
- `SpecSettle`: one tick for the 10 seconds of `isStatefulSetSpecUpdated`.
- `FailOverSettle`: one tick for the 40 seconds of `isFailOverCompleted`, half of
  the time-out of the step, so that a fail-over can complete at once or too late.
- `lifecycle`: one instance index, told apart from the index 0 of no operation. That
  operations on different instances are not confused rests on
  `TransitionIsRemembered`, proved for any set of indexes. Nothing else is bounded there.

No symmetry is used: indexes are ordered. Deadlock is checked in every run.

### Which disruptions are left out of a passing run

`safety` leaves out a failed deletion of the primary, a refused status, a crash and
an edit in mid-reconciliation: each of them alone, with a failing pod, breaks
`OnlyOnePrimary` (`edited_meanwhile` shows one). It also leaves out what makes a
primary start on a new claim, which breaks `NewIndexesAreFresh`. The liveness
runs leave out what the findings show to block the operator, and `ConvergesToSpec` also the
deletion of StatefulSets, since a cluster of several instances that lost all of
them is not deployed again, by design of `shouldWeDeployNewPrimaryDb`.
`replicas` has no failing pods, for the reason given above. `specs` leaves out the
stuck pods of `spec_spreads`, the deleted StatefulSets of `failover_blocked`, a promotion
script in the custom config and lost statuses, after which an
update is not verified. A pod that can get ready does so before a spec operation of 300
seconds times out, unless `slowPods` is a disruption (in `all_enforcers`).

In `resources`, crashes and edits in mid-reconciliation are included; the three
liveness properties say themselves what they exempt: a fatal spec error, which
disables everything until the user mends it, an active operation for the base config map,
a missing default storage class for the storage, and an instance whose creation was not
saved for the cron job.

### Fairness

Weak fairness of the reconciliation: it is requested again by the events of the
watched resources, by returned errors, by the requeue delay while an operation has
time left, and by the resync of the watches. The controller watches StatefulSets and
services only, so what becomes of a config map or of a cron job is noticed at the
resync at the latest. Weak fairness of time. Weak fairness of the pods' progress: a pod
that is neither failed nor lost is eventually started, replaced and, unless its image is
broken or a volume or config map it mounts is missing, ready, without which no operator
could converge. Nothing is assumed of users, of failures or of which outcome a call has;
there are finitely many disruptions in a behaviour.

## Proofs

The theorems hold for all instance indexes and numbers of replicas, all positive
time-outs, all templates, config maps, storages and back-ups, and any number of disruptions,
from the named assumptions on the constants (`TimeOutAssumption`, `IndexesAssumption`,
`ClusterAssumption` and those of `ConfigStates`, `PodTemplates` and `ClusterResources`). Some
of them exclude kinds of disruption, by a condition on the constant `Disruptions`
(`NoCustomPromotion` is one on `ConfigData`, `PodsAreInTime` also one on a time-out, and
`NoEarlyReturn` one on the behaviour):

| Condition | Excludes | Why |
| --- | --- | --- |
| `NothingIsLost` | a failed deletion of a primary, a refused status, a crash, an edit in mid-reconciliation | each breaks `OnlyOnePrimary`, see `edited_meanwhile` |
| `StatusIsSaved` | the last three | an instance that the status does not count |
| `ClaimsAreKept` | a deleted or unreadable claim, standby clusters | a primary on a new index that is not recorded |
| `PodsAndSpecStay` | failing and lost pods, scaling | a replica that is not ready is replaced, and so is one after the cluster was made smaller |
| `NoCustomPromotion` | a promotion script in a custom config map | a mount without its volume |
| `PodsAreInTime` | slow pods, and a delay before a spec counts as updated (`SpecSettle`) that is not below the time-out of an update (10 and 300 seconds in the code) | an operation times out although its pod would have been verified |
| `PodsStay({})` | a deletion of a stuck pod that fails | the pod stays as it is, and other operations take over |
| `PodsStay(BrokenImages)` | lost, missing and stuck pods | their operation ends while the image is still broken, see `spec_spreads` |
| `NoEarlyReturn(B)` | a change of the spec to a template that a replica has and its pod does not run, or whose image is in `B` | the replica shows no difference, and its operation is removed |

None can be dropped altogether: for each of these kinds, and for a larger `SpecSettle`, TLC
finds a counterexample to a property that a theorem states under the condition, with at most
three disruptions but for `deletePodFails` and the returns (see above).

| Theorem | States | Condition |
| --- | --- | --- |
| `LifecycleTypeCorrect`, `TransitionIsRemembered`, `OnlyTheWaitTimesOut` | the three safety properties of the lifecycle | |
| `TypeCorrect`, `AllTypeCorrect`, `ResourcesTypeCorrect` | the type invariant of the count and of each composition | |
| `PromotionFollowsTheWait`, `PromotionFollowsTheWaitOfAll`, `PromotionFollowsTheWaitWithResources` | `PromotionFollowsWait` of the three | |
| `LastReadyIsAlwaysKeptUnlessStale`, `AllKeepTheLastReadyUnlessStale`, `ResourcesKeepTheLastReadyUnlessStale` | `LastReadyIsKeptUnlessStale` of the three | |
| `ChangesAlwaysRestOnACompleteList` | `ChangesRestOnACompleteList` | |
| `OnlyOnePrimaryUnlessLost`, `AllOnlyOnePrimaryUnlessLost`, `ResourcesOnlyOnePrimaryUnlessLost` | `OnlyOnePrimary` of the three | `NothingIsLost` |
| `OperatorImplementsInstanceRoles`, `AllImplementsInstanceRoles`, `ResourcesImplementInstanceRoles` | `InstanceRolesAreKept` of the three | `NothingIsLost` |
| `EnforcedReplicasCover`, `AllEnforcedReplicasCover` | `EnforcedReplicasCoverDeployed` of the count and with all enforcers | `StatusIsSaved` |
| `NewIndexesStayFresh`, `AllNewIndexesStayFresh` | `NewIndexesAreFresh` of the two | `StatusIsSaved`, `ClaimsAreKept` |
| `NoReplicaIsEverReplacedWhenDisabled` | `NoReplicaIsReplacedWhenDisabled` | `StatusIsSaved`, `PodsAndSpecStay` |
| `MountsAlwaysHaveVolumes` | `MountsHaveVolumes` | `NoCustomPromotion` |
| `TemplatesAlwaysFollowTheOrder` | `TemplatesFollowTheOrder` | |
| `UpdatesAlwaysFollowTheOrder` | `UpdatesFollowTheOrder` | `StatusIsSaved`, `PodsAreInTime`, `PodsStay({})`, `NoEarlyReturn({})` |
| `BrokenImagesAlwaysStopAtReplicas` | `BrokenImageStopsAtReplicas` | `StatusIsSaved`, `PodsAreInTime`, `PodsStay(BrokenImages)`, `NoEarlyReturn(BrokenImages)` |
| `InstancesAlwaysWaitForBaseConfig` | `InstancesWaitForBaseConfig` | |
| `ReplicasAlwaysShareStorage` | `ReplicasShareStorage` | |

### The arguments

*Lifecycle.* The coherence of transition and previous operation must hold of the stored
pair, of the pair in the struct and of the pair in the in-memory status, since each is
copied to another; and an operation's id must be the one of its step, or an enforcer could
activate a step under the id of another operation. The inductive invariant `IInv`
says this of all three pairs.

*Only one primary.* `OnlyOnePrimary` is not inductive: a promotion makes a primary,
and nothing in its guard looks at the StatefulSets as they are. `OnePrimaryInv` adds
what makes it safe. During the wait and in the transition after it there is no
primary, because the one that failed was deleted when the wait was activated and
only the operation itself can make another; this must be said of the stored
operation while the operator is idle, and of the operation in memory while it runs.
And a primary in `sts` is one that was listed in `seen`, unless this
reconciliation made it. Each of the four disruptions that the theorem excludes breaks
this link between the status and the cluster.

*Roles.* The refinement needs one more invariant, `SeenInv`: until the primary enforcer is done,
every instance there is was listed, in its role, because only the operator
creates StatefulSets. So a primary that is created because none and no replica was listed
is created in an empty cluster. A promotion finds no primary by `OnePrimaryInv`. Every
step of the environment, of time and of the other branches only takes instances
away, and is a `Departure` or a stutter.

*Promotions and deletions.* A promotion is decided on memory and the property is about the
status, which may have been lost or overwritten. `WaitInv` says that what a reconciliation
takes for the end of the wait is in the status, with no time left. Its difficult part is the
answer to an update of the resource, which is decoded over the operation in memory: it could
give time to an operation in transition. It does not, because the replica enforcer, which
sends that update, runs only when the operation in memory has no time left or is its
own. That a deletion leaves a ready instance, unless the list is out of date, follows from
the guards: a primary is deleted for a replica that was listed as ready, a replica beside a
primary that was, and what is left keeps its pod.

*The list.* The enforcers share one list, made when the reconciliation starts. By `ListInv` it
misses an instance, or its new role, only while the operation of the enforcer who created or
promoted it is the active one, which keeps those that follow from acting: the replica enforcer
returns early with an operation on the primary, the spec enforcement with either. The step that
matters is the replica enforcer after an early return: it must not remove the operation.

*Counters.* `CoverInv` says that memory counts at least the instances there are, that a
count which differs from the status will be saved, and that the replica enforcer, whose
update has the stored counters decoded over those in memory, does not run after a primary
was counted. `FreshInv` adds what makes the next index new although a primary that is
deployed again does not advance it: the claim of the last index exists and a primary was
counted, so the primary is created on that claim.

*Disabled fail-over.* Whether a replica may be deployed depends on `enforcedReplicas`, which
an undeployment lowers. `DisabledInv` says that a replica that is not ready is the one that
the operation says is being deployed, in memory and in the status; as long as the operation
is there, the enforcer deploys and undeploys nothing. So only one of too many replicas is
undeployed, and by `CoverInv` as many as the spec asks for stay enforced. While fewer are,
every one was given the next index, and the last index is at most their number.

*Compositions.* `Aside` and `Beside` state all that the other enforcers and the changes of
templates and resources do to the instances and to the operation: they give no role, and they
replace only an operation of their own. Every step is such a step or one of the count,
so the invariants above are inductive here as well. The spec check of
`ResourcesCount` is the exception: its update has the status decoded over the memory,
which is harmless only because the memory still holds what was loaded (`BaseInv`).

*Mounts.* `MountsInv` is stronger than `MountsHaveVolumes`: a file is mounted from the custom
volume only if the template names a custom config map, and the promotion script always
from the base one, since no update ever moves that mount.

*Order of the updates.* The loop decides on the templates that were listed. `OrderInv` says
that a StatefulSet that was listed and still exists has the template that was listed or
the wanted one, so a difference that is not found is not there.

*Updates and pods.* That a template was updated says nothing of the pod, and the loop starts
again from the last instance on every reconciliation: what makes it stop is the one operation
in the status. A replica is *held back* if it has the wanted template and its pod does not
run it, or, for broken images, cannot or does not exist. `HeldInv` says that the operation, in
memory and until memory is saved in the status, is about the replica held back: it deploys it, or verifies it
with time left or as a timed-out attempt without differences, and then every replica before it has the
template. Since there is one operation, there is one such replica. `DecidesInv` says the
same of what was read, in the form in which the enforcers find it: an operation that makes
`EnforceSpec` return at that replica. So an update happens only when no replica that was
listed is held back. It takes that a reconciliation reads the spec that is wanted and all
replicas that are without it, at most one primary and no ready pod with a broken image
(`ReadInv`), that a pod that does not exist will run its template (`PodsInv`), that no
pod is stuck where none gets stuck (`StuckInv`), and that a replica mounts what its template
provides, so that its pod can get ready in time (`ReplicaMountsInv`). TLC confirmed the
invariant first, on clusters of two with any three disruptions that the conditions allow.

*Base config map, storage.* `BaseInv`: a reconciliation that reaches the instances has found
the config map, has found an operation in the status, or holds the operation of the
config map, which keeps both enforcers from working. `StorageInv`: at most one primary was
listed, and once the spec was checked its storage is the one new instances get.

### Only model-checked

- Liveness (`EnforcementIsReachedAgain`, `ConvergesToSpec`, `ReadyPrimaryGetsItsReplicas`,
  `LostPrimaryIsReplaced`, `SpecIsApplied`, `ReadyRolesAreServed`, `StorageChangeIsUndone`,
  `CronJobIsCurrent`, `BaseConfigIsRestored`) is out of the prover's reach.
- `PrimaryIsRecreatedOnItsClaim` does not hold (`wrong_claim`).

## Not modelled, and abstractions

- The enforcers of the fields that are only compared and copied (affinity, tolerations,
  resources, volumes, security context, probes, service account, stand-by endpoint, custom
  metadata): for the loop that calls them they are one with the custom config. The
  comparison of deep structures is data. The enforcer of the storage size never finds
  a difference (its comparison is commented out), so its update of the claim never runs.
  Custom metadata are merged and never removed, so one that is taken back stays a
  difference: in the templates of the model every difference can be enforced.
- In the spec checker: environment variables, reserved names and volume claim templates, which
  refuse a spec in the same way as the checks that are modelled. The three fields that are
  rolled back are one storage.
- The cron job has the fields that `hasSpecChanged` compares, and not its image.
- The two compositions are checked apart: pod templates and services in one, config
  maps, storage and back-up in the other. They share the blocking operation, of which
  both have the operations of the instances.
- A reconciliation sees the latest resources when it starts, all at one moment; only the
  spec check of `ClusterResources` reads the pods after the StatefulSets. The cache of the client may lag; the code sleeps one second
  against it (`getDeployedKubegresResource`).
- Loading an operation reads the clock twice, to see whether it timed out and to see how much
  time is left (`hasOperationTimedOut`, `GetNbreSecondsLeftBeforeTimeOut`). Here it is read once:
  a deadline that passes in between, so that enforcers run with an expired operation that is not
  marked as timed out, is not modelled.
- A call to the API server that fails changes nothing. An error for a call that was carried out,
  as when only the answer is lost, is not modelled.
- A reconciliation whose listing of resources fails does nothing and is tried again;
  it is a stuttering step here.
- PostgreSQL itself and what the volumes hold are outside; so are formatting, logging,
  start-up and the generated templates.
