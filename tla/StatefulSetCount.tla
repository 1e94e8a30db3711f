--------------------------- MODULE StatefulSetCount ---------------------------
(***************************************************************************)
(* The operator keeping the number of PostgreSQL instances: reconciliations*)
(* that run the primary enforcer and then the replica enforcer, one after  *)
(* the other, while the cluster, the user and time do not wait for them.   *)
(***************************************************************************)
EXTENDS PrimaryDbCount, ReplicaDbCount

Reconcile ==
  \/ Load
  \/ LoadFails
  \/ EnforcePrimaryDb
  \/ EnforceReplicaDb
  \/ SaveStatus
  \/ SaveRefused

Next ==
  \/ Reconcile
  \/ Crash
  \/ Environment

\* Reconciliations are always requested again (an event, an error, the requeue
\* delay or the resync of the watches), pods make progress and time passes.
Fairness ==
  /\ WF_clusterVars(Reconcile)
  /\ WF_clusterVars(Tick)
  /\ WF_clusterVars(\E i \in DOMAIN sts : PodProgress(i))

Spec == Init /\ [][Next]_clusterVars
FairSpec == Spec /\ Fairness

-----------------------------------------------------------------------------
StatefulSets == [role: Roles, pod: Pods]
Specs == [replicas: Nat, failoverDisabled: BOOLEAN, promotePod: Nat, standby: BOOLEAN]

IsStatefulSetMap(s) == DOMAIN s \subseteq Nat \ {0} /\ s \in [DOMAIN s -> StatefulSets]

\* Everything stored and everything held in memory is well formed.
TypeOK ==
  /\ spec \in Specs
  /\ status \in [blocking: Operation({{}}), previousBlocking: Operation({{}}), last: Nat, enforced: Int]
  /\ IsStatefulSetMap(sts) /\ IsStatefulSetMap(seen)
  /\ pvcs \subseteq Nat \ {0}
  /\ lastPrimary \in Nat
  /\ pc \in {"idle", "primary", "replica", "services", "save"}
  /\ mem \in [active: Operation({{}}), previous: Operation({{}}), blocking: Operation({{}}),
              previousBlocking: Operation({{}}), changed: BOOLEAN, last: Nat, enforced: Int, spec: Specs]
  /\ outdated \in BOOLEAN
  /\ budget \in 0..MaxDisruptions

\* At any time at most one StatefulSet has the primary role
\* (StatefulSetsStates.setPrimaryStatefulSetStates refuses to load a second one).
OnlyOnePrimary == \A i, j \in primaries(sts) : i = j

\* The roles of the instances change as InstanceRoles says: a primary is created in
\* an empty cluster only, a replica is promoted only when no primary is left, and a
\* primary never becomes a replica, although the enforcers decide on a list of
\* StatefulSets that may have changed (EnforceSpec of the primary and the replicas).
Abstract == INSTANCE InstanceRoles WITH holders <- primaries(sts), followers <- replicas(sts)
InstanceRolesAreKept == Abstract!RolesSpec

\* A replica is only promoted once the wait before the fail-over is over: the
\* persisted operation is that wait, timed out (isWaitingBeforeStartingFailOver).
PromotionFollowsWait ==
  [][ \A i \in replicas(sts) \cap primaries(sts') :
        /\ status.blocking.id = PrimaryDbCount
        /\ status.blocking.left = 0
        /\ \/ status.blocking.step = "WaitingBeforeFailingOver"
           \/ /\ status.blocking.step = Transition
              /\ status.previousBlocking.step = "WaitingBeforeFailingOver" ]_clusterVars

\* The operator deletes an instance only when one that is ready is left, unless its list
\* is out of date: as long as the instances it listed as ready still are, deleting a
\* failing primary, a replica in excess or one to replace does not take the last ready
\* instance away.  If the instance to be left fails after the list was made, it may.  A
\* standby cluster has its primary elsewhere: its replicas are deleted whatever the
\* others are (ShouldWeFailOver, EnforceSpec of the replicas).
OperatorDeletes == pc # "idle" /\ pc' # pc /\ DOMAIN sts \ DOMAIN sts' # {}
LastReadyIsKeptUnlessStale ==
  [][ OperatorDeletes /\ ~mem.spec.standby /\ ready(seen) \subseteq ready(sts)
        => ready(sts') # {} ]_clusterVars

\* The next index to be created (lastCreatedInstanceIndex + 1) is above every
\* deployed instance and above every volume claim left behind: a new replica
\* neither collides with a StatefulSet nor starts on an old volume.
NewIndexesAreFresh == pc = "idle" => \A i \in DOMAIN sts \cup pvcs : i <= status.last

\* enforcedReplicas never falls below the number of deployed instances, so that a
\* cluster with a primary is always known to have had one (hasPrimaryEverBeenDeployed).
EnforcedReplicasCoverDeployed == pc = "idle" => Cardinality(DOMAIN sts) <= status.enforced

\* A primary that is created on an existing volume claim is created on the claim
\* of the instance that was the primary (getLastDeployedPrimaryPvc).
PrimaryIsRecreatedOnItsClaim ==
  [][ \A i \in primaries(sts') \ DOMAIN sts : i \in pvcs => i = lastPrimary ]_clusterVars

\* With the automatic fail-over disabled, and no promotion requested, no replica is
\* deployed in place of another: only those of the initial deployment are
\* (logAutomaticFailoverIsDisabled). The spec asks for as many instances all along.
NoReplicaIsReplacedWhenDisabled ==
  [][ \A i \in replicas(sts') \ DOMAIN sts :
        mem.spec.failoverDisabled /\ mem.spec.promotePod = 0 => i <= mem.spec.replicas ]_clusterVars

\* The cluster the spec asks for, with no operation left.
Converged ==
  /\ Cardinality(primaries(sts)) = 1
  /\ Cardinality(replicas(sts)) = spec.replicas - 1
  /\ ready(sts) = DOMAIN sts
  /\ status.blocking = NoOperation

\* Once the disruptions are over, the operator brings the cluster to the number of
\* instances of the spec, all ready.
ConvergesToSpec == <>[]Converged

\* A cluster that lost its primary and has a ready replica gets a primary again,
\* unless its last replica is lost (README: a replica is promoted automatically).
LostPrimaryIsReplaced ==
  (primaries(sts) = {} /\ replicas(sts) \cap ready(sts) # {} /\ ~spec.standby)
    ~> (primaries(sts) # {} \/ replicas(sts) = {})

\* A ready primary gets the replicas the spec asks for, unless it fails meanwhile or
\* the automatic fail-over is disabled (deployReplicaStatefulSet).
ReadyPrimaryGetsItsReplicas ==
  (isPrimaryDbReady(sts) /\ Cardinality(DOMAIN sts) < spec.replicas)
    ~> (\/ Cardinality(DOMAIN sts) >= spec.replicas
        \/ ~isPrimaryDbReady(sts)
        \/ spec.failoverDisabled)
=============================================================================
