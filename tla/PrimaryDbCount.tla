---------------------------- MODULE PrimaryDbCount ----------------------------
(***************************************************************************)
(* PrimaryDbCountSpecEnforcer and PrimaryToReplicaFailOver: deploying the  *)
(* primary, and failing over to a replica in two steps.  First the failing *)
(* primary is deleted and the operation waits; when the wait has timed out *)
(* (the operation is in transition) a ready replica is promoted.           *)
(***************************************************************************)
EXTENDS KubegresCluster

\* For resources of versions before 1.8, whose status has no enforced replicas.
initialiseStatusEnforcedReplicas(m, s) ==
  IF m.enforced <= 0 /\ m.spec.replicas >= 1 /\ m.spec.replicas = Cardinality(DOMAIN s)
    THEN [m EXCEPT !.enforced = m.spec.replicas, !.changed = TRUE]
    ELSE m

hasLastAttemptTimedOut(m) == HasActiveOperationIdTimedOut(m, PrimaryDbCount)

\* The memory when Enforce is about to decide whether to fail over.
initialised == initialiseStatusEnforcedReplicas(mem, seen)

\* Mutation: a timed-out operation is kept although the primary is ready.
reEnabled_Never == initialised

reEnabled ==
  IF isPrimaryDbReady(seen) /\ hasLastAttemptTimedOut(initialised)
    THEN RemoveActiveOperation(initialised)
    ELSE initialised

hasPrimaryEverBeenDeployed(m) == m.enforced > 0

\* The pod named by failover.promotePod must be the existing pod of a replica.
getInstanceIndexToManuallyPromote(m, s) ==
  IF m.spec.promotePod \in replicas(s) /\ s[m.spec.promotePod].pod # "none"
    THEN m.spec.promotePod ELSE 0

isManualFailoverRequested(m, s) == getInstanceIndexToManuallyPromote(m, s) > 0

ShouldWeFailOver(m, s) ==
  /\ hasPrimaryEverBeenDeployed(m)
  /\ replicas(s) \cap ready(s) # {}
  /\ \/ isManualFailoverRequested(m, s)
     \/ ~isPrimaryDbReady(s) /\ ~m.spec.failoverDisabled

\* The replicas a fail-over may promote: the requested one if it is ready, else
\* the ready one with the lowest index. An empty set is the error return.
selectReplicaToPromote(m, s) ==
  IF isManualFailoverRequested(m, s)
    THEN {getInstanceIndexToManuallyPromote(m, s)} \cap ready(s)
    ELSE first(replicas(s) \cap ready(s))

\* Mutation: the replica is promoted without waiting.
isWaitingBeforeStartingFailOver_NoWait(m) == TRUE

isWaitingBeforeStartingFailOver(m) ==
  IsActiveOperationInTransition(m, PrimaryDbCount) /\ m.previous.step = "WaitingBeforeFailingOver"

\* Mutation: a new primary is deployed beside replicas that are not ready.
shouldWeDeployNewPrimaryDb_AnyReplicas(m, s) == primaries(s) = {} /\ replicas(s) \cap ready(s) = {}

shouldWeDeployNewPrimaryDb(m, s) ==
  /\ primaries(s) = {} /\ replicas(s) = {}
  /\ m.spec.replicas = 1 \/ ~hasPrimaryEverBeenDeployed(m)

-----------------------------------------------------------------------------
PrimaryEnforced(m, next) ==
  /\ mem' = m
  /\ pc' = next
  /\ UNCHANGED <<spec, status, seen, outdated>>

\* Enforce gets past its early returns.
EnforcesPrimary ==
  /\ pc = "primary"
  /\ ~mem.spec.standby
  /\ ~IsActiveOperationIdDifferentOf(mem, PrimaryDbCount)

failsOver == EnforcesPrimary /\ ShouldWeFailOver(reEnabled, seen)
deploysPrimary ==
  EnforcesPrimary /\ ~ShouldWeFailOver(reEnabled, seen) /\ shouldWeDeployNewPrimaryDb(reEnabled, seen)

\* Enforce returns without any call: it is disabled in a standby cluster, another
\* operation is active, there is nothing to do, or the last attempt timed out.
PrimaryUnchanged ==
  /\ pc = "primary"
  /\ (failsOver \/ deploysPrimary) => hasLastAttemptTimedOut(reEnabled)
  /\ PrimaryEnforced(IF mem.spec.standby THEN mem
                     ELSE IF EnforcesPrimary THEN reEnabled ELSE initialised, "replica")
  /\ UNCHANGED <<sts, pvcs, lastPrimary, budget>>

\* FailOver returns an error: the requested replica is not ready.
FailOverRefused ==
  /\ failsOver
  /\ ~hasLastAttemptTimedOut(reEnabled)
  /\ selectReplicaToPromote(reEnabled, seen) = {}
  /\ PrimaryEnforced(reEnabled, "save")
  /\ UNCHANGED <<sts, pvcs, lastPrimary, budget>>

\* Mutation: the failing primary is left in place.
DeletePrimary_Skipped == UNCHANGED sts /\ Happens({})

\* deletePrimaryStatefulSet ignores the failure of the deletion.
DeletePrimary ==
  \/ /\ sts' = [j \in DOMAIN sts \ primaries(seen) |-> sts[j]]
     /\ Happens({})
  \/ /\ primaries(seen) # {}
     /\ Happens({"deletePrimaryFails"})
     /\ UNCHANGED sts

waitBeforePromotingReplicaToPrimary ==
  /\ failsOver
  /\ ~hasLastAttemptTimedOut(reEnabled)
  /\ ~isWaitingBeforeStartingFailOver(reEnabled)
  /\ DeletePrimary
  /\ \E i \in selectReplicaToPromote(reEnabled, seen) :
       PrimaryEnforced(activateOperation(reEnabled, "WaitingBeforeFailingOver", i, {}), "replica")
  /\ UNCHANGED <<pvcs, lastPrimary>>

\* The update of the StatefulSet is refused if it changed since it was listed.
\* A failed promotion removes the operation, but no error is returned. The new
\* pod template restarts the pod: it may still look ready for a moment.
promoteReplicaToPrimary ==
  /\ failsOver
  /\ ~hasLastAttemptTimedOut(reEnabled)
  /\ isWaitingBeforeStartingFailOver(reEnabled)
  /\ \E i \in selectReplicaToPromote(reEnabled, seen) :
       LET promoting == activateOperation(reEnabled, "FailingOver", i, {}) IN
       \/ /\ i \in DOMAIN sts /\ sts[i] = seen[i]
          /\ \E pod \in {"ready", "unready"} :
               sts' = [sts EXCEPT ![i] = [role |-> "primary", pod |-> pod]]
          /\ lastPrimary' = i
          /\ PrimaryEnforced(promoting, "replica")
          /\ Happens({})
       \/ /\ Happens(IF i \in DOMAIN sts /\ sts[i] = seen[i] THEN {"promoteFails"} ELSE {})
          /\ PrimaryEnforced(RemoveActiveOperation(promoting), "replica")
          /\ UNCHANGED <<sts, lastPrimary>>
  /\ UNCHANGED pvcs

\* With a single instance, the claim of the last created instance is used again;
\* failing to read it counts as its absence.
getInstanceIndexIfPrimaryNeedsToBeRecreated(m, pvcFound) ==
  IF m.spec.replicas <= 1 /\ m.last # 0 /\ pvcFound THEN m.last ELSE 0

primaryInstanceIndex(m, pvcFound) ==
  LET again == getInstanceIndexIfPrimaryNeedsToBeRecreated(m, pvcFound)
  IN IF again = 0 THEN m.last + 1 ELSE again

deployNewPrimaryStatefulSet ==
  /\ deploysPrimary
  /\ ~hasLastAttemptTimedOut(reEnabled)
  /\ \E unread \in SUBSET {"getPvcFails"} :
       LET i == primaryInstanceIndex(reEnabled, unread = {} /\ reEnabled.last \in pvcs)
           deploying == activateOperation(reEnabled, "PrimaryDbDeploying", i, {})
       IN \/ /\ i \notin DOMAIN sts
             /\ sts' = Created(i, "primary")
             /\ pvcs' = pvcs \cup {i}
             /\ lastPrimary' = i
             /\ PrimaryEnforced([deploying EXCEPT !.enforced = @ + 1,
                                                  !.last = IF @ = 0 THEN 1 ELSE @], "replica")
             /\ Happens(unread)
          \/ /\ Happens(unread \cup (IF i \in DOMAIN sts THEN {} ELSE {"createFails"}))
             /\ PrimaryEnforced(RemoveActiveOperation(deploying), "save")
             /\ UNCHANGED <<sts, pvcs, lastPrimary>>

EnforcePrimaryDb ==
  \/ PrimaryUnchanged
  \/ FailOverRefused
  \/ waitBeforePromotingReplicaToPrimary
  \/ promoteReplicaToPrimary
  \/ deployNewPrimaryStatefulSet
=============================================================================
