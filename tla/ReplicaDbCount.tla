---------------------------- MODULE ReplicaDbCount ----------------------------
(***************************************************************************)
(* ReplicaDbCountSpecEnforcer: one replica at a time is deployed or        *)
(* undeployed until as many as the spec asks for are deployed; then a      *)
(* replica that is not ready is undeployed, to be replaced.                *)
(***************************************************************************)
EXTENDS KubegresCluster

hasLastReplicaAttemptTimedOut(m) == HasActiveOperationIdTimedOut(m, ReplicaDbCount)

\* Mutation: the deletion of the replica that failed does not fix the attempt.
isPreviouslyFailedAttemptOnReplicaDbFixed_Ready(m, s) == m.active.idx \in replicas(s) \cap ready(s)

isPreviouslyFailedAttemptOnReplicaDbFixed(m, s) ==
  m.active.idx \notin replicas(s) \/ m.active.idx \in ready(s)

getExpectedNbreReplicasToDeploy(m) ==
  IF m.spec.standby THEN m.spec.replicas
  ELSE IF m.spec.replicas <= 1 THEN 0 ELSE m.spec.replicas - 1

\* Mutation: the deployed instances are counted, not the enforced replicas.
doesSpecRequireTheDeploymentOfAdditionalReplicas_Deployed(m) ==
  m.spec.replicas > Cardinality(DOMAIN seen)

doesSpecRequireTheDeploymentOfAdditionalReplicas(m) == m.spec.replicas > m.enforced

\* The memory once an attempt that had timed out is found to be fixed.
fixedReplica == IF hasLastReplicaAttemptTimedOut(mem) THEN RemoveActiveOperation(mem) ELSE mem

\* Mutation: the replicas are enforced whether the primary is ready or not.
EnforcesReplicas_AnyPrimary ==
  /\ pc = "replica"
  /\ ~IsActiveOperationIdDifferentOf(mem, ReplicaDbCount)
  /\ hasLastReplicaAttemptTimedOut(mem) => isPreviouslyFailedAttemptOnReplicaDbFixed(mem, seen)

\* Enforce gets past its first early returns.
EnforcesReplicas ==
  /\ pc = "replica"
  /\ ~IsActiveOperationIdDifferentOf(mem, ReplicaDbCount)
  /\ hasLastReplicaAttemptTimedOut(mem) => isPreviouslyFailedAttemptOnReplicaDbFixed(mem, seen)
  /\ mem.spec.standby \/ isPrimaryDbReady(seen)

ReplicasEnforced(m, next) ==
  /\ mem' = m
  /\ pc' = next
  /\ UNCHANGED <<status, seen, outdated, lastPrimary>>

(***************************************************************************)
(* External: the client decodes the answer of an update into the object    *)
(* that was sent.  The answer has the stored status; a zero field is not   *)
(* part of it and keeps its value in memory.                               *)
(***************************************************************************)
orElse(stored, held, zero) == IF stored = zero THEN held ELSE stored

decodedOperation(stored, held) ==
  [ id |-> orElse(stored.id, held.id, ""), step |-> orElse(stored.step, held.step, ""),
    idx |-> orElse(stored.idx, held.idx, 0), diff |-> orElse(stored.diff, held.diff, {}),
    left |-> orElse(stored.left, held.left, 0),
    timedOut |-> stored.timedOut \/ held.timedOut ]

decodedStatus(m) ==
  [m EXCEPT !.blocking = decodedOperation(status.blocking, @),
            !.previousBlocking = decodedOperation(status.previousBlocking, @),
            !.last = orElse(status.last, @, 0),
            !.enforced = orElse(status.enforced, @, 0)]

\* resetInSpecManualFailover when a promotion is requested: the outcomes of the
\* update of the Kubegres resource, whose failure is ignored.
ResetOutcome(m) ==
  LET done == [m EXCEPT !.spec.promotePod = 0]
      answered == [mem |-> decodedStatus(done), updated |-> TRUE, failures |-> {}]
      conflict == [mem |-> done, updated |-> FALSE, failures |-> {}]
      failed == [mem |-> done, updated |-> FALSE, failures |-> {"updateSpecFails"}]
  IN IF m.spec.promotePod = 0 THEN {[mem |-> m, updated |-> FALSE, failures |-> {}]}
     ELSE IF outdated THEN {conflict} ELSE {answered, failed}

Reset(r) == spec' = IF r.updated THEN [spec EXCEPT !.promotePod = 0] ELSE spec

nbreNewReplicaToDeploy ==
  getExpectedNbreReplicasToDeploy(mem) - Cardinality(replicas(seen))

isReplicaOperationInProgress(m) == m.active.id = ReplicaDbCount

\* isAutomaticFailoverDisabled, and neither a promotion nor a larger spec asks for it.
deploymentIsDisabled(m) ==
  /\ mem.spec.failoverDisabled
  /\ mem.spec.promotePod = 0
  /\ ~doesSpecRequireTheDeploymentOfAdditionalReplicas(m)

replicaDeployed_SameIndex(m, i) == [m EXCEPT !.enforced = @ + 1, !.changed = TRUE] \* Mutation
replicaDeployed_NotCounted(m, i) == [m EXCEPT !.last = i, !.changed = TRUE] \* Mutation

\* What the deployment of replica i leaves in the status.
replicaDeployed(m, i) == [m EXCEPT !.enforced = @ + 1, !.last = i, !.changed = TRUE]

deployReplicaStatefulSet ==
  /\ EnforcesReplicas
  /\ nbreNewReplicaToDeploy > 0
  /\ \E r \in ResetOutcome(fixedReplica) :
       LET i == r.mem.last + 1
           deploying == activateOperation(r.mem, "ReplicaDbDeploying", i, {})
       IN /\ ~isReplicaOperationInProgress(r.mem)
          /\ ~deploymentIsDisabled(r.mem)
          /\ Reset(r)
          /\ \/ /\ i \notin DOMAIN sts
                /\ sts' = Created(i, "replica")
                /\ pvcs' = pvcs \cup {i}
                /\ ReplicasEnforced(replicaDeployed(deploying, i), "services")
                /\ Happens(r.failures)
             \/ /\ Happens(r.failures \cup (IF i \in DOMAIN sts THEN {} ELSE {"createFails"}))
                /\ ReplicasEnforced(RemoveActiveOperation(deploying), "save")
                /\ UNCHANGED <<sts, pvcs>>

\* The replica with the highest index when there are too many, else the first
\* one that is not ready.
replicaToUndeploy ==
  CASE nbreNewReplicaToDeploy < 0 -> last(replicas(seen))
    [] nbreNewReplicaToDeploy = 0 -> first(replicas(seen) \ ready(seen))
    [] OTHER -> {}

undeployReplicaStatefulSets ==
  /\ EnforcesReplicas
  /\ \E r \in ResetOutcome(fixedReplica), i \in replicaToUndeploy :
       LET undeploying == activateOperation(r.mem, "ReplicaDbUndeploying", i, {})
       IN /\ ~isReplicaOperationInProgress(r.mem)
          /\ Reset(r)
          /\ \/ /\ i \in DOMAIN sts
                /\ sts' = Deleted(i)
                /\ ReplicasEnforced([undeploying EXCEPT !.enforced = @ - 1], "services")
                /\ Happens(r.failures)
             \/ /\ Happens(r.failures \cup (IF i \in DOMAIN sts THEN {"deleteReplicaFails"} ELSE {}))
                /\ ReplicasEnforced(RemoveActiveOperation(undeploying), "save")
                /\ UNCHANGED sts
  /\ UNCHANGED pvcs

\* Enforce has nothing to deploy or undeploy, or it may not.
ReplicasUnchanged ==
  /\ EnforcesReplicas
  /\ \E r \in ResetOutcome(fixedReplica) :
       /\ \/ isReplicaOperationInProgress(r.mem)
          \/ nbreNewReplicaToDeploy > 0 /\ deploymentIsDisabled(r.mem)
          \/ nbreNewReplicaToDeploy <= 0 /\ replicaToUndeploy = {}
       /\ Reset(r)
       /\ ReplicasEnforced(r.mem, "services")
       /\ Happens(r.failures)
  /\ UNCHANGED <<sts, pvcs>>

\* Enforce returns early: another operation is active, the last attempt timed out
\* and is not fixed, or the primary is not ready.
ReplicasSkipped ==
  /\ pc = "replica"
  /\ ~EnforcesReplicas
  /\ ReplicasEnforced(
       IF /\ hasLastReplicaAttemptTimedOut(mem)
          /\ isPreviouslyFailedAttemptOnReplicaDbFixed(mem, seen)
         THEN fixedReplica ELSE mem, "services")
  /\ UNCHANGED <<spec, sts, pvcs, budget>>

EnforceReplicaDb ==
  \/ deployReplicaStatefulSet
  \/ undeployReplicaStatefulSets
  \/ ReplicasUnchanged
  \/ ReplicasSkipped
=============================================================================
