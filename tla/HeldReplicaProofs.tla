--------------------------- MODULE HeldReplicaProofs --------------------------
(***************************************************************************)
(* The steps of a reconciliation while a replica is held back: what is     *)
(* loaded and saved is the operation about it, the enforcers of the        *)
(* instances and of the services leave it, and the enforcer of the spec    *)
(* stops at it.                                                            *)
(***************************************************************************)
EXTENDS PodUpdatesProofs

-----------------------------------------------------------------------------
(***************************************************************************)
(* Loading and saving the operation.                                       *)
(***************************************************************************)
\* The active operation that is loaded: it is kept in transition and while it has time
\* left, it is marked when its time is over, and it moves to the transition when it is
\* completed.
LEMMA LoadedOperation ==
  ASSUME NEW m \in MemType(AllDiffs), NEW reached, m.blocking.id # ""
  PROVE  LET l == LoadActiveOperation(m, reached)
             op == m.blocking
             Kept == /\ l.blocking = op
                     /\ l.previous = m.previousBlocking /\ l.previousBlocking = m.previousBlocking
         IN /\ op.step = Transition => l.active = op /\ Kept
            /\ op.step \in StepsWithCompletionChecker \ {Transition} =>
                 /\ op.left = 0 => l.active = [op EXCEPT !.timedOut = TRUE] /\ Kept
                 /\ op.left # 0 /\ ~reached => l.active = op /\ Kept
                 /\ op.left # 0 /\ reached /\ op.step \in StepsMovingToTransition =>
                      /\ l.active = [op EXCEPT !.step = Transition, !.timedOut = FALSE, !.left = 0]
                      /\ l.blocking = l.active
                      /\ l.previous = [op EXCEPT !.timedOut = FALSE, !.left = 0]
                      /\ l.previousBlocking = l.previous
<1> DEFINE op == m.blocking
           f == [m EXCEPT !.active = m.blocking, !.previous = m.previousBlocking]
           l == removeOperationIfNotActive(f, reached)
<1>1. LoadActiveOperation(m, reached) = l
  BY DEF LoadActiveOperation
<1>2. /\ f \in MemType(AllDiffs) /\ f.active = op /\ f.blocking = op
      /\ f.previous = m.previousBlocking /\ f.previousBlocking = m.previousBlocking
  BY DEF MemType
<1> HIDE DEF f
<1>3. CASE op.step = Transition
  <2>1. l = f
    BY <1>2, <1>3 DEF removeOperationIfNotActive, isOperationInTransition
  <2>2. op.step \notin StepsWithCompletionChecker \ {Transition}
    BY <1>3
  <2> QED BY <1>1, <1>2, <2>1, <2>2
<1>4. CASE op.step \in StepsWithCompletionChecker \ {Transition}
  <2>1. ~(~isThereActiveOperation(f) \/ isOperationInTransition(f))
    BY <1>2, <1>4 DEF isThereActiveOperation, isOperationInTransition
  <2>2. CASE op.left = 0
    <3>1. l = [f EXCEPT !.active.timedOut = TRUE]
      BY <1>2, <1>4, <2>1, <2>2 DEF removeOperationIfNotActive
    <3>2. /\ l.active = [op EXCEPT !.timedOut = TRUE] /\ l.blocking = op
          /\ l.previous = m.previousBlocking /\ l.previousBlocking = m.previousBlocking
      BY <1>2, <3>1 DEF MemType
    <3> QED BY <1>1, <1>4, <2>2, <3>2
  <2>3. CASE op.left # 0 /\ ~reached
    <3>1. l = f
      BY <1>2, <2>1, <2>3 DEF removeOperationIfNotActive
    <3> QED BY <1>1, <1>2, <1>4, <2>3, <3>1
  <2>4. CASE op.left # 0 /\ reached /\ op.step \in StepsMovingToTransition
    <3>1. l = setActiveOperationInTransition(f, FALSE)
      BY <1>2, <1>4, <2>1, <2>4 DEF removeOperationIfNotActive, endOperation
    <3> DEFINE p == [op EXCEPT !.timedOut = FALSE, !.left = 0]
               t == [op EXCEPT !.step = Transition, !.timedOut = FALSE, !.left = 0]
    <3>2. l = [[f EXCEPT !.previous = p, !.previousBlocking = p, !.changed = TRUE]
                 EXCEPT !.active = t, !.blocking = t, !.changed = TRUE]
      BY <1>2, <3>1 DEF setActiveOperationInTransition, remember, SetBlockingOperation,
         SetPreviousBlockingOperation
    <3> HIDE DEF p, t
    <3>3. l.active = t /\ l.blocking = t /\ l.previous = p /\ l.previousBlocking = p
      BY <1>2, <3>2 DEF MemType
    <3> QED BY <1>1, <1>4, <2>4, <3>3 DEF p, t
  <2>5. CASE op.left # 0 /\ reached /\ op.step \notin StepsMovingToTransition
    BY <1>4, <2>5
  <2> QED BY <2>2, <2>3, <2>4, <2>5
<1>5. CASE op.step # Transition /\ op.step \notin StepsWithCompletionChecker \ {Transition}
  BY <1>5
<1> QED BY <1>3, <1>4, <1>5

\* The steps of the operations that are about a replica that is held back.
LEMMA HeldSteps ==
  /\ {"ReplicaDbDeploying", "SpecUpdating", "PodSpecUpdating"} \subseteq StepsWithCompletionChecker \ {Transition}
  /\ "SpecUpdating" \in StepsMovingToTransition
  /\ ReplicaDbCount # "" /\ StatefulSetSpec # "" /\ StatefulSetSpec # ReplicaDbCount
  /\ PrimaryDbCount \notin {ReplicaDbCount, StatefulSetSpec, ""}
<1>1. "ReplicaDbDeploying" \in Steps /\ "SpecUpdating" \in Steps /\ "PodSpecUpdating" \in Steps
  BY DEF Steps, OperationIdOf
<1>2. "SpecUpdating" \in StepsMovingToTransition
  BY DEF StepsMovingToTransition
<1> QED BY <1>1, <1>2 DEF StepsWithCompletionChecker, Transition, ReplicaDbCount, StatefulSetSpec, PrimaryDbCount

\* A replica that is held back is not completed: neither its deployment nor the
\* verification of its pod.
LEMMA HeldIsNotCompleted ==
  ASSUME NEW B \in SUBSET BrokenImages, PodsInv, NEW op, NEW prev, NEW i \in held(B),
         HeldBy(op, prev, sts, deployed, running, wanted, i)
  PROVE  /\ Deploys(op, i) => i \notin ready(sts) /\ ~isCompleted(op)
         /\ op.id = StatefulSetSpec /\ op.step = "PodSpecUpdating" => ~isCompleted(op)
<1>0. i \in replicas(sts) /\ (unsettled(B, deployed[i], running[i], wanted) \/ (B # {} /\ sts[i].pod = "none"))
  BY DEF held, HeldBack
<1>1. ASSUME Deploys(op, i) PROVE i \notin ready(sts) /\ ~isCompleted(op)
  <2>1. running[i] = deployed[i]
    BY <1>1, HeldSteps DEF HeldBy, Deploys, Verifies
  <2>2. i \notin ready(sts)
    BY <1>0, <2>1 DEF unsettled, PodsInv, ready
  <2>3. isCompleted(op) = isReplicaDbReady(op, sts)
    BY <1>1 DEF Deploys, isCompleted, CompletionChecker
  <2> QED BY <1>1, <2>2, <2>3, Zenon DEF isReplicaDbReady, Deploys
<1>2. ASSUME op.id = StatefulSetSpec, op.step = "PodSpecUpdating" PROVE ~isCompleted(op)
  <2>1. op.idx = i /\ sts[i].pod # "none"
    <3>1. op.id # ReplicaDbCount /\ op.step # Transition
      BY <1>2, HeldSteps DEF Transition
    <3> QED BY <1>2, <3>1 DEF HeldBy, Deploys, Verifies, IsLast
  <2>2. unsettled(B, deployed[i], running[i], wanted)
    BY <1>0, <2>1
  <2>3. isCompleted(op) = isStatefulSetPodSpecUpdated(op)
    BY <1>2 DEF isCompleted
  <2>4. ASSUME isStatefulSetPodSpecUpdated(op) PROVE FALSE
    <3>1. i \in ready(sts) /\ running[i].image = wanted.image /\ running[i].port = wanted.port
      BY <2>1, <2>4 DEF isStatefulSetPodSpecUpdated, IsSpecUpToDate
    <3> QED BY <1>0, <2>2, <3>1 DEF unsettled, PodsInv
  <2> QED BY <2>3, <2>4
<1> QED BY <1>1, <1>2

\* The operation about a replica that is held back is loaded as such, and when it does not
\* make the reconciliation wait, it makes the enforcers stop at the replica.
LEMMA LoadedHeld ==
  ASSUME NEW B \in SUBSET BrokenImages, Typed(AllDiffs), PodsInv, LoadAll, NEW i \in held(B),
         HeldBy(status.blocking, status.previousBlocking, sts, deployed, running, wanted, i)
  PROVE  /\ HeldBy(mem'.blocking, mem'.previousBlocking, sts, deployed, running, wanted, i)
         /\ pc' \in Decides =>
              \/ Deploys(mem'.active, i) /\ mem'.active.timedOut /\ i \notin ready(sts)
              \/ Checks(mem', i) /\ IsLast(sts, deployed, wanted, i)
<1> DEFINE op == status.blocking
           prev == status.previousBlocking
           Kept == mem'.blocking = op /\ mem'.previous = prev /\ mem'.previousBlocking = prev
<1>1. /\ fetched \in MemType(AllDiffs) /\ fetched.blocking = op /\ fetched.previousBlocking = prev
  BY DiffsFacts, FetchedFacts, Zenon
<1>2. pc' \in Decides => ~(mem'.active.left > 0)
  BY Zenon DEF LoadAll, LoadWith, mustWaitForTimeOut, Decides
<1>11. PICK reached : mem' = LoadActiveOperation(fetched, reached) /\ (reached <=> isCompleted(status.blocking))
  BY DEF LoadAll, LoadWith
<1>3. op \in Operation(AllDiffs) /\ op.left \in Nat
  BY DEF Typed, StatusType, Operation
<1>4. op.left # 0 => op.left > 0
  BY <1>3
<1>5. op.id # ""
  BY HeldSteps DEF HeldBy, Deploys, Verifies
<1>6. /\ op.step = Transition => mem'.active = op /\ Kept
      /\ op.step \in StepsWithCompletionChecker \ {Transition} =>
           /\ op.left = 0 => mem'.active = [op EXCEPT !.timedOut = TRUE] /\ Kept
           /\ op.left # 0 /\ ~reached => mem'.active = op /\ Kept
           /\ op.left # 0 /\ reached /\ op.step \in StepsMovingToTransition =>
                /\ mem'.active = [op EXCEPT !.step = Transition, !.timedOut = FALSE, !.left = 0]
                /\ mem'.blocking = mem'.active
                /\ mem'.previous = [op EXCEPT !.timedOut = FALSE, !.left = 0]
                /\ mem'.previousBlocking = mem'.previous
  <2> DEFINE l == LoadActiveOperation(fetched, reached)
             o == fetched.blocking
             p == fetched.previousBlocking
             Same == l.blocking = o /\ l.previous = p /\ l.previousBlocking = p
  <2>1. /\ o.step = Transition => l.active = o /\ Same
        /\ o.step \in StepsWithCompletionChecker \ {Transition} =>
             /\ o.left = 0 => l.active = [o EXCEPT !.timedOut = TRUE] /\ Same
             /\ o.left # 0 /\ ~reached => l.active = o /\ Same
             /\ o.left # 0 /\ reached /\ o.step \in StepsMovingToTransition =>
                  /\ l.active = [o EXCEPT !.step = Transition, !.timedOut = FALSE, !.left = 0]
                  /\ l.blocking = l.active
                  /\ l.previous = [o EXCEPT !.timedOut = FALSE, !.left = 0]
                  /\ l.previousBlocking = l.previous
    <3>1. o.id # ""
      BY <1>1, <1>5
    <3> QED BY <1>1, <3>1, LoadedOperation, ZenonT(30)
  <2>2. mem' = l /\ o = op /\ p = prev
    BY <1>1, <1>11, Zenon
  <2> HIDE DEF l, o, p
  <2> QED BY <2>1, <2>2
<1>7. /\ [op EXCEPT !.timedOut = TRUE].id = op.id /\ [op EXCEPT !.timedOut = TRUE].step = op.step
      /\ [op EXCEPT !.timedOut = TRUE].idx = op.idx /\ [op EXCEPT !.timedOut = TRUE].diff = op.diff
      /\ [op EXCEPT !.timedOut = TRUE].timedOut = TRUE
  BY <1>3 DEF Operation
<1>8. /\ Deploys(op, i) => i \notin ready(sts) /\ ~reached
      /\ op.id = StatefulSetSpec /\ op.step = "PodSpecUpdating" => ~reached
  BY <1>11, HeldIsNotCompleted
<1> HIDE DEF op, prev
<1>9. CASE Deploys(op, i) /\ running[i] = deployed[i]
  <2>1. op.step \in StepsWithCompletionChecker \ {Transition}
    BY <1>9, HeldSteps, Zenon DEF Deploys
  <2>2. CASE op.left = 0
    BY <1>6, <1>7, <1>8, <1>9, <2>1, <2>2, Zenon DEF Deploys, HeldBy
  <2>3. CASE op.left # 0
    BY <1>2, <1>4, <1>6, <1>8, <1>9, <2>1, <2>3 DEF HeldBy
  <2> QED BY <2>2, <2>3, Zenon
<1>10. CASE Verifies(op, prev, i) /\ IsLast(sts, deployed, wanted, i)
  <2>1. CASE op.step = "SpecUpdating" /\ op.idx = i /\ op.left > 0
    <3>1. op.step \in StepsWithCompletionChecker \ {Transition} /\ op.step \in StepsMovingToTransition
      BY <2>1, HeldSteps
    <3>2. op.left # 0
      BY <2>1
    <3>3. CASE ~reached
      BY <1>2, <1>6, <1>10, <2>1, <3>1, <3>2, <3>3 DEF HeldBy
    <3>4. CASE reached
      <4> DEFINE t == [op EXCEPT !.step = Transition, !.timedOut = FALSE, !.left = 0]
                 p == [op EXCEPT !.timedOut = FALSE, !.left = 0]
      <4>1. t.id = op.id /\ t.step = Transition /\ t.timedOut = FALSE /\ p.idx = op.idx
        BY <1>3 DEF Operation
      <4>2. mem'.active = t /\ mem'.blocking = t /\ mem'.previous = p /\ mem'.previousBlocking = p
        BY <1>6, <3>1, <3>2, <3>4
      <4> HIDE DEF t, p
      <4> QED BY <1>10, <2>1, <4>1, <4>2, Zenon DEF HeldBy, Verifies, Checks
    <3> QED BY <3>3, <3>4, Zenon
  <2>2. CASE op.step = "PodSpecUpdating" /\ op.idx = i /\ op.diff = {}
    <3>1. op.step \in StepsWithCompletionChecker \ {Transition} /\ ~reached /\ op.id = StatefulSetSpec
      BY <1>8, <1>10, <2>2, HeldSteps, Zenon DEF Verifies
    <3>2. CASE op.left = 0
      BY <1>6, <1>7, <1>10, <2>2, <3>1, <3>2, Zenon DEF HeldBy, Checks
    <3>3. CASE op.left # 0
      BY <1>2, <1>4, <1>6, <1>10, <3>1, <3>3 DEF HeldBy
    <3> QED BY <3>2, <3>3, Zenon
  <2>3. CASE op.step = Transition /\ prev.idx = i /\ ~op.timedOut
    BY <1>6, <1>10, <2>3 DEF HeldBy, Verifies, Checks
  <2> QED BY <1>10, <2>1, <2>2, <2>3, Zenon DEF Verifies
<1> QED BY <1>9, <1>10, Zenon DEF HeldBy, op, prev

\* A reconciliation starts with what is true of the replicas.
LEMMA LoadHeld ==
  ASSUME NEW B \in SUBSET BrokenImages, Typed(AllDiffs), PodsInv, HeldInv(B), LoadAll
  PROVE  HeldInv(B)' /\ DecidesInv(B)'
<1>1. /\ pc = "idle" /\ pc' \in {"save", "primary"}
      /\ UNCHANGED <<status, sts, deployed, running, wanted>> /\ seen' = sts
      /\ view'.deployed = deployed /\ view'.running = running /\ view'.wanted = wanted
  BY DEF LoadAll, LoadWith
<1>2. held(B)' = held(B) /\ heldWhenRead(B)' = held(B)
  BY <1>1 DEF held, heldWhenRead
<1>3. \A i \in held(B) : HeldBy(status.blocking, status.previousBlocking, sts, deployed, running, wanted, i)
  BY <1>1 DEF HeldInv
<1>4. \A i \in held(B) :
        /\ HeldBy(mem'.blocking, mem'.previousBlocking, sts, deployed, running, wanted, i)
        /\ pc' \in Decides =>
             \/ Deploys(mem'.active, i) /\ mem'.active.timedOut /\ i \notin ready(sts)
             \/ Checks(mem', i) /\ IsLast(sts, deployed, wanted, i)
  BY <1>3, LoadedHeld, Zenon
<1>5. HeldInv(B)'
  BY <1>1, <1>2, <1>3, <1>4, Zenon DEF HeldInv
<1>6. DecidesInv(B)'
  BY <1>1, <1>2, <1>4 DEF DecidesInv
<1> QED BY <1>5, <1>6

\* The status that is saved has the operation.
LEMMA SaveHeld ==
  ASSUME NEW B, StatusIsSaved, ~outdated, PodsInv, HeldInv(B), SaveStatus \/ SaveRefused,
         pc = "save", TemplatesFollow({})
  PROVE  HeldInv(B)' /\ DecidesInv(B)'
<1>1. SaveStatus
  BY DEF SaveRefused, Happens, StatusIsSaved
<1>2. /\ pc' = "idle" /\ sts' = sts
      /\ status' = IF mem.changed
                     THEN [blocking |-> mem.blocking, previousBlocking |-> mem.previousBlocking,
                           last |-> mem.last, enforced |-> mem.enforced]
                     ELSE status
  BY <1>1 DEF SaveStatus, EndReconciliation
<1>3. Settles(B)
  BY <1>2, FollowSettles
<1>4. ASSUME NEW i \in held(B)'
      PROVE  HeldBy(status'.blocking, status'.previousBlocking, sts', deployed', running', wanted', i)
  <2>1. i \in held(B) /\ \A op, prev : HeldBy(op, prev, sts, deployed, running, wanted, i) =>
                                         HeldBy(op, prev, sts, deployed, running, wanted, i)'
    BY <1>3, SettlesHeld
  <2>2. HeldBy(status'.blocking, status'.previousBlocking, sts, deployed, running, wanted, i)
    <3>1. CASE mem.changed
      BY <1>2, <2>1, <3>1 DEF HeldInv
    <3>2. CASE ~mem.changed
      BY <1>2, <2>1, <3>2 DEF HeldInv
    <3> QED BY <3>1, <3>2
  <2> QED BY <2>1, <2>2
<1>5. DecidesInv(B)'
  BY <1>2 DEF DecidesInv, Decides
<1> QED BY <1>2, <1>4, <1>5, Zenon DEF HeldInv

-----------------------------------------------------------------------------
(***************************************************************************)
(* The enforcers of the primary and of the replicas.                       *)
(***************************************************************************)
\* An operation that is activated.
LEMMA ActivatedDetails ==
  ASSUME NEW m \in MemType(AllDiffs), NEW step \in Steps, NEW idx \in Nat, NEW diff \in AllDiffs
  PROVE  LET op == activateOperation(m, step, idx, diff).blocking
         IN op.idx = idx /\ op.diff = diff /\ op.left = TimeOut[step]
<1> DEFINE op == [createOperationObj(step, idx, diff) EXCEPT !.left = TimeOut[step]]
           a == activateOperation(m, step, idx, diff)
<1>1. op.idx = idx /\ op.diff = diff /\ op.left = TimeOut[step]
  BY DEF createOperationObj
<1>2. a = [m EXCEPT !.active = op, !.blocking = op, !.changed = TRUE]
  BY DEF activateOperation, SetBlockingOperation
<1> HIDE DEF op
<1>3. a.blocking = op
  BY <1>2 DEF MemType
<1> QED BY <1>1, <1>3

\* The primary enforcer lets the operation about a replica be.
LEMMA PrimaryHeld ==
  ASSUME NEW B, Typed(AllDiffs), PodsInv, HeldInv(B), DecidesInv(B),
         EnforcePrimaryDb, TemplatesFollow(promoted), UNCHANGED view
  PROVE  HeldInv(B)' /\ DecidesInv(B)'
<1>1. pc = "primary" /\ UNCHANGED <<status, seen>>
  <2>1. pc = "primary" /\ UNCHANGED status
    BY DiffsFacts, PrimaryOperation
  <2>2. seen' = seen
    BY Zenon DEF EnforcePrimaryDb, PrimaryUnchanged, FailOverRefused, waitBeforePromotingReplicaToPrimary,
       promoteReplicaToPrimary, deployNewPrimaryStatefulSet, PrimaryEnforced
  <2> QED BY <2>1, <2>2
<1>2. Settles(B)
  <2>1. \A i \in replicas(sts') : i \in replicas(sts) /\ sts'[i] = sts[i]
    BY PrimaryKeepsReplicas DEF Typed
  <2> QED BY <2>1, FollowSettles
<1>3. heldWhenRead(B)' = heldWhenRead(B)
  BY <1>1 DEF heldWhenRead
<1>4. CASE heldWhenRead(B) = {}
  <2>1. held(B) = {}
    BY <1>1, <1>4 DEF DecidesInv, Decides
  <2>2. held(B)' = {}
    BY <1>2, <2>1, SettlesHeld
  <2> QED BY <1>3, <1>4, <2>2, NothingHeld
<1>5. CASE heldWhenRead(B) # {}
  <2>1. mem.active.id \in {ReplicaDbCount, StatefulSetSpec}
    BY <1>1, <1>5 DEF DecidesInv, Decides, Deploys, Checks
  <2>2. ~EnforcesPrimary
    BY <2>1, HeldSteps DEF EnforcesPrimary, IsActiveOperationIdDifferentOf, isThereActiveOperation
  <2>3. mem' \in {mem, initialised} /\ pc' = "replica"
    BY <2>2, Zenon DEF EnforcePrimaryDb, PrimaryUnchanged, FailOverRefused, waitBeforePromotingReplicaToPrimary,
       promoteReplicaToPrimary, deployNewPrimaryStatefulSet, PrimaryEnforced, failsOver, deploysPrimary
  <2>4. SameOperations
    <3>1. /\ initialised.active = mem.active /\ initialised.previous = mem.previous
          /\ initialised.blocking = mem.blocking /\ initialised.previousBlocking = mem.previousBlocking
          /\ mem.changed => initialised.changed
      BY DEF initialised, initialiseStatusEnforcedReplicas, Typed, MemType
    <3> QED BY <2>3, <3>1 DEF SameOperations
  <2> QED BY <1>1, <1>2, <2>3, <2>4, QuietStep DEF GoesOn
<1> QED BY <1>4, <1>5

\* What the replica enforcer does: it creates a replica and the operation is about it, or
\* the replicas are those there were.
LEMMA ReplicaDeployment ==
  ASSUME Typed(AllDiffs), EnforceReplicaDb
  PROVE  \/ \A i \in replicas(sts') : i \in replicas(sts) /\ sts'[i] = sts[i]
         \/ \E i \in Nat : /\ i \notin DOMAIN sts /\ sts' = Created(i, "replica")
                           /\ Deploys(mem'.active, i) /\ Deploys(mem'.blocking, i) /\ mem'.changed = TRUE
                           /\ pc' = "services"
<1>1. CASE deployReplicaStatefulSet
  <2>1. PICK r \in ResetOutcome(fixedReplica) :
          LET i == r.mem.last + 1
              deploying == activateOperation(r.mem, "ReplicaDbDeploying", i, {})
          IN \/ /\ i \notin DOMAIN sts /\ sts' = Created(i, "replica")
                /\ ReplicasEnforced(replicaDeployed(deploying, i), "services")
             \/ UNCHANGED sts
    BY <1>1, Zenon DEF deployReplicaStatefulSet
  <2> DEFINE i == r.mem.last + 1
             a == activateOperation(r.mem, "ReplicaDbDeploying", i, {})
             b == [a EXCEPT !.enforced = a.enforced + 1, !.last = i, !.changed = TRUE]
  <2>2. r.mem \in MemType(AllDiffs) /\ i \in Nat
    <3>1. r.mem \in MemType(AllDiffs)
      BY DiffsFacts, FixedReplicaFacts, ResetFacts, Zenon DEF Typed
    <3> QED BY <3>1 DEF MemType
  <2>3. \/ i \notin DOMAIN sts /\ sts' = Created(i, "replica") /\ mem' = b /\ pc' = "services"
        \/ UNCHANGED sts
    BY <2>1 DEF ReplicasEnforced, replicaDeployed
  <2>4. "ReplicaDbDeploying" \in Steps /\ OperationIdOf["ReplicaDbDeploying"] = ReplicaDbCount
    BY StepIds
  <2> HIDE DEF i
  <2>5. /\ a \in MemType(AllDiffs) /\ a.active = a.blocking
        /\ a.blocking.id = OperationIdOf["ReplicaDbDeploying"] /\ a.blocking.step = "ReplicaDbDeploying"
    BY <2>2, <2>4, DiffsFacts, ActivateFacts
  <2>8. a.blocking.idx = i
    BY <2>2, <2>4, DiffsFacts, ActivatedDetails
  <2> HIDE DEF a
  <2>6. b.active = a.blocking /\ b.blocking = a.blocking /\ b.changed = TRUE
    BY <2>5 DEF MemType
  <2>7. Deploys(b.active, i) /\ Deploys(b.blocking, i)
    BY <2>4, <2>5, <2>6, <2>8 DEF Deploys
  <2> QED BY <2>2, <2>3, <2>6, <2>7, Zenon
<1>2. CASE ~deployReplicaStatefulSet
  <2>1. sts' = sts \/ \E k : sts' = Deleted(k)
    BY <1>2, Zenon DEF EnforceReplicaDb, undeployReplicaStatefulSets, ReplicasUnchanged, ReplicasSkipped
  <2> QED BY <2>1, Zenon DEF Deleted, replicas
<1> QED BY <1>1, <1>2, Zenon

\* The replica enforcer lets it be, too; a replica that it creates is held back only with
\* the operation about it.
LEMMA ReplicaHeld ==
  ASSUME NEW B, Typed(AllDiffs), PodsInv, HeldInv(B), DecidesInv(B),
         EnforceReplicaDb, TemplatesFollow(promoted), UNCHANGED view
  PROVE  HeldInv(B)' /\ DecidesInv(B)'
<1>1. pc = "replica" /\ pc' \in {"services", "save"} /\ UNCHANGED <<status, seen>>
  <2>1. pc = "replica" /\ pc' \in {"services", "save"} /\ UNCHANGED status
    BY DiffsFacts, ReplicaOperation, Zenon
  <2>2. seen' = seen
    BY Zenon DEF EnforceReplicaDb, deployReplicaStatefulSet, undeployReplicaStatefulSets, ReplicasUnchanged,
       ReplicasSkipped, ReplicasEnforced
  <2> QED BY <2>1, <2>2
<1>2. heldWhenRead(B)' = heldWhenRead(B)
  BY <1>1 DEF heldWhenRead
<1>3. CASE heldWhenRead(B) = {}
  <2>1. held(B) = {}
    BY <1>1, <1>3 DEF DecidesInv, Decides
  <2>2. CASE \A i \in replicas(sts') : i \in replicas(sts) /\ sts'[i] = sts[i]
    <3>1. Settles(B)
      BY <2>2, FollowSettles
    <3>2. held(B)' = {}
      BY <2>1, <3>1, SettlesHeld
    <3> QED BY <1>2, <1>3, <3>2, NothingHeld
  <2>3. ASSUME NEW i \in Nat, i \notin DOMAIN sts, sts' = Created(i, "replica"),
               Deploys(mem'.active, i), Deploys(mem'.blocking, i), mem'.changed = TRUE, pc' = "services"
        PROVE  HeldInv(B)' /\ DecidesInv(B)'
    <3>1. /\ DOMAIN sts' = DOMAIN sts \cup {i} /\ \A k \in DOMAIN sts : sts'[k] = sts[k]
      BY <2>3 DEF Created
    <3>2. running'[i] = deployed'[i]
      BY <2>3, <3>1 DEF TemplatesFollow, podStays
    <3>3. ASSUME NEW k \in held(B)' PROVE k = i
      <4>1. SUFFICES ASSUME k # i PROVE k \in held(B)
        BY <2>1
      <4>2. k \in replicas(sts') /\ k \in DOMAIN sts' /\ k \in DOMAIN sts
        BY <3>1, <4>1 DEF held, HeldBack, replicas
      <4>3. sts'[k] = sts[k] /\ k \in replicas(sts)
        BY <3>1, <4>2 DEF replicas
      <4>4. deployed'[k] = deployed[k] /\ wanted' = wanted
        BY <4>2 DEF TemplatesFollow
      <4>5. running'[k] \in {running[k], deployed[k]}
        BY <4>2, <4>4 DEF TemplatesFollow
      <4> QED BY <4>3, <4>4, <4>5 DEF held, HeldBack, unsettled
    <3> QED BY <1>2, <1>3, <2>3, <3>2, <3>3, Zenon DEF HeldInv, DecidesInv, HeldBy
  <2> QED BY <2>2, <2>3, ReplicaDeployment, Zenon
<1>4. CASE heldWhenRead(B) # {}
  <2>1. PICK i \in heldWhenRead(B) : TRUE
    BY <1>4
  <2>2. /\ \/ Deploys(mem.active, i) /\ mem.active.timedOut /\ i \notin ready(seen)
           \/ Checks(mem, i)
        /\ i \in replicas(seen)
    BY <1>1, <2>1, Zenon DEF DecidesInv, Decides, heldWhenRead, HeldBack
  <2>3. ~EnforcesReplicas /\ ~(/\ hasLastReplicaAttemptTimedOut(mem)
                               /\ isPreviouslyFailedAttemptOnReplicaDbFixed(mem, seen))
    <3>1. CASE Deploys(mem.active, i) /\ mem.active.timedOut /\ i \notin ready(seen)
      BY <2>2, <3>1 DEF EnforcesReplicas, hasLastReplicaAttemptTimedOut, HasActiveOperationIdTimedOut,
         isPreviouslyFailedAttemptOnReplicaDbFixed, Deploys
    <3>2. CASE Checks(mem, i)
      BY <3>2, HeldSteps DEF EnforcesReplicas, hasLastReplicaAttemptTimedOut, HasActiveOperationIdTimedOut,
         IsActiveOperationIdDifferentOf, isThereActiveOperation, Checks
    <3> QED BY <2>2, <3>1, <3>2
  <2>4. mem' = mem /\ sts' = sts /\ pc' = "services"
    BY <2>3 DEF EnforceReplicaDb, deployReplicaStatefulSet, undeployReplicaStatefulSets, ReplicasUnchanged,
       ReplicasSkipped, ReplicasEnforced
  <2>5. Settles(B)
    BY <2>4, FollowSettles
  <2> QED BY <1>1, <2>4, <2>5, QuietStep, SMTT(30) DEF GoesOn, SameOperations
<1> QED BY <1>3, <1>4

\* The enforcer of the services does nothing to the replicas.
LEMMA ServicesHeld ==
  ASSUME NEW B, PodsInv, HeldInv(B), DecidesInv(B), EnforceServices
  PROVE  HeldInv(B)' /\ DecidesInv(B)'
<1>1. /\ pc = "services" /\ pc' \in {"specs", "save"} /\ UNCHANGED <<status, seen, view, mem>>
      /\ UNCHANGED <<sts, deployed, running, wanted>>
  BY DEF EnforceServices, deployServices, deployServicesFails, ServicesEnforced
<1>2. Settles(B)
  BY <1>1, UnchangedSettles
<1> QED BY <1>1, <1>2, QuietStep DEF GoesOn, SameOperations

-----------------------------------------------------------------------------
(***************************************************************************)
(* The enforcer of the StatefulSets' spec.                                 *)
(***************************************************************************)
\* It stops at the replica that is held back, which has the wanted template.
LEMMA StopsAtTheHeldOne ==
  ASSUME NEW B, Typed(AllDiffs), DecidesInv(B), mem.active.id # ReplicaDbCount,
         NEW r \in DOMAIN seen, EnforcesSpecOf(r), NEW i \in heldWhenRead(B)
  PROVE  /\ i = r /\ Checks(mem, r) /\ seen[r].pod # "none" /\ specDifferences(r) = {}
         /\ unsettled(B, view.deployed[r], view.running[r], view.wanted)
<1>1. /\ pc = "specs" /\ i \in replicas(seen) /\ i \in DOMAIN seen /\ seen[i].role = "replica"
      /\ i \in Nat /\ r \in Nat
  BY DEF EnforcesSpecOf, EnforcesSpecs, heldWhenRead, HeldBack, replicas, Typed, IsStatefulSetMap
<1>2. Checks(mem, i) /\ IsLast(seen, view.deployed, view.wanted, i)
  BY <1>1, Zenon DEF DecidesInv, Decides, Deploys
<1>3. seen[i].pod # "none" /\ unsettled(B, view.deployed[i], view.running[i], view.wanted)
  BY <1>2, Zenon DEF IsLast, heldWhenRead, HeldBack
<1>4. stopsAt(i) /\ i \in getAllReverseSortedByInstanceIndex
  <2>1. i \in getAllReverseSortedByInstanceIndex
    BY <1>1 DEF getAllReverseSortedByInstanceIndex
  <2> QED BY <1>2, <2>1 DEF Checks, stopsAt, hasLastSpecUpdateAttemptTimedOut, HasActiveOperationIdTimedOut,
          isStatefulSetSpecUpdating, IsActiveOperationInTransition
<1>5. ASSUME r # i PROVE FALSE
  <2>1. comesBefore(r, i) /\ stopsAt(r)
    BY <1>4, <1>5 DEF EnforcesSpecOf
  <2>2. r \in replicas(seen) /\ r > i
    BY <1>1, <2>1 DEF comesBefore, replicas
  <2>3. specDifferences(r) = {}
    BY <1>2, <2>2 DEF IsLast, specDifferences, CheckForSpecDifferences
  <2>4. ~hasLastSpecUpdateAttemptTimedOut(r)
    BY <1>2, <1>5 DEF Checks, hasLastSpecUpdateAttemptTimedOut, HasActiveOperationIdTimedOut
  <2>5. ~isStatefulSetSpecUpdating(r)
    BY <1>2, <1>5 DEF Checks, isStatefulSetSpecUpdating, IsActiveOperationInTransition, Transition
  <2> QED BY <2>1, <2>3, <2>4, <2>5, SMTT(30) DEF stopsAt
<1>6. specDifferences(i) = {}
  BY <1>3 DEF unsettled, specDifferences, CheckForSpecDifferences
<1> QED BY <1>2, <1>3, <1>5, <1>6, SMTT(30)

\* With none held back when the list was read, a step that settles leaves none.
LEMMA NoneHeldYet ==
  ASSUME NEW B, DecidesInv(B), pc = "specs", mem.active.id # ReplicaDbCount, heldWhenRead(B) = {},
         Settles(B), UNCHANGED <<seen, view>>
  PROVE  HeldInv(B)' /\ DecidesInv(B)'
<1>1. held(B) = {}
  BY DEF DecidesInv, Decides, Deploys
<1>2. held(B)' = {}
  BY <1>1, SettlesHeld
<1>3. heldWhenRead(B)' = {}
  BY DEF heldWhenRead
<1> QED BY <1>2, <1>3, NothingHeld, SMTT(30)

\* An update that timed out is not tried again for the replica that is held back.
LEMMA TimedOutHeld ==
  ASSUME NEW B, Typed(AllDiffs), PodsInv, HeldInv(B), DecidesInv(B), mem.active.id # ReplicaDbCount,
         NEW r \in DOMAIN seen, SpecEnforcementTimedOut(r)
  PROVE  HeldInv(B)' /\ DecidesInv(B)'
<1>1. /\ EnforcesSpecOf(r) /\ hasLastSpecUpdateAttemptTimedOut(r) /\ pc = "specs"
      /\ UNCHANGED <<status, seen, view>> /\ UNCHANGED <<sts, deployed, running, wanted>>
  BY DEF SpecEnforcementTimedOut, SpecEnforced, EnforcesSpecOf, EnforcesSpecs
<1>2. Settles(B)
  BY <1>1, UnchangedSettles
<1>3. CASE heldWhenRead(B) = {}
  BY <1>1, <1>2, <1>3, NoneHeldYet, SMTT(30)
<1>4. CASE heldWhenRead(B) # {}
  <2>1. Checks(mem, r) /\ specDifferences(r) = {}
    BY <1>1, <1>4, StopsAtTheHeldOne, Zenon
  <2>2. areNewSpecChangesSameAsFailingSpecChanges(r)
    BY <1>1, <2>1 DEF Checks, areNewSpecChangesSameAsFailingSpecChanges, hasLastSpecUpdateAttemptTimedOut,
       HasActiveOperationIdTimedOut
  <2>3. mem' = mem /\ pc' = "save"
    BY <2>2 DEF SpecEnforcementTimedOut, SpecEnforced
  <2> QED BY <1>1, <1>2, <2>3, QuietStep DEF GoesOn, SameOperations
<1> QED BY <1>3, <1>4

\* A StatefulSet is updated only when none is held back, and the operation is about it then.
LEMMA UpdateHeld ==
  ASSUME NEW B, Typed(AllDiffs), TemplatesTyped, OrderInv, PodsInv, ReadInv, HeldInv(B), DecidesInv(B),
         mem.active.id # ReplicaDbCount, NEW r \in DOMAIN seen, enforceSpec(r)
  PROVE  HeldInv(B)' /\ DecidesInv(B)'
<1>1. /\ EnforcesSpecOf(r) /\ specDifferences(r) # {} /\ pc = "specs" /\ pc' = "save"
      /\ UNCHANGED <<seen, view, sts, wanted>>
  BY Zenon DEF enforceSpec, SpecEnforced, EnforcesSpecOf, EnforcesSpecs
<1>2. heldWhenRead(B) = {}
  BY <1>1, StopsAtTheHeldOne, Zenon
<1>3. held(B) = {}
  BY <1>1, <1>2, Zenon DEF DecidesInv, Decides, Deploys
<1>4. CASE UNCHANGED <<deployed, running>>
  BY <1>1, <1>2, <1>4, UnchangedSettles, NoneHeldYet, SMTT(30)
<1>5. CASE /\ r \in DOMAIN sts /\ sts[r] = seen[r]
           /\ deployed' = [deployed EXCEPT ![r] = view.wanted]
           /\ running' = [running EXCEPT ![r] = IF sts[r].pod = "none" THEN view.wanted ELSE @]
           /\ mem' = activateOperation(mem, "SpecUpdating", r, specDifferences(r))
  <2>1. /\ deployed'[r] = view.wanted /\ view.wanted = wanted
        /\ \A k \in DOMAIN sts \ {r} : deployed'[k] = deployed[k] /\ running'[k] = running[k]
        /\ sts[r].pod = "none" => running'[r] = view.wanted
    BY <1>1, <1>5, Zenon DEF TemplatesTyped, PodsTyped, ReadInv
  <2>2. ASSUME NEW k \in held(B)' PROVE k = r /\ k \in replicas(sts) /\ sts[k].pod # "none"
    <3>1. k \in replicas(sts) /\ k \in DOMAIN sts
      BY <1>1, Zenon DEF held, HeldBack, replicas
    <3>2. k = r
      BY <1>1, <1>3, <2>1, <3>1, SMTT(30) DEF held, HeldBack
    <3>3. ASSUME sts[r].pod = "none" PROVE FALSE
      <4>1. B = {}
        BY <1>3, <3>1, <3>2, <3>3, Zenon DEF held, HeldBack
      <4>2. unsettled(B, deployed'[r], running'[r], wanted)
        BY <1>1, <3>2, <4>1, Zenon DEF held, HeldBack
      <4> QED BY <2>1, <3>3, <4>1, <4>2 DEF unsettled
    <3> QED BY <3>1, <3>2, <3>3
  <2>3. ASSUME r \in replicas(sts), sts[r].pod # "none" PROVE IsLast(sts, deployed', wanted, r)
    <3>1. seen[r].role = "replica" /\ r \in Nat
      BY <1>5, <2>3 DEF replicas, Typed, IsStatefulSetMap
    <3>2. ASSUME NEW k \in replicas(sts), k > r PROVE deployed'[k] = wanted
      <4>1. k \in DOMAIN sts /\ k # r
        BY <3>1, <3>2 DEF replicas
      <4>2. deployed[k] = view.wanted
        <5>1. CASE k \in replicas(seen)
          <6>1. k \in DOMAIN seen /\ comesBefore(k, r)
            BY <3>1, <3>2, <5>1 DEF comesBefore, replicas
          <6> QED BY <4>1, <6>1, UpdateIsInOrder
        <5>2. CASE k \notin replicas(seen)
          BY <1>1, <5>2, Zenon DEF ReadInv
        <5> QED BY <5>1, <5>2
      <4> QED BY <2>1, <4>1, <4>2, SMTT(30)
    <3> QED BY <2>3, <3>2 DEF IsLast
  <2>4. mem'.changed = TRUE /\ Verifies(mem'.blocking, mem'.previousBlocking, r)
    <3>1. /\ "SpecUpdating" \in Steps /\ OperationIdOf["SpecUpdating"] = StatefulSetSpec
          /\ TimeOut["SpecUpdating"] \in Nat \ {0}
      <4>1. "SpecUpdating" \in Steps /\ OperationIdOf["SpecUpdating"] = StatefulSetSpec
        BY DEF Steps, OperationIdOf
      <4> QED BY <4>1, TimeOutAssumption
    <3>2. mem \in MemType(AllDiffs) /\ r \in Nat
      BY DEF Typed, IsStatefulSetMap
    <3>3. specDifferences(r) \in AllDiffs
      BY <1>1, DifferencesType, Zenon DEF specDifferences, TemplatesTyped, ViewTyped
    <3> DEFINE a == activateOperation(mem, "SpecUpdating", r, specDifferences(r))
    <3>4. a.blocking.id = OperationIdOf["SpecUpdating"] /\ a.blocking.step = "SpecUpdating"
      BY <3>1, <3>2, <3>3, DiffsFacts, ActivateFacts, SMTT(30)
    <3>5. a.blocking.idx = r /\ a.blocking.left = TimeOut["SpecUpdating"]
      BY <3>1, <3>2, <3>3, ActivatedDetails
    <3>6. a.changed = TRUE
      BY <3>2, ActivateChanges, Zenon
    <3>7. mem' = a
      BY <1>5
    <3> HIDE DEF a
    <3>8. a.blocking.left > 0
      BY <3>1, <3>5
    <3> QED BY <3>1, <3>4, <3>5, <3>6, <3>7, <3>8, Zenon DEF Verifies
  <2>5. HeldInv(B)'
    BY <1>1, <2>2, <2>3, <2>4, Zenon DEF HeldInv, HeldBy
  <2> QED BY <1>1, <2>5 DEF DecidesInv, Decides
<1> QED BY <1>4, <1>5, Zenon DEF enforceSpec, SpecEnforced

\* The pod that is deleted because it is stuck runs the wanted template when it is created.
LEMMA StuckPodHeld ==
  ASSUME NEW B, PodsStay(B), Typed(AllDiffs), TemplatesTyped, PodsInv, StuckInv(B), DecidesInv(B),
         mem.active.id # ReplicaDbCount, NEW r \in DOMAIN seen, handleWhenStuckPod(r)
  PROVE  HeldInv(B)' /\ DecidesInv(B)'
<1>1. /\ EnforcesSpecOf(r) /\ r \in view.stuck /\ pc = "specs" /\ pc' = "save"
      /\ UNCHANGED <<seen, view, deployed, wanted>>
  BY DEF handleWhenStuckPod, verifiesPodOf, SpecEnforced, EnforcesSpecOf, EnforcesSpecs
<1>2. B = {} /\ "deletePodFails" \notin Disruptions
  BY <1>1, Zenon DEF StuckInv, PodsStay
<1>3. \A k \in held(B) : k = r
  BY <1>1, StopsAtTheHeldOne, Zenon DEF DecidesInv, Decides, Deploys
<1>4. held(B)' = {}
  <2> SUFFICES ASSUME NEW k \in held(B)' PROVE FALSE
    OBVIOUS
  <2>0. k \in replicas(sts') /\ unsettled(B, deployed'[k], running'[k], wanted')
    BY <1>2, Zenon DEF held, HeldBack
  <2>1. CASE /\ r \in DOMAIN sts /\ sts' = [sts EXCEPT ![r].pod = "none"]
             /\ running' = [running EXCEPT ![r] = deployed[r]]
    <3>1. replicas(sts') = replicas(sts)
      BY <2>1, PodChange, Zenon DEF Typed
    <3>2. running'[r] = deployed[r] /\ \A j \in DOMAIN sts \ {r} : running'[j] = running[j]
      BY <2>1 DEF TemplatesTyped, PodsTyped
    <3>3. k # r
      BY <1>1, <1>2, <2>0, <3>2, Zenon DEF unsettled
    <3>4. running'[k] = running[k]
      BY <2>0, <3>1, <3>2, <3>3 DEF replicas
    <3> QED BY <1>1, <1>3, <2>0, <3>1, <3>3, <3>4, Zenon DEF held, HeldBack
  <2>2. CASE /\ UNCHANGED <<sts, running>>
             /\ ~(r \in DOMAIN sts /\ sts[r].pod # "none")
    <3>1. k \in held(B)
      BY <1>1, <2>0, <2>2, Zenon DEF held, HeldBack
    <3>2. k = r /\ k \in DOMAIN sts /\ sts[k].pod = "none"
      BY <1>3, <2>0, <2>2, <3>1, Zenon DEF replicas
    <3> QED BY <1>1, <1>2, <2>0, <2>2, <3>2, Zenon DEF PodsInv, unsettled
  <2> QED BY <1>2, <2>1, <2>2 DEF handleWhenStuckPod, Happens
<1> QED BY <1>1, <1>4, NothingHeld, Zenon DEF Decides

\* The verification of a pod goes on with an operation about the same replica.
LEMMA PodNotUpToDateHeld ==
  ASSUME NEW B, Typed(AllDiffs), HeldInv(B), DecidesInv(B),
         mem.active.id # ReplicaDbCount, NEW r \in DOMAIN seen, handleWhenPodSpecNotUpToDateOrNotReady(r)
  PROVE  HeldInv(B)' /\ DecidesInv(B)'
<1>1. /\ EnforcesSpecOf(r) /\ pc = "specs" /\ pc' = "save"
      /\ UNCHANGED <<sts, seen, view, deployed, running, wanted>>
      /\ mem' = activateOperation(mem, "PodSpecUpdating", podInstanceIndex(r), {})
  BY Zenon DEF handleWhenPodSpecNotUpToDateOrNotReady, verifiesPodOf, SpecEnforced, EnforcesSpecOf, EnforcesSpecs
<1>2. held(B)' = held(B)
  BY <1>1 DEF held
<1>3. ASSUME NEW i \in held(B)
      PROVE  /\ i = r /\ podInstanceIndex(r) = r
             /\ IsLast(sts, deployed, wanted, i)
  <2>1. i \in heldWhenRead(B)
    BY <1>1, Zenon DEF DecidesInv, Decides, Deploys
  <2>2. i = r /\ Checks(mem, r) /\ seen[r].pod # "none"
    BY <1>1, <2>1, StopsAtTheHeldOne, Zenon
  <2>3. HeldBy(mem.blocking, mem.previousBlocking, sts, deployed, running, wanted, i)
    BY <1>1, Zenon DEF HeldInv
  <2>4. ~Deploys(mem.blocking, i)
    BY <2>2, HeldSteps DEF Checks, Deploys
  <2> QED BY <2>2, <2>3, <2>4, Zenon DEF HeldBy, podInstanceIndex
<1>4. mem'.changed = TRUE /\ (podInstanceIndex(r) = r => Verifies(mem'.blocking, mem'.previousBlocking, r))
  <2>1. "PodSpecUpdating" \in Steps /\ OperationIdOf["PodSpecUpdating"] = StatefulSetSpec
    BY DEF Steps, OperationIdOf
  <2>2. mem \in MemType(AllDiffs) /\ podInstanceIndex(r) \in Nat
    BY DEF Typed, IsStatefulSetMap, podInstanceIndex
  <2> DEFINE a == activateOperation(mem, "PodSpecUpdating", podInstanceIndex(r), {})
  <2>3. a.blocking.id = OperationIdOf["PodSpecUpdating"] /\ a.blocking.step = "PodSpecUpdating"
    BY <2>1, <2>2, DiffsFacts, ActivateFacts, SMTT(30)
  <2>4. a.blocking.idx = podInstanceIndex(r) /\ a.blocking.diff = {}
    BY <2>1, <2>2, DiffsFacts, ActivatedDetails
  <2>5. a.changed = TRUE
    BY <2>2, ActivateChanges, Zenon
  <2>6. mem' = a
    BY <1>1
  <2> HIDE DEF a
  <2> QED BY <2>1, <2>3, <2>4, <2>5, <2>6, SMTT(30) DEF Verifies
<1>5. HeldInv(B)'
  BY <1>1, <1>2, <1>3, <1>4, Zenon DEF HeldInv, HeldBy
<1> QED BY <1>1, <1>5 DEF DecidesInv, Decides

\* A pod that is found up to date and ready is not the one that is held back.
LEMMA SpecUpdatedHeld ==
  ASSUME NEW B \in SUBSET BrokenImages, Typed(AllDiffs), PodsInv, ReadInv, DecidesInv(B),
         mem.active.id # ReplicaDbCount, NEW r \in DOMAIN seen, OnSpecUpdatedSuccessfully(r)
  PROVE  HeldInv(B)' /\ DecidesInv(B)'
<1>1. /\ EnforcesSpecOf(r) /\ podIsUpToDateAndReady(r) /\ pc = "specs"
      /\ UNCHANGED <<seen, view>> /\ UNCHANGED <<sts, deployed, running, wanted>>
  BY Zenon DEF OnSpecUpdatedSuccessfully, verifiesPodOf, SpecEnforced, EnforcesSpecOf, EnforcesSpecs
<1>2. heldWhenRead(B) = {}
  <2> SUFFICES ASSUME NEW i \in heldWhenRead(B) PROVE FALSE
    OBVIOUS
  <2>1. i = r /\ unsettled(B, view.deployed[r], view.running[r], view.wanted) /\ r \in replicas(seen)
    BY <1>1, StopsAtTheHeldOne, Zenon DEF heldWhenRead, HeldBack
  <2>2. /\ r \in ready(seen)
        /\ view.running[r].image = view.wanted.image /\ view.running[r].port = view.wanted.port
    BY <1>1, Zenon DEF podIsUpToDateAndReady, IsSpecUpToDate
  <2> QED BY <1>1, <2>1, <2>2, Zenon DEF ReadInv, unsettled
<1> QED BY <1>1, <1>2, UnchangedSettles, NoneHeldYet

\* Whatever the enforcer of the StatefulSets' spec does, the operation stays about the
\* replica that is held back.
LEMMA SpecsHeld ==
  ASSUME NEW B \in SUBSET BrokenImages, PodsStay(B), Typed(AllDiffs), TemplatesTyped, OrderInv, PodsInv,
         ReadInv, StuckInv(B), HeldInv(B), DecidesInv(B), EnforceStatefulSetsSpec
  PROVE  HeldInv(B)' /\ DecidesInv(B)'
<1>1. CASE SpecsUnchanged
  <2>1. /\ mem' = mem /\ pc = "specs" /\ pc' = "save" /\ UNCHANGED <<status, seen, view>>
        /\ UNCHANGED <<sts, deployed, running, wanted>>
    BY <1>1 DEF SpecsUnchanged, SpecEnforced
  <2>2. Settles(B)
    BY <2>1, UnchangedSettles
  <2> QED BY <2>1, <2>2, QuietStep DEF GoesOn, SameOperations
<1>2. ASSUME NEW r \in DOMAIN seen, EnforcesSpecOf(r) PROVE mem.active.id # ReplicaDbCount
  BY <1>2, HeldSteps DEF EnforcesSpecOf, EnforcesSpecs, IsActiveOperationIdDifferentOf, isThereActiveOperation
<1>3. ASSUME NEW r \in DOMAIN seen, SpecEnforcementTimedOut(r) PROVE HeldInv(B)' /\ DecidesInv(B)'
  BY <1>2, <1>3, TimedOutHeld DEF SpecEnforcementTimedOut
<1>4. ASSUME NEW r \in DOMAIN seen, enforceSpec(r) PROVE HeldInv(B)' /\ DecidesInv(B)'
  BY <1>2, <1>4, UpdateHeld, Zenon DEF enforceSpec
<1>5. ASSUME NEW r \in DOMAIN seen, handleWhenStuckPod(r) PROVE HeldInv(B)' /\ DecidesInv(B)'
  BY <1>2, <1>5, StuckPodHeld DEF handleWhenStuckPod, verifiesPodOf
<1>6. ASSUME NEW r \in DOMAIN seen, handleWhenPodSpecNotUpToDateOrNotReady(r)
      PROVE  HeldInv(B)' /\ DecidesInv(B)'
  BY <1>2, <1>6, PodNotUpToDateHeld, Zenon DEF handleWhenPodSpecNotUpToDateOrNotReady, verifiesPodOf
<1>7. ASSUME NEW r \in DOMAIN seen, OnSpecUpdatedSuccessfully(r) PROVE HeldInv(B)' /\ DecidesInv(B)'
  BY <1>2, <1>7, SpecUpdatedHeld, Zenon DEF OnSpecUpdatedSuccessfully, verifiesPodOf
<1> QED BY <1>1, <1>3, <1>4, <1>5, <1>6, <1>7 DEF EnforceStatefulSetsSpec

-----------------------------------------------------------------------------
(***************************************************************************)
(* All the steps.                                                          *)
(***************************************************************************)
\* No step leaves a replica held back with an operation that is about something else.
LEMMA NextHeld ==
  ASSUME NEW B \in SUBSET BrokenImages, StatusIsSaved, PodsAreInTime, PodsStay(B),
         Typed(AllDiffs), TemplatesTyped, ~outdated, OrderInv, PodsInv, ReadInv, StuckInv(B), ReplicaMountsInv,
         HeldInv(B), DecidesInv(B), NoEarlyReturn(B), [NextAll]_allVars
  PROVE  HeldInv(B)' /\ DecidesInv(B)'
<1>0. IsStatefulSetMap(sts) /\ Disruptions \cap {"crash", "editWhileReconciling"} = {}
  BY DEF Typed, StatusIsSaved
<1>1. ASSUME Settles(B), UNCHANGED <<status, seen, view, pc, mem>> PROVE HeldInv(B)' /\ DecidesInv(B)'
  BY <1>1, QuietStep, SMTT(30) DEF SameOperations, GoesOn
<1>2. ASSUME UNCHANGED allVars PROVE HeldInv(B)' /\ DecidesInv(B)'
  <2>1. UNCHANGED <<status, seen, view, pc, mem>> /\ UNCHANGED <<sts, deployed, running, wanted>>
    BY <1>2, SMTT(30) DEF allVars, clusterVars, templateVars
  <2> QED BY <1>1, <2>1, UnchangedSettles, SMTT(30)
<1>3. CASE ReconcileAll
  <2>1. CASE LoadAll
    BY <2>1, LoadHeld
  <2>2. CASE LoadFails /\ UNCHANGED templateVars
    BY <1>2, <2>2, SMTT(30) DEF LoadFails, allVars
  <2>3. CASE EnforcePrimaryDb /\ TemplatesFollow(promoted) /\ UNCHANGED view
    BY <2>3, PrimaryHeld
  <2>4. CASE EnforceReplicaDb /\ TemplatesFollow(promoted) /\ UNCHANGED view
    BY <2>4, ReplicaHeld
  <2>5. CASE EnforceServices
    BY <2>5, ServicesHeld
  <2>6. CASE EnforceStatefulSetsSpec
    BY <2>6, SpecsHeld
  <2>7. CASE pc = "save" /\ (SaveStatus \/ SaveRefused) /\ TemplatesFollow({})
    BY <2>7, SaveHeld
  <2> QED BY <1>3, <2>1, <2>2, <2>3, <2>4, <2>5, <2>6, <2>7, SMTT(30) DEF ReconcileAll
<1>4. CASE CrashAll
  BY <1>0, <1>4 DEF CrashAll, Crash, Happens
<1>5. CASE ClusterStep
  BY <1>0, <1>1, <1>5, ClusterStepSettles
<1>6. CASE TemplateChanges
  <2>1. CASE \E t \in Templates : UserChangesTemplate(t)
    BY <1>0, <2>1, UserChangesTemplateHeld
  <2>2. CASE ~\E t \in Templates : UserChangesTemplate(t)
    BY <1>0, <1>1, <1>6, <2>2, TemplateChangesSettle, SMTT(30)
  <2> QED BY <2>1, <2>2
<1>7. CASE TimePasses
  BY <1>7, TimePassesHeld
<1> QED BY <1>2, <1>3, <1>4, <1>5, <1>6, <1>7, SMTT(30) DEF NextAll
=============================================================================
