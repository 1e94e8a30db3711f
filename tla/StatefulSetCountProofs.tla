------------------------- MODULE StatefulSetCountProofs -------------------------
(***************************************************************************)
(* Proofs about the count of instances, for any time-outs, any numbers of  *)
(* replicas and any number of disruptions: the type invariant; that there  *)
(* is only one primary, and InstanceRoles is implemented, as long as no    *)
(* status update is lost and the deletion of a failing primary does not    *)
(* fail; and, with any disruptions at all, crashes and lost status updates *)
(* included, that no replica is promoted before the wait is over and no    *)
(* StatefulSet is deleted without leaving an instance that was seen ready. *)
(***************************************************************************)
EXTENDS StatefulSetCount, TLAPS

(***************************************************************************)
(* The types of the status and of the memory, for any set D of the spec    *)
(* differences that an operation may carry: here there are none, the       *)
(* enforcer of the StatefulSets' spec has some.                            *)
(***************************************************************************)
StatusType(D) ==
  [blocking: Operation(D), previousBlocking: Operation(D), last: Nat, enforced: Int]

MemType(D) ==
  [ active: Operation(D), previous: Operation(D), blocking: Operation(D),
    previousBlocking: Operation(D), changed: BOOLEAN, last: Nat, enforced: Int, spec: Specs ]

(***************************************************************************)
(* The inductive invariant for OnlyOnePrimary.  A replica is promoted when *)
(* the operation says that the wait before the fail-over is over; so no    *)
(* primary may be left while an operation says so, in memory or in the     *)
(* status.  Between the promotion and the save the status still says so,   *)
(* and the save must then be sure to overwrite it.                         *)
(***************************************************************************)
NothingIsLost ==
  Disruptions \cap {"deletePrimaryFails", "saveFails", "crash", "editWhileReconciling"} = {}

\* No status update is lost.
StatusIsSaved == Disruptions \cap {"saveFails", "crash", "editWhileReconciling"} = {}

NoPrimary == primaries(sts) = {}

Waits(op) == op.id = PrimaryDbCount /\ op.step \in {"WaitingBeforeFailingOver", Transition}

PrimaryStep(op) ==
  op.id = PrimaryDbCount =>
    op.step \in {"PrimaryDbDeploying", "WaitingBeforeFailingOver", "FailingOver", Transition}

\* Replica i is being deployed.
Deploys(op, i) == op.id = ReplicaDbCount /\ op.step = "ReplicaDbDeploying" /\ op.idx = i

Sync(m) == m.active.id = m.blocking.id /\ m.active.step = m.blocking.step

OnePrimaryInv ==
  /\ \A i, j \in primaries(sts) : i = j
  /\ ~outdated
  /\ PrimaryStep(status.blocking) /\ PrimaryStep(mem.blocking)
  /\ pc \in {"primary", "replica"} => Sync(mem)
  /\ pc = "primary" => primaries(sts) \subseteq primaries(seen)
  /\ Waits(mem.blocking) => NoPrimary
  /\ Waits(status.blocking) /\ ~NoPrimary =>
       /\ pc \in {"replica", "services", "specs", "save"}
       /\ mem.changed /\ ~Waits(mem.blocking)
       /\ pc = "replica" => mem.active.id = PrimaryDbCount

-----------------------------------------------------------------------------
(***************************************************************************)
(* Facts about operations and their steps.                                 *)
(***************************************************************************)
\* The steps of the configs: none is the transition step, nor the empty step.
LEMMA StepsFacts ==
  /\ Transition \notin Steps /\ "" \notin Steps
  /\ StepsMovingToTransition \subseteq Steps
  /\ "WaitingBeforeFailingOver" \in Steps
  /\ \A s \in Steps : OperationIdOf[s] \in OperationIds /\ OperationIdOf[s] # ""
  /\ \A s \in StepsMovingToTransition :
       s \notin StepsWithCompletionChecker => s = "WaitingBeforeFailingOver"
<1>1. Steps = {"BaseConfigDeploying", "PrimaryDbDeploying", "WaitingBeforeFailingOver",
               "FailingOver", "ReplicaDbDeploying", "ReplicaDbUndeploying", "SpecUpdating",
               "PodSpecUpdating", "WaitingOnStuckPod"}
  BY DEF Steps, OperationIdOf
<1>2. \A s \in Steps : OperationIdOf[s] \in OperationIds /\ OperationIdOf[s] # ""
  <2>1. /\ OperationIdOf["BaseConfigDeploying"] = BaseConfigCount
        /\ OperationIdOf["PrimaryDbDeploying"] = PrimaryDbCount
        /\ OperationIdOf["WaitingBeforeFailingOver"] = PrimaryDbCount
        /\ OperationIdOf["FailingOver"] = PrimaryDbCount
        /\ OperationIdOf["ReplicaDbDeploying"] = ReplicaDbCount
        /\ OperationIdOf["ReplicaDbUndeploying"] = ReplicaDbCount
        /\ OperationIdOf["SpecUpdating"] = StatefulSetSpec
        /\ OperationIdOf["PodSpecUpdating"] = StatefulSetSpec
        /\ OperationIdOf["WaitingOnStuckPod"] = StatefulSetSpec
    BY DEF OperationIdOf
  <2>2. "" \notin OperationIds
    BY DEF OperationIds, BaseConfigCount, PrimaryDbCount, ReplicaDbCount, StatefulSetSpec
  <2> QED BY <1>1, <2>1, <2>2 DEF OperationIds
<1> QED BY <1>1, <1>2 DEF Transition, StepsMovingToTransition, StepsWithCompletionChecker

\* The passing of time changes nothing but the time left.
LEMMA ElapseFacts ==
  ASSUME NEW D, NEW op \in Operation(D)
  PROVE  /\ Elapse(op) \in Operation(D)
         /\ Elapse(op).id = op.id /\ Elapse(op).step = op.step /\ Elapse(op).idx = op.idx
         /\ op.left = 0 => Elapse(op).left = 0
<1> DEFINE left == IF op.left > 0 THEN op.left - 1 ELSE 0
<1>0. op.left \in Nat
  BY DEF Operation
<1>1. left \in Nat /\ (op.left = 0 => left = 0)
  BY <1>0
<1>2. Elapse(op) = [op EXCEPT !.left = left]
  BY DEF Elapse
<1> HIDE DEF left
<1> QED BY <1>1, <1>2 DEF Operation

-----------------------------------------------------------------------------
(***************************************************************************)
(* The operations of the blocking operation on the memory.                 *)
(***************************************************************************)
LEMMA StepIds ==
  /\ OperationIdOf["PrimaryDbDeploying"] = PrimaryDbCount
  /\ OperationIdOf["WaitingBeforeFailingOver"] = PrimaryDbCount
  /\ OperationIdOf["FailingOver"] = PrimaryDbCount
  /\ OperationIdOf["ReplicaDbDeploying"] = ReplicaDbCount
  /\ OperationIdOf["ReplicaDbUndeploying"] = ReplicaDbCount
  /\ {"PrimaryDbDeploying", "WaitingBeforeFailingOver", "FailingOver", "ReplicaDbDeploying",
      "ReplicaDbUndeploying"} \subseteq Steps
  /\ PrimaryDbCount # ReplicaDbCount /\ PrimaryDbCount # "" /\ ReplicaDbCount # ""
<1>1. "PrimaryDbDeploying" \in Steps /\ "WaitingBeforeFailingOver" \in Steps
      /\ "FailingOver" \in Steps /\ "ReplicaDbDeploying" \in Steps /\ "ReplicaDbUndeploying" \in Steps
  BY DEF Steps, OperationIdOf
<1> QED BY <1>1 DEF OperationIdOf, PrimaryDbCount, ReplicaDbCount

\* No operation is a well-formed operation, and not a wait.
LEMMA NoOperationFacts ==
  ASSUME NEW D, {} \in D
  PROVE  NoOperation \in Operation(D) /\ ~Waits(NoOperation) /\ PrimaryStep(NoOperation)
BY StepIds DEF NoOperation, Operation, Waits, PrimaryStep

\* The memory between two reconciliations is well formed and holds no operation.
LEMMA NoMemType ==
  ASSUME NEW D, {} \in D PROVE NoMem \in MemType(D) /\ NoMem.blocking = NoOperation
<1>1. [replicas |-> 0, failoverDisabled |-> FALSE, promotePod |-> 0, standby |-> FALSE] \in Specs
  BY DEF Specs
<1> QED BY <1>1, NoOperationFacts DEF NoMem, MemType

\* activateOperation starts the step, in the struct and in the status in memory.
LEMMA ActivateFacts ==
  ASSUME NEW D, {} \in D, NEW m \in MemType(D), NEW step \in Steps, NEW idx \in Nat,
         NEW diff \in D
  PROVE  LET a == activateOperation(m, step, idx, diff)
         IN /\ a \in MemType(D) /\ a.active = a.blocking
            /\ a.blocking.id = OperationIdOf[step] /\ a.blocking.step = step
            /\ a.last = m.last /\ a.enforced = m.enforced /\ a.spec = m.spec
<1> DEFINE op == [createOperationObj(step, idx, diff) EXCEPT !.left = TimeOut[step]]
<1>1. op \in Operation(D) /\ op.step = step /\ op.id = OperationIdOf[step]
  BY StepsFacts, TimeOutAssumption DEF createOperationObj, Operation
<1>2. activateOperation(m, step, idx, diff) = [m EXCEPT !.active = op, !.blocking = op, !.changed = TRUE]
  BY DEF activateOperation, SetBlockingOperation
<1> HIDE DEF op
<1> QED BY <1>1, <1>2, Zenon DEF MemType

\* It has to be saved.
LEMMA ActivateChanges ==
  ASSUME NEW D, NEW m \in MemType(D), NEW step, NEW idx, NEW diff
  PROVE  activateOperation(m, step, idx, diff).changed = TRUE
<1> DEFINE op == [createOperationObj(step, idx, diff) EXCEPT !.left = TimeOut[step]]
<1>1. activateOperation(m, step, idx, diff) = [m EXCEPT !.active = op, !.blocking = op, !.changed = TRUE]
  BY DEF activateOperation, SetBlockingOperation
<1> HIDE DEF op
<1> QED BY <1>1 DEF MemType

\* remember only writes the previous operation.
LEMMA RememberFacts ==
  ASSUME NEW D, {} \in D, NEW m \in MemType(D), NEW timedOut \in BOOLEAN
  PROVE  LET r == remember(m, timedOut)
         IN /\ r \in MemType(D) /\ r.active = m.active
            /\ r.last = m.last /\ r.enforced = m.enforced /\ r.spec = m.spec
<1>1. [m.active EXCEPT !.timedOut = timedOut, !.left = 0] \in Operation(D)
  BY DEF MemType, Operation
<1> QED BY <1>1, Zenon DEF remember, SetPreviousBlockingOperation, MemType

\* removeActiveOperation leaves no operation.
LEMMA RemoveFacts ==
  ASSUME NEW D, {} \in D, NEW m \in MemType(D), NEW timedOut \in BOOLEAN
  PROVE  LET r == removeActiveOperation(m, timedOut)
         IN /\ r \in MemType(D) /\ r.changed = TRUE
            /\ r.active = NoOperation /\ r.blocking = NoOperation
            /\ r.last = m.last /\ r.enforced = m.enforced /\ r.spec = m.spec
<1> DEFINE r == IF isOperationInTransition(m) THEN m ELSE remember(m, timedOut)
<1>1. r \in MemType(D) /\ r.last = m.last /\ r.enforced = m.enforced /\ r.spec = m.spec
  BY RememberFacts
<1>2. removeActiveOperation(m, timedOut)
        = [r EXCEPT !.active = NoOperation, !.blocking = NoOperation, !.changed = TRUE]
  BY DEF removeActiveOperation, SetBlockingOperation
<1> HIDE DEF r
<1> QED BY <1>1, <1>2, NoOperationFacts, Zenon DEF MemType

\* Loading the operation leaves the struct and the status in memory in accord, keeps
\* the counters, starts no operation, and makes of an operation on the primary a wait
\* only if it was one.
LEMMA LoadFacts ==
  ASSUME NEW D, {} \in D, NEW m \in MemType(D), NEW reached
  PROVE  LET l == LoadActiveOperation(m, reached)
         IN /\ l \in MemType(D) /\ Sync(l) /\ l.active.id \in {"", m.blocking.id}
            /\ l.last = m.last /\ l.enforced = m.enforced /\ l.spec = m.spec
            /\ PrimaryStep(m.blocking) =>
                 PrimaryStep(l.blocking) /\ (Waits(l.blocking) => Waits(m.blocking))
<1> DEFINE l == [m EXCEPT !.active = m.blocking, !.previous = m.previousBlocking]
           Good(n) == /\ n \in MemType(D) /\ Sync(n) /\ n.active.id \in {"", m.blocking.id}
                      /\ n.last = m.last /\ n.enforced = m.enforced /\ n.spec = m.spec
                      /\ PrimaryStep(m.blocking) =>
                           PrimaryStep(n.blocking) /\ (Waits(n.blocking) => Waits(m.blocking))
<1>1. /\ l \in MemType(D) /\ l.active = m.blocking /\ l.blocking = m.blocking
      /\ l.last = m.last /\ l.enforced = m.enforced /\ l.spec = m.spec
  BY Zenon DEF MemType
<1>2. LoadActiveOperation(m, reached) = removeOperationIfNotActive(l, reached)
  BY DEF LoadActiveOperation
<1> HIDE DEF l
<1>3. Good(l)
  BY <1>1 DEF Sync
<1>4. Good([l EXCEPT !.active.timedOut = TRUE])
  <2>1. [l.active EXCEPT !.timedOut = TRUE] \in Operation(D)
    BY <1>1 DEF MemType, Operation
  <2>2. /\ [l.active EXCEPT !.timedOut = TRUE].id = l.active.id
        /\ [l.active EXCEPT !.timedOut = TRUE].step = l.active.step
    BY <1>1 DEF MemType, Operation
  <2> QED BY <1>1, <1>3, <2>1, <2>2 DEF MemType, Sync
<1>5. ASSUME NEW timedOut \in BOOLEAN PROVE Good(endOperation(l, timedOut))
  <2>1. CASE l.active.step \notin StepsMovingToTransition
    <3>1. endOperation(l, timedOut) = removeActiveOperation(l, timedOut)
      BY <2>1 DEF endOperation
    <3>2. /\ removeActiveOperation(l, timedOut) \in MemType(D)
          /\ removeActiveOperation(l, timedOut).active = NoOperation
          /\ removeActiveOperation(l, timedOut).blocking = NoOperation
          /\ removeActiveOperation(l, timedOut).last = l.last
          /\ removeActiveOperation(l, timedOut).enforced = l.enforced
          /\ removeActiveOperation(l, timedOut).spec = l.spec
      BY <1>1, RemoveFacts, ZenonT(30)
    <3>3. NoOperation.id = ""
      BY DEF NoOperation
    <3> QED BY <1>1, <3>1, <3>2, <3>3, NoOperationFacts DEF Sync
  <2>2. CASE l.active.step \in StepsMovingToTransition
    <3> DEFINE r == remember(l, timedOut)
               op == [l.active EXCEPT !.step = Transition, !.timedOut = FALSE, !.left = 0]
    <3>1. r \in MemType(D) /\ r.last = l.last /\ r.enforced = l.enforced /\ r.spec = l.spec
      BY <1>1, RememberFacts
    <3>2. op \in Operation(D) /\ op.id = m.blocking.id /\ op.step = Transition
      BY <1>1 DEF MemType, Operation
    <3>3. endOperation(l, timedOut) = [r EXCEPT !.active = op, !.blocking = op, !.changed = TRUE]
      BY <2>2 DEF endOperation, setActiveOperationInTransition, SetBlockingOperation
    <3>4. PrimaryStep(m.blocking) => PrimaryStep(op) /\ (Waits(op) => Waits(m.blocking))
      <4> HIDE DEF op
      <4> QED BY <1>1, <2>2, <3>2 DEF PrimaryStep, Waits, StepsMovingToTransition, Transition
    <3> HIDE DEF r, op
    <3> QED BY <1>1, <3>1, <3>2, <3>3, <3>4 DEF MemType, Sync
  <2> QED BY <2>1, <2>2
<1> HIDE DEF Good
<1>6. Good(removeOperationIfNotActive(l, reached))
  BY <1>3, <1>4, <1>5, Zenon DEF removeOperationIfNotActive
<1> QED BY <1>2, <1>6 DEF Good

-----------------------------------------------------------------------------
(***************************************************************************)
(* The enforcers on the memory and on the StatefulSets.                    *)
(***************************************************************************)
Typed(D) ==
  /\ spec \in Specs /\ status \in StatusType(D) /\ mem \in MemType(D)
  /\ IsStatefulSetMap(sts) /\ IsStatefulSetMap(seen)
  /\ pvcs \subseteq Nat \ {0} /\ lastPrimary \in Nat
  /\ outdated \in BOOLEAN /\ budget \in 0..MaxDisruptions

PcTyped == pc \in {"idle", "primary", "replica", "services", "save"}

\* The type invariant in the form the proofs expand.
LEMMA TypedIsTypeOK == Typed({{}}) /\ PcTyped <=> TypeOK
BY DEF Typed, PcTyped, TypeOK, StatusType, MemType

\* Enforce of the primary leaves the operation as it is, or removes it; it counts
\* nothing, unless the resource was created by a version without enforcedReplicas.
LEMMA ReEnabledFacts ==
  ASSUME NEW D, {} \in D, mem \in MemType(D)
  PROVE  /\ initialised \in MemType(D) /\ reEnabled \in MemType(D)
         /\ initialised.active = mem.active /\ initialised.blocking = mem.blocking
         /\ \/ reEnabled.active = mem.active /\ reEnabled.blocking = mem.blocking
            \/ reEnabled.active = NoOperation /\ reEnabled.blocking = NoOperation
         /\ reEnabled.last = mem.last /\ reEnabled.spec = mem.spec
         /\ reEnabled.enforced = initialised.enforced
         /\ (mem.spec.replicas = Cardinality(DOMAIN seen) => mem.enforced >= mem.spec.replicas)
              => initialised = mem
<1>1. /\ initialised \in MemType(D)
      /\ initialised.active = mem.active /\ initialised.blocking = mem.blocking
      /\ initialised.last = mem.last /\ initialised.spec = mem.spec
  <2> DEFINE set == [mem EXCEPT !.enforced = mem.spec.replicas, !.changed = TRUE]
  <2>1. mem.spec.replicas \in Int
    BY DEF MemType, Specs
  <2>2. /\ set \in MemType(D) /\ set.active = mem.active /\ set.blocking = mem.blocking
        /\ set.last = mem.last /\ set.spec = mem.spec
    BY <2>1, Zenon DEF MemType
  <2>3. initialised \in {mem, set}
    BY DEF initialised, initialiseStatusEnforcedReplicas
  <2> QED BY <2>2, <2>3, Zenon
<1>2. ASSUME mem.spec.replicas = Cardinality(DOMAIN seen) => mem.enforced >= mem.spec.replicas
      PROVE  initialised = mem
  <2>1. mem.spec.replicas \in Nat /\ mem.enforced \in Int
    BY DEF MemType, Specs
  <2> QED BY <1>2, <2>1 DEF initialised, initialiseStatusEnforcedReplicas
<1> QED BY <1>1, <1>2, RemoveFacts, Zenon DEF reEnabled, RemoveActiveOperation

\* So does Enforce of the replicas when it begins.
LEMMA FixedReplicaFacts ==
  ASSUME NEW D, {} \in D, mem \in MemType(D)
  PROVE  /\ fixedReplica \in MemType(D)
         /\ \/ fixedReplica = mem
            \/ /\ fixedReplica.active = NoOperation /\ fixedReplica.blocking = NoOperation
               /\ fixedReplica.changed = TRUE
         /\ fixedReplica.last = mem.last /\ fixedReplica.enforced = mem.enforced
         /\ fixedReplica.spec = mem.spec
BY RemoveFacts, Zenon DEF fixedReplica, RemoveActiveOperation

\* The answer of the API server to an update is decoded into an operation.
LEMMA DecodedOperationType ==
  ASSUME NEW D, {} \in D, NEW stored \in Operation(D), NEW held \in Operation(D)
  PROVE  decodedOperation(stored, held) \in Operation(D)
<1>1. /\ stored.id \in OperationIds \cup {""} /\ stored.step \in Steps \cup {Transition, ""}
      /\ stored.idx \in Nat /\ stored.diff \in D /\ stored.left \in Nat /\ stored.timedOut \in BOOLEAN
  BY DEF Operation
<1>2. /\ held.id \in OperationIds \cup {""} /\ held.step \in Steps \cup {Transition, ""}
      /\ held.idx \in Nat /\ held.diff \in D /\ held.left \in Nat /\ held.timedOut \in BOOLEAN
  BY DEF Operation
<1>4. /\ orElse(stored.id, held.id, "") \in OperationIds \cup {""}
      /\ orElse(stored.step, held.step, "") \in Steps \cup {Transition, ""}
      /\ orElse(stored.idx, held.idx, 0) \in Nat
      /\ orElse(stored.diff, held.diff, {}) \in D
      /\ orElse(stored.left, held.left, 0) \in Nat
  BY <1>1, <1>2 DEF orElse
<1>5. (stored.timedOut \/ held.timedOut) \in BOOLEAN
  OBVIOUS
<1> QED BY <1>4, <1>5 DEF decodedOperation, Operation

\* Resetting failover.promotePod keeps the struct; the status in memory is kept
\* too, or overwritten by the decoded answer.
LEMMA ResetFacts ==
  ASSUME NEW D, {} \in D, NEW m \in MemType(D), status \in StatusType(D), NEW r \in ResetOutcome(m)
  PROVE  /\ r.mem \in MemType(D) /\ r.mem.active = m.active
         /\ \/ r.mem.blocking = m.blocking
            \/ r.mem.blocking = decodedOperation(status.blocking, m.blocking)
         /\ r.mem.changed = m.changed /\ r.mem.spec.standby = m.spec.standby
         /\ r.mem.last \in {m.last, orElse(status.last, m.last, 0)}
         /\ r.mem.enforced \in {m.enforced, orElse(status.enforced, m.enforced, 0)}
<1> DEFINE done == [m EXCEPT !.spec.promotePod = 0]
<1>1. /\ done \in MemType(D) /\ done.active = m.active /\ done.blocking = m.blocking
      /\ done.changed = m.changed /\ done.spec.standby = m.spec.standby
      /\ done.last = m.last /\ done.enforced = m.enforced
  <2>1. /\ [m.spec EXCEPT !.promotePod = 0] \in Specs
        /\ [m.spec EXCEPT !.promotePod = 0].standby = m.spec.standby
    BY DEF MemType, Specs
  <2> QED BY <2>1, Zenon DEF MemType
<1>2. r \in {[mem |-> m, updated |-> FALSE, failures |-> {}],
             [mem |-> decodedStatus(done), updated |-> TRUE, failures |-> {}],
             [mem |-> done, updated |-> FALSE, failures |-> {}],
             [mem |-> done, updated |-> FALSE, failures |-> {"updateSpecFails"}]}
  BY DEF ResetOutcome
<1> HIDE DEF done
<1>3. r.mem \in {m, done, decodedStatus(done)}
  BY <1>2
<1>4. /\ decodedStatus(done) \in MemType(D)
      /\ decodedStatus(done).active = done.active
      /\ decodedStatus(done).blocking = decodedOperation(status.blocking, done.blocking)
      /\ decodedStatus(done).changed = done.changed /\ decodedStatus(done).spec = done.spec
      /\ decodedStatus(done).last = orElse(status.last, done.last, 0)
      /\ decodedStatus(done).enforced = orElse(status.enforced, done.enforced, 0)
  <2> DEFINE b == decodedOperation(status.blocking, done.blocking)
             q == decodedOperation(status.previousBlocking, done.previousBlocking)
             n == orElse(status.last, done.last, 0)
             e == orElse(status.enforced, done.enforced, 0)
  <2>1. b \in Operation(D) /\ q \in Operation(D)
    BY <1>1, DecodedOperationType DEF MemType, StatusType
  <2>2. n \in Nat /\ e \in Int
    BY <1>1 DEF MemType, StatusType, orElse
  <2>3. decodedStatus(done)
          = [done EXCEPT !.blocking = b, !.previousBlocking = q, !.last = n, !.enforced = e]
    BY DEF decodedStatus
  <2> HIDE DEF b, q, n, e
  <2>4. decodedStatus(done) \in MemType(D) /\ decodedStatus(done).active = done.active
        /\ decodedStatus(done).blocking = b
        /\ decodedStatus(done).changed = done.changed /\ decodedStatus(done).spec = done.spec
        /\ decodedStatus(done).last = n /\ decodedStatus(done).enforced = e
    BY <1>1, <2>1, <2>2, <2>3, Zenon DEF MemType
  <2> QED BY <2>4 DEF b, n, e
<1> QED BY <1>1, <1>3, <1>4

\* Creating, deleting and changing StatefulSets.
LEMMA StatefulSetFacts ==
  ASSUME IsStatefulSetMap(sts)
  PROVE  /\ \A i \in Nat \ {0}, role \in Roles : IsStatefulSetMap(Created(i, role))
         /\ \A S : IsStatefulSetMap([j \in DOMAIN sts \ S |-> sts[j]])
         /\ \A i \in DOMAIN sts, w \in StatefulSets : IsStatefulSetMap([sts EXCEPT ![i] = w])
<1>1. ASSUME NEW i \in Nat \ {0}, NEW role \in Roles PROVE IsStatefulSetMap(Created(i, role))
  <2>1. [role |-> role, pod |-> "none"] \in StatefulSets
    BY DEF StatefulSets, Pods
  <2> QED BY <2>1 DEF IsStatefulSetMap, Created
<1>2. ASSUME NEW S PROVE IsStatefulSetMap([j \in DOMAIN sts \ S |-> sts[j]])
  BY DEF IsStatefulSetMap
<1>3. ASSUME NEW i \in DOMAIN sts, NEW w \in StatefulSets PROVE IsStatefulSetMap([sts EXCEPT ![i] = w])
  BY DEF IsStatefulSetMap
<1> QED BY <1>1, <1>2, <1>3

\* Users, pods and time move no reconciliation.
LEMMA EnvironmentPc == Environment => pc' = pc /\ seen' = seen
BY Zenon DEF Environment, ClusterChanges, PodProgress, PodStarts, PodBecomesReady, PodFails, PodLost, SetPod,
   StatefulSetDeleted, PvcDeleted, UserChangesSpec, UserEdits, Tick, reconcileVars

\* Disruptions never overdraw the budget.
LEMMA HappensType ==
  ASSUME budget \in 0..MaxDisruptions, NEW kinds, Happens(kinds)
  PROVE  budget' \in 0..MaxDisruptions
BY ClusterAssumption DEF Happens

\* The replica to promote and the replica to undeploy are among those listed.
LEMMA InstanceIndexes ==
  ASSUME IsStatefulSetMap(seen)
  PROVE  /\ \A m : selectReplicaToPromote(m, seen) \subseteq replicas(seen)
         /\ replicaToUndeploy \subseteq replicas(seen)
         /\ replicas(seen) \subseteq Nat \ {0}
<1>1. replicas(seen) \subseteq Nat \ {0}
  BY DEF replicas, IsStatefulSetMap
<1>2. ASSUME NEW m PROVE selectReplicaToPromote(m, seen) \subseteq replicas(seen)
  <2>1. CASE isManualFailoverRequested(m, seen)
    BY <2>1 DEF selectReplicaToPromote, isManualFailoverRequested, getInstanceIndexToManuallyPromote
  <2>2. CASE ~isManualFailoverRequested(m, seen)
    BY <2>2 DEF selectReplicaToPromote, first
  <2> QED BY <2>1, <2>2
<1>3. replicaToUndeploy \subseteq replicas(seen)
  BY DEF replicaToUndeploy, first, last
<1> QED BY <1>1, <1>2, <1>3

-----------------------------------------------------------------------------
(***************************************************************************)
(* The type invariant.                                                     *)
(***************************************************************************)
LEMMA InitTyped ==
  ASSUME NEW D, {} \in D PROVE Init => Typed(D)
<1> SUFFICES ASSUME Init PROVE Typed(D)
  OBVIOUS
<1>1. spec \in Specs
  <2>1. PICK n \in Replicas, b \in BOOLEAN :
          spec = [replicas |-> n, failoverDisabled |-> FALSE, promotePod |-> 0, standby |-> b]
    BY Zenon DEF Init
  <2>2. n \in Nat
    BY ClusterAssumption
  <2> QED BY <2>1, <2>2 DEF Specs
<1>2. status \in StatusType(D)
  BY NoOperationFacts DEF Init, StatusType
<1>3. IsStatefulSetMap(NoStatefulSets)
  BY DEF IsStatefulSetMap, NoStatefulSets
<1>4. budget \in 0..MaxDisruptions
  BY ClusterAssumption DEF Init
<1>5. /\ mem \in MemType(D) /\ IsStatefulSetMap(sts) /\ IsStatefulSetMap(seen)
      /\ pvcs \subseteq Nat \ {0} /\ lastPrimary \in Nat
      /\ pc \in {"idle", "primary", "replica", "services", "save"} /\ outdated \in BOOLEAN
  BY <1>3, NoMemType, Zenon DEF Init
<1> QED BY <1>1, <1>2, <1>4, <1>5 DEF Typed

\* What the environment changes keeps its type.
LEMMA EnvironmentTyped ==
  ASSUME NEW D, {} \in D PROVE Typed(D) /\ Environment => Typed(D)'
<1> SUFFICES ASSUME Typed(D), Environment PROVE Typed(D)'
  OBVIOUS
<1> USE DEF Typed
<1>1. ASSUME NEW i \in DOMAIN sts, NEW pod \in Pods, SetPod(i, pod), NEW kinds, Happens(kinds)
      PROVE  Typed(D)'
  <2>1. [sts[i] EXCEPT !.pod = pod] \in StatefulSets
    BY DEF IsStatefulSetMap, StatefulSets
  <2>2. sts' = [sts EXCEPT ![i] = [sts[i] EXCEPT !.pod = pod]]
    BY <1>1 DEF SetPod
  <2>3. IsStatefulSetMap(sts')
    BY <2>1, <2>2, StatefulSetFacts, Zenon
  <2>4. budget' \in 0..MaxDisruptions
    BY <1>1, HappensType
  <2> QED BY <1>1, <2>3, <2>4 DEF SetPod, reconcileVars
<1>2. ASSUME NEW i \in DOMAIN sts, PodProgress(i) \/ PodFails(i) \/ PodLost(i) PROVE Typed(D)'
  BY <1>1, <1>2 DEF PodProgress, PodStarts, PodBecomesReady, PodFails, PodLost, Pods
<1>3. ASSUME NEW i \in DOMAIN sts, StatefulSetDeleted(i) PROVE Typed(D)'
  <2>1. IsStatefulSetMap(sts')
    BY <1>3, StatefulSetFacts, Zenon DEF StatefulSetDeleted
  <2>2. budget' \in 0..MaxDisruptions
    BY <1>3, HappensType DEF StatefulSetDeleted
  <2> QED BY <1>3, <2>1, <2>2 DEF StatefulSetDeleted, reconcileVars
<1>4. ASSUME NEW i \in pvcs, PvcDeleted(i) PROVE Typed(D)'
  <2>1. budget' \in 0..MaxDisruptions
    BY <1>4, HappensType DEF PvcDeleted
  <2> QED BY <1>4, <2>1 DEF PvcDeleted, reconcileVars
<1>5. ASSUME NEW kind, NEW edited \in Specs, UserEdits(kind, edited) PROVE Typed(D)'
  <2>1. budget' \in 0..MaxDisruptions
    BY <1>5, HappensType DEF UserEdits
  <2>2. outdated' \in BOOLEAN
    BY <1>5 DEF UserEdits
  <2> QED BY <1>5, <2>1, <2>2 DEF UserEdits, reconcileVars
<1>6. CASE UserChangesSpec
  <2>1. ASSUME NEW n \in Replicas PROVE [spec EXCEPT !.replicas = n] \in Specs
    BY ClusterAssumption DEF Specs
  <2>2. [spec EXCEPT !.failoverDisabled = ~@] \in Specs /\ [spec EXCEPT !.standby = ~@] \in Specs
    BY Zenon DEF Specs
  <2>3. ASSUME NEW i \in DOMAIN sts \cup {status.last + 1} PROVE [spec EXCEPT !.promotePod = i] \in Specs
    <3>1. i \in Nat
      BY DEF IsStatefulSetMap, StatusType
    <3> QED BY <3>1 DEF Specs
  <2> QED BY <1>5, <1>6, <2>1, <2>2, <2>3, Zenon DEF UserChangesSpec
<1>7. CASE Tick
  <2>1. /\ Elapse(status.blocking) \in Operation(D)
        /\ Elapse(mem.active) \in Operation(D) /\ Elapse(mem.blocking) \in Operation(D)
    BY ElapseFacts DEF StatusType, MemType
  <2>2. status' \in StatusType(D)
    BY <1>7, <2>1 DEF Tick, StatusType
  <2>3. mem' \in MemType(D)
    BY <1>7, <2>1, Zenon DEF Tick, MemType
  <2> QED BY <1>7, <2>2, <2>3 DEF Tick
<1> QED BY <1>2, <1>3, <1>4, <1>6, <1>7 DEF Environment, ClusterChanges

\* The memory and the StatefulSets after a step of a reconciliation keep their type.
LEMMA PrimaryTyped ==
  ASSUME NEW D, {} \in D PROVE Typed(D) /\ EnforcePrimaryDb => Typed(D)'
<1> SUFFICES ASSUME Typed(D), EnforcePrimaryDb PROVE Typed(D)'
  OBVIOUS
<1> USE DEF Typed
<1>1. ASSUME NEW m \in MemType(D), NEW next \in {"replica", "save"}, PrimaryEnforced(m, next),
             IsStatefulSetMap(sts'), pvcs' \subseteq Nat \ {0}, lastPrimary' \in Nat,
             budget' \in 0..MaxDisruptions
      PROVE  Typed(D)'
  BY <1>1 DEF PrimaryEnforced
<1>2. initialised \in MemType(D) /\ reEnabled \in MemType(D)
  BY ReEnabledFacts
<1>3. CASE PrimaryUnchanged
  BY <1>1, <1>2, <1>3, Zenon DEF PrimaryUnchanged
<1>4. CASE FailOverRefused
  BY <1>1, <1>2, <1>4, Zenon DEF FailOverRefused
<1>5. CASE waitBeforePromotingReplicaToPrimary
  <2>1. IsStatefulSetMap(sts') /\ budget' \in 0..MaxDisruptions
    BY <1>5, StatefulSetFacts, HappensType DEF waitBeforePromotingReplicaToPrimary, DeletePrimary
  <2>2. PICK i \in selectReplicaToPromote(reEnabled, seen) :
          PrimaryEnforced(activateOperation(reEnabled, "WaitingBeforeFailingOver", i, {}), "replica")
    BY <1>5 DEF waitBeforePromotingReplicaToPrimary
  <2>3. activateOperation(reEnabled, "WaitingBeforeFailingOver", i, {}) \in MemType(D)
    BY <1>2, InstanceIndexes, ActivateFacts, StepIds
  <2> QED BY <1>1, <1>5, <2>1, <2>2, <2>3, Zenon DEF waitBeforePromotingReplicaToPrimary
<1>6. CASE promoteReplicaToPrimary
  <2>1. PICK i \in selectReplicaToPromote(reEnabled, seen) :
          LET promoting == activateOperation(reEnabled, "FailingOver", i, {}) IN
          \/ /\ i \in DOMAIN sts
             /\ \E pod \in {"ready", "unready"} :
                  sts' = [sts EXCEPT ![i] = [role |-> "primary", pod |-> pod]]
             /\ lastPrimary' = i
             /\ PrimaryEnforced(promoting, "replica")
             /\ Happens({})
          \/ /\ \E kinds : Happens(kinds)
             /\ PrimaryEnforced(RemoveActiveOperation(promoting), "replica")
             /\ UNCHANGED <<sts, lastPrimary>>
    BY <1>6 DEF promoteReplicaToPrimary
  <2> DEFINE promoting == activateOperation(reEnabled, "FailingOver", i, {})
  <2>2. i \in Nat \ {0} /\ promoting \in MemType(D)
    BY <1>2, InstanceIndexes, ActivateFacts, StepIds
  <2>3. RemoveActiveOperation(promoting) \in MemType(D)
    BY <2>2, RemoveFacts, Zenon DEF RemoveActiveOperation
  <2>4. budget' \in 0..MaxDisruptions
    BY <2>1, HappensType
  <2>5. IsStatefulSetMap(sts')
    <3>1. \A pod \in {"ready", "unready"} : [role |-> "primary", pod |-> pod] \in StatefulSets
      BY DEF StatefulSets, Roles, Pods
    <3> QED BY <2>1, <3>1, StatefulSetFacts
  <2>6. lastPrimary' \in Nat /\ pvcs' = pvcs
    BY <1>6, <2>1, <2>2 DEF promoteReplicaToPrimary
  <2> HIDE DEF promoting
  <2>7. \/ PrimaryEnforced(promoting, "replica")
        \/ PrimaryEnforced(RemoveActiveOperation(promoting), "replica")
    BY <2>1 DEF promoting
  <2> QED BY <1>1, <2>2, <2>3, <2>4, <2>5, <2>6, <2>7, Zenon
<1>7. CASE deployNewPrimaryStatefulSet
  <2>1. PICK unread \in SUBSET {"getPvcFails"} :
          LET i == primaryInstanceIndex(reEnabled, unread = {} /\ reEnabled.last \in pvcs)
              deploying == activateOperation(reEnabled, "PrimaryDbDeploying", i, {})
          IN \/ /\ sts' = Created(i, "primary")
                /\ pvcs' = pvcs \cup {i}
                /\ lastPrimary' = i
                /\ PrimaryEnforced([deploying EXCEPT !.enforced = @ + 1,
                                                     !.last = IF @ = 0 THEN 1 ELSE @], "replica")
                /\ Happens(unread)
             \/ /\ \E kinds : Happens(kinds)
                /\ PrimaryEnforced(RemoveActiveOperation(deploying), "save")
                /\ UNCHANGED <<sts, pvcs, lastPrimary>>
    BY <1>7, Zenon DEF deployNewPrimaryStatefulSet
  <2> DEFINE i == primaryInstanceIndex(reEnabled, unread = {} /\ reEnabled.last \in pvcs)
             deploying == activateOperation(reEnabled, "PrimaryDbDeploying", i, {})
             n == IF deploying.last = 0 THEN 1 ELSE deploying.last
             deployed == [deploying EXCEPT !.enforced = deploying.enforced + 1, !.last = n]
  <2>2. i \in Nat \ {0}
    BY <1>2 DEF primaryInstanceIndex, getInstanceIndexIfPrimaryNeedsToBeRecreated, MemType
  <2> HIDE DEF i
  <2>3. deploying \in MemType(D)
    BY <1>2, <2>2, ActivateFacts, StepIds
  <2> HIDE DEF deploying
  <2>4. RemoveActiveOperation(deploying) \in MemType(D)
    BY <2>3, RemoveFacts, Zenon DEF RemoveActiveOperation
  <2>5. deployed \in MemType(D)
    <3>1. n \in Nat /\ deploying.enforced + 1 \in Int
      BY <2>3 DEF MemType
    <3> HIDE DEF n
    <3> QED BY <2>3, <3>1, Zenon DEF MemType
  <2>6. budget' \in 0..MaxDisruptions
    BY <2>1, HappensType
  <2>7. \/ /\ sts' = Created(i, "primary") /\ pvcs' = pvcs \cup {i} /\ lastPrimary' = i
           /\ PrimaryEnforced(deployed, "replica")
        \/ UNCHANGED <<sts, pvcs, lastPrimary>> /\ PrimaryEnforced(RemoveActiveOperation(deploying), "save")
    BY <2>1 DEF i, deploying
  <2> HIDE DEF deployed
  <2>8. IsStatefulSetMap(sts') /\ pvcs' \subseteq Nat \ {0} /\ lastPrimary' \in Nat
    BY <2>2, <2>7, StatefulSetFacts DEF Roles
  <2> QED BY <1>1, <2>4, <2>5, <2>6, <2>7, <2>8, SMTT(30)
<1> QED BY <1>3, <1>4, <1>5, <1>6, <1>7 DEF EnforcePrimaryDb

\* The replica enforcer keeps everything well formed.
LEMMA ReplicaTyped ==
  ASSUME NEW D, {} \in D PROVE Typed(D) /\ EnforceReplicaDb => Typed(D)'
<1> SUFFICES ASSUME Typed(D), EnforceReplicaDb PROVE Typed(D)'
  OBVIOUS
<1> USE DEF Typed
<1>1. ASSUME NEW m \in MemType(D), NEW next \in {"services", "save"},
             ReplicasEnforced(m, next), spec' \in Specs, IsStatefulSetMap(sts'),
             pvcs' \subseteq Nat \ {0}, budget' \in 0..MaxDisruptions
      PROVE  Typed(D)'
  BY <1>1 DEF ReplicasEnforced
<1>2. fixedReplica \in MemType(D)
  BY FixedReplicaFacts, Zenon
<1>3. ASSUME NEW r, Reset(r) PROVE spec' \in Specs
  <2>1. [spec EXCEPT !.promotePod = 0] \in Specs
    BY DEF Specs
  <2> QED BY <1>3, <2>1 DEF Reset
<1>4. CASE deployReplicaStatefulSet
  <2>1. PICK r \in ResetOutcome(fixedReplica) :
          LET i == r.mem.last + 1
              deploying == activateOperation(r.mem, "ReplicaDbDeploying", i, {})
          IN /\ Reset(r)
             /\ \/ /\ sts' = Created(i, "replica")
                   /\ pvcs' = pvcs \cup {i}
                   /\ ReplicasEnforced(replicaDeployed(deploying, i), "services")
                   /\ Happens(r.failures)
                \/ /\ \E kinds : Happens(kinds)
                   /\ ReplicasEnforced(RemoveActiveOperation(deploying), "save")
                   /\ UNCHANGED <<sts, pvcs>>
    BY <1>4 DEF deployReplicaStatefulSet
  <2> DEFINE i == r.mem.last + 1
             deploying == activateOperation(r.mem, "ReplicaDbDeploying", i, {})
  <2>2. r.mem \in MemType(D)
    BY <1>2, ResetFacts
  <2>3. i \in Nat \ {0}
    BY <2>2 DEF MemType
  <2>4. deploying \in MemType(D)
    BY <2>2, <2>3, ActivateFacts, StepIds
  <2>5. budget' \in 0..MaxDisruptions
    BY <2>1, HappensType
  <2>6. spec' \in Specs
    BY <1>3, <2>1
  <2>7. \/ sts' = Created(i, "replica") /\ pvcs' = pvcs \cup {i} /\ ReplicasEnforced(replicaDeployed(deploying, i), "services")
        \/ UNCHANGED <<sts, pvcs>> /\ ReplicasEnforced(RemoveActiveOperation(deploying), "save")
    BY <2>1
  <2> HIDE DEF i, deploying
  <2>8. RemoveActiveOperation(deploying) \in MemType(D)
    BY <2>4, RemoveFacts, Zenon DEF RemoveActiveOperation
  <2>9. replicaDeployed(deploying, i) \in MemType(D)
    <3>1. deploying.enforced + 1 \in Int
      BY <2>4 DEF MemType
    <3>2. replicaDeployed(deploying, i)
            = [deploying EXCEPT !.enforced = deploying.enforced + 1, !.last = i, !.changed = TRUE]
      BY DEF replicaDeployed
    <3> QED BY <2>3, <2>4, <3>1, <3>2, Zenon DEF MemType
  <2>10. IsStatefulSetMap(sts') /\ pvcs' \subseteq Nat \ {0}
    BY <2>3, <2>7, StatefulSetFacts DEF Roles
  <2> QED BY <1>1, <2>5, <2>6, <2>7, <2>8, <2>9, <2>10
<1>5. CASE undeployReplicaStatefulSets
  <2>1. PICK r \in ResetOutcome(fixedReplica), i \in replicaToUndeploy :
          LET undeploying == activateOperation(r.mem, "ReplicaDbUndeploying", i, {})
          IN /\ Reset(r)
             /\ \/ /\ sts' = Deleted(i)
                   /\ ReplicasEnforced([undeploying EXCEPT !.enforced = @ - 1], "services")
                   /\ Happens(r.failures)
                \/ /\ \E kinds : Happens(kinds)
                   /\ ReplicasEnforced(RemoveActiveOperation(undeploying), "save")
                   /\ UNCHANGED sts
    BY <1>5 DEF undeployReplicaStatefulSets
  <2> DEFINE undeploying == activateOperation(r.mem, "ReplicaDbUndeploying", i, {})
             undeployed == [undeploying EXCEPT !.enforced = undeploying.enforced - 1]
  <2>2. r.mem \in MemType(D)
    BY <1>2, ResetFacts
  <2>3. undeploying \in MemType(D)
    BY <2>2, ActivateFacts, StepIds, InstanceIndexes
  <2>4. budget' \in 0..MaxDisruptions
    BY <2>1, HappensType
  <2>5. spec' \in Specs
    BY <1>3, <2>1
  <2>6. /\ IsStatefulSetMap(sts')
        /\ ReplicasEnforced(undeployed, "services") \/ ReplicasEnforced(RemoveActiveOperation(undeploying), "save")
    BY <2>1, StatefulSetFacts, Zenon DEF Deleted
  <2> HIDE DEF undeploying
  <2>7. RemoveActiveOperation(undeploying) \in MemType(D)
    BY <2>3, RemoveFacts, Zenon DEF RemoveActiveOperation
  <2>8. undeployed \in MemType(D)
    BY <2>3 DEF MemType
  <2>9. pvcs' = pvcs
    BY <1>5 DEF undeployReplicaStatefulSets
  <2> HIDE DEF undeployed
  <2> QED BY <1>1, <2>4, <2>5, <2>6, <2>7, <2>8, <2>9, Zenon
<1>6. CASE ReplicasUnchanged
  <2>1. PICK r \in ResetOutcome(fixedReplica) : Reset(r) /\ ReplicasEnforced(r.mem, "services") /\ Happens(r.failures)
    BY <1>6 DEF ReplicasUnchanged
  <2>2. r.mem \in MemType(D)
    BY <1>2, ResetFacts
  <2>3. budget' \in 0..MaxDisruptions
    BY <2>1, HappensType
  <2> QED BY <1>1, <1>3, <1>6, <2>1, <2>2, <2>3, Zenon DEF ReplicasUnchanged
<1>7. CASE ReplicasSkipped
  BY <1>1, <1>2, <1>7, Zenon DEF ReplicasSkipped
<1> QED BY <1>4, <1>5, <1>6, <1>7 DEF EnforceReplicaDb

\* fetched is what the status says, and nothing of an earlier reconciliation.
LEMMA FetchedFacts ==
  ASSUME NEW D, {} \in D, Typed(D)
  PROVE  /\ fetched \in MemType(D) /\ fetched.blocking = status.blocking
         /\ fetched.previousBlocking = status.previousBlocking
         /\ fetched.last = status.last /\ fetched.enforced = status.enforced /\ fetched.spec = spec
<1>1. /\ status.blocking \in Operation(D) /\ status.previousBlocking \in Operation(D)
      /\ status.last \in Nat /\ status.enforced \in Int /\ spec \in Specs
  BY DEF Typed, StatusType
<1> QED BY <1>1, NoMemType, Zenon DEF fetched, MemType

\* The two ends of a reconciliation, whatever the completion checker answers.
BeginsOrEnds ==
  \/ \E reached : LoadWith(reached)
  \/ SaveStatus \/ SaveRefused \/ Crash
  \/ UNCHANGED clusterVars

\* They keep the types.
LEMMA BeginsOrEndsTyped ==
  ASSUME NEW D, {} \in D PROVE Typed(D) /\ BeginsOrEnds => Typed(D)'
<1> SUFFICES ASSUME Typed(D), BeginsOrEnds PROVE Typed(D)'
  OBVIOUS
<1> USE DEF Typed
<1>1. ASSUME NEW reached, LoadWith(reached) PROVE Typed(D)'
  <2>1. mem' \in MemType(D)
    BY <1>1, FetchedFacts, LoadFacts DEF LoadWith
  <2> QED BY <1>1, <2>1, SMTT(30) DEF LoadWith
<1>2. ASSUME EndReconciliation, status' \in StatusType(D), budget' \in 0..MaxDisruptions PROVE Typed(D)'
  <2>1. IsStatefulSetMap(NoStatefulSets)
    BY DEF IsStatefulSetMap, NoStatefulSets
  <2> QED BY <1>2, <2>1, NoMemType, Zenon DEF EndReconciliation
<1>3. CASE SaveStatus
  <2>1. status' \in StatusType(D)
    BY <1>3 DEF SaveStatus, StatusType, MemType
  <2> QED BY <1>2, <1>3, <2>1, HappensType DEF SaveStatus
<1>4. CASE SaveRefused \/ Crash
  BY <1>2, <1>4, HappensType DEF SaveRefused, Crash
<1>5. CASE UNCHANGED clusterVars
  BY <1>5 DEF clusterVars
<1> QED BY <1>1, <1>3, <1>4, <1>5 DEF BeginsOrEnds

\* The steps of the count of instances.
LEMMA NextCases ==
  [Next]_clusterVars => BeginsOrEnds \/ EnforcePrimaryDb \/ EnforceReplicaDb \/ Environment
BY DEF Next, Reconcile, Load, LoadFails, BeginsOrEnds

\* Where the reconciliation is stays one of the places there are.
LEMMA NextPcTyped == PcTyped /\ [Next]_clusterVars => PcTyped'
<1> SUFFICES ASSUME PcTyped, [Next]_clusterVars PROVE PcTyped'
  OBVIOUS
<1> USE DEF PcTyped
<1>1. CASE BeginsOrEnds
  BY <1>1, SMTT(30) DEF BeginsOrEnds, LoadWith, SaveStatus, SaveRefused, Crash, EndReconciliation, clusterVars
<1>2. CASE EnforcePrimaryDb
  BY <1>2, Zenon DEF EnforcePrimaryDb, PrimaryUnchanged, FailOverRefused, waitBeforePromotingReplicaToPrimary,
     promoteReplicaToPrimary, deployNewPrimaryStatefulSet, PrimaryEnforced
<1>3. CASE EnforceReplicaDb
  BY <1>3, Zenon DEF EnforceReplicaDb, deployReplicaStatefulSet, undeployReplicaStatefulSets,
     ReplicasUnchanged, ReplicasSkipped, ReplicasEnforced
<1>4. CASE Environment
  BY <1>4, EnvironmentPc
<1> QED BY <1>1, <1>2, <1>3, <1>4, NextCases

\* Everything is always well formed.
LEMMA SpecTyped == Spec => [](Typed({{}}) /\ PcTyped)
<1>1. Init => Typed({{}}) /\ PcTyped
  BY InitTyped, Zenon DEF Init, PcTyped
<1>2. Typed({{}}) /\ PcTyped /\ [Next]_clusterVars => (Typed({{}}) /\ PcTyped)'
  BY NextCases, NextPcTyped, BeginsOrEndsTyped, PrimaryTyped, ReplicaTyped, EnvironmentTyped
<1> QED BY <1>1, <1>2, PTL DEF Spec

\* Everything stored and everything a reconciliation holds in memory stays well
\* formed, whatever fails and whatever the user and Kubernetes do
\* (Reconcile, the two enforcers of the StatefulSets and their clean-ups).
THEOREM TypeCorrect == Spec => []TypeOK
BY SpecTyped, TypedIsTypeOK, PTL

-----------------------------------------------------------------------------
(***************************************************************************)
(* Only one primary.                                                       *)
(***************************************************************************)
LEMMA InitOnePrimary == Init => OnePrimaryInv
<1> SUFFICES ASSUME Init PROVE OnePrimaryInv
  OBVIOUS
<1>1. NoPrimary
  BY DEF Init, NoPrimary, primaries, NoStatefulSets
<1>2. status.blocking = NoOperation /\ mem.blocking = NoOperation
  BY NoMemType, Zenon DEF Init
<1> QED BY <1>1, <1>2, NoOperationFacts, Zenon DEF Init, OnePrimaryInv, NoPrimary

\* Steps that only make primaries disappear, and leave the operations alone.
LEMMA FewerPrimaries ==
  ASSUME OnePrimaryInv, primaries(sts') \subseteq primaries(sts),
         UNCHANGED <<pc, seen>>, ~outdated',
         status'.blocking.id = status.blocking.id, status'.blocking.step = status.blocking.step,
         mem'.blocking.id = mem.blocking.id, mem'.blocking.step = mem.blocking.step,
         mem'.active.id = mem.active.id, mem'.active.step = mem.active.step,
         mem'.changed = mem.changed
  PROVE  OnePrimaryInv'
<1>1. /\ Waits(status'.blocking) = Waits(status.blocking) /\ PrimaryStep(status'.blocking) = PrimaryStep(status.blocking)
      /\ Waits(mem'.blocking) = Waits(mem.blocking) /\ PrimaryStep(mem'.blocking) = PrimaryStep(mem.blocking)
      /\ Sync(mem') = Sync(mem)
  BY DEF Waits, PrimaryStep, Sync
<1>2. NoPrimary => NoPrimary'
  BY DEF NoPrimary
<1> QED BY <1>1, <1>2 DEF OnePrimaryInv, NoPrimary

\* Users, pods and time keep the invariant: none of them makes a primary.
LEMMA EnvironmentOnePrimary ==
  ASSUME NEW D, {} \in D PROVE NothingIsLost /\ Typed(D) /\ OnePrimaryInv /\ Environment => OnePrimaryInv'
<1> SUFFICES ASSUME NothingIsLost, Typed(D), OnePrimaryInv, Environment PROVE OnePrimaryInv'
  OBVIOUS
<1>0. ~outdated
  BY DEF OnePrimaryInv
<1>1. ASSUME NEW i \in DOMAIN sts, NEW pod, SetPod(i, pod) PROVE OnePrimaryInv'
  <2>1. primaries(sts') \subseteq primaries(sts)
    <3>1. sts' = [sts EXCEPT ![i] = [sts[i] EXCEPT !.pod = pod]]
      BY <1>1 DEF SetPod
    <3>2. DOMAIN sts' = DOMAIN sts /\ \A j \in DOMAIN sts : sts'[j].role = sts[j].role
      BY <3>1 DEF Typed, IsStatefulSetMap, StatefulSets
    <3> QED BY <3>2 DEF primaries
  <2> QED BY <1>0, <1>1, <2>1, FewerPrimaries, Zenon DEF SetPod, reconcileVars
<1>2. ASSUME NEW i \in DOMAIN sts, PodProgress(i) \/ PodFails(i) \/ PodLost(i) PROVE OnePrimaryInv'
  BY <1>1, <1>2 DEF PodProgress, PodStarts, PodBecomesReady, PodFails, PodLost
<1>3. ASSUME NEW i \in DOMAIN sts, StatefulSetDeleted(i) PROVE OnePrimaryInv'
  <2>1. primaries(sts') \subseteq primaries(sts)
    BY <1>3 DEF StatefulSetDeleted, primaries
  <2> QED BY <1>0, <1>3, <2>1, FewerPrimaries DEF StatefulSetDeleted, reconcileVars
<1>4. ASSUME NEW i \in pvcs, PvcDeleted(i) PROVE OnePrimaryInv'
  BY <1>0, <1>4, FewerPrimaries DEF PvcDeleted, reconcileVars
<1>5. ASSUME NEW kind, NEW edited, UserEdits(kind, edited) PROVE OnePrimaryInv'
  <2>1. pc = "idle"
    BY <1>5 DEF UserEdits, NothingIsLost
  <2>2. ~outdated'
    BY <1>5, <2>1, Zenon DEF UserEdits
  <2> QED BY <1>5, <2>2, FewerPrimaries DEF UserEdits, reconcileVars
<1>6. CASE UserChangesSpec
  BY <1>5, <1>6, Zenon DEF UserChangesSpec
<1>7. CASE Tick
  <2>1. /\ status.blocking \in Operation(D) /\ mem.blocking \in Operation(D)
        /\ mem.active \in Operation(D)
    BY DEF Typed, StatusType, MemType
  <2>2. /\ status'.blocking = Elapse(status.blocking) /\ mem'.blocking = Elapse(mem.blocking)
        /\ mem'.active = Elapse(mem.active) /\ mem'.changed = mem.changed
    BY <1>7 DEF Tick, Typed, StatusType, MemType
  <2> QED BY <1>0, <1>7, <2>1, <2>2, ElapseFacts, FewerPrimaries DEF Tick
<1> QED BY <1>2, <1>3, <1>4, <1>6, <1>7 DEF Environment, ClusterChanges

\* The steps about the primary, once activated.
LEMMA ActivatePrimaryFacts ==
  ASSUME NEW D, {} \in D, NEW m \in MemType(D), NEW i \in Nat,
         NEW step \in {"PrimaryDbDeploying", "WaitingBeforeFailingOver", "FailingOver"}
  PROVE  LET a == activateOperation(m, step, i, {})
         IN /\ a \in MemType(D) /\ Sync(a) /\ a.changed = TRUE
            /\ a.active.id = PrimaryDbCount /\ a.blocking.id = PrimaryDbCount
            /\ a.blocking.step = step
            /\ PrimaryStep(a.blocking)
            /\ step # "WaitingBeforeFailingOver" => ~Waits(a.blocking)
<1> DEFINE a == activateOperation(m, step, i, {})
<1>1. step \in Steps /\ OperationIdOf[step] = PrimaryDbCount
  BY StepIds
<1>2. /\ a \in MemType(D) /\ a.active = a.blocking /\ a.changed = TRUE
      /\ a.blocking.id = OperationIdOf[step] /\ a.blocking.step = step
  <2>1. a.changed = TRUE
    BY ActivateChanges, Zenon
  <2>2. /\ a \in MemType(D) /\ a.active = a.blocking
        /\ a.blocking.id = OperationIdOf[step] /\ a.blocking.step = step
    BY <1>1, ActivateFacts
  <2> QED BY <2>1, <2>2
<1> HIDE DEF a
<1>3. step # Transition
  BY DEF Transition
<1>4. /\ a \in MemType(D) /\ Sync(a) /\ a.changed = TRUE
      /\ a.active.id = PrimaryDbCount /\ a.blocking.id = PrimaryDbCount
      /\ a.blocking.step = step
      /\ PrimaryStep(a.blocking)
      /\ step # "WaitingBeforeFailingOver" => ~Waits(a.blocking)
  BY <1>1, <1>2, <1>3 DEF Sync, PrimaryStep, Waits
<1> QED BY <1>4 DEF a

\* The primary enforcer keeps the invariant: it makes a primary only when none is left.
LEMMA PrimaryOnePrimary ==
  ASSUME NEW D, {} \in D PROVE NothingIsLost /\ Typed(D) /\ OnePrimaryInv /\ EnforcePrimaryDb => OnePrimaryInv'
<1> SUFFICES ASSUME NothingIsLost, Typed(D), OnePrimaryInv, EnforcePrimaryDb PROVE OnePrimaryInv'
  OBVIOUS
<1>1. /\ pc = "primary" /\ ~outdated /\ mem \in MemType(D) /\ Sync(mem)
      /\ PrimaryStep(mem.blocking) /\ PrimaryStep(status.blocking)
      /\ Waits(status.blocking) => NoPrimary
      /\ Waits(mem.blocking) => NoPrimary
      /\ primaries(sts) \subseteq primaries(seen)
      /\ \A i, j \in primaries(sts) : i = j
  BY Zenon DEF EnforcePrimaryDb, PrimaryUnchanged, FailOverRefused, waitBeforePromotingReplicaToPrimary,
     promoteReplicaToPrimary, deployNewPrimaryStatefulSet, failsOver, deploysPrimary, EnforcesPrimary,
     OnePrimaryInv, Typed
<1>2. ASSUME NEW m, NEW next \in {"replica", "save"}, mem' = m, pc' = next,
             UNCHANGED <<status, seen, outdated>>,
             Sync(m), PrimaryStep(m.blocking),
             \A i, j \in primaries(sts') : i = j,
             Waits(m.blocking) => NoPrimary',
             Waits(status.blocking) /\ ~NoPrimary' =>
               m.changed = TRUE /\ ~Waits(m.blocking) /\ m.active.id = PrimaryDbCount
      PROVE  OnePrimaryInv'
  BY <1>1, <1>2, Zenon DEF OnePrimaryInv
<1>3. /\ reEnabled \in MemType(D) /\ Sync(reEnabled) /\ PrimaryStep(reEnabled.blocking)
      /\ Waits(reEnabled.blocking) => NoPrimary
      /\ Sync(initialised) /\ PrimaryStep(initialised.blocking)
      /\ Waits(initialised.blocking) => NoPrimary
  BY <1>1, ReEnabledFacts, NoOperationFacts DEF Sync
<1>4. sts' = sts => (NoPrimary' <=> NoPrimary)
  BY DEF NoPrimary
<1>5. CASE PrimaryUnchanged
  <2>1. PICK m \in {mem, reEnabled, initialised} : PrimaryEnforced(m, "replica")
    BY <1>5 DEF PrimaryUnchanged
  <2>2. sts' = sts
    BY <1>5 DEF PrimaryUnchanged
  <2>3. Sync(m) /\ PrimaryStep(m.blocking) /\ (Waits(m.blocking) => NoPrimary)
    BY <1>1, <1>3, <2>1
  <2> QED BY <1>1, <1>2, <1>4, <2>1, <2>2, <2>3, Zenon DEF PrimaryEnforced
<1>6. CASE FailOverRefused
  <2>1. PrimaryEnforced(reEnabled, "save") /\ sts' = sts
    BY <1>6 DEF FailOverRefused
  <2> QED BY <1>1, <1>2, <1>3, <1>4, <2>1, Zenon DEF PrimaryEnforced
<1>7. CASE waitBeforePromotingReplicaToPrimary
  <2>1. NoPrimary'
    <3>1. sts' = [j \in DOMAIN sts \ primaries(seen) |-> sts[j]]
      BY <1>7 DEF waitBeforePromotingReplicaToPrimary, DeletePrimary, Happens, NothingIsLost
    <3> QED BY <1>1, <3>1 DEF NoPrimary, primaries
  <2>2. PICK i \in selectReplicaToPromote(reEnabled, seen) :
          PrimaryEnforced(activateOperation(reEnabled, "WaitingBeforeFailingOver", i, {}), "replica")
    BY <1>7 DEF waitBeforePromotingReplicaToPrimary
  <2> DEFINE m == activateOperation(reEnabled, "WaitingBeforeFailingOver", i, {})
  <2>3. i \in Nat
    BY <1>3, InstanceIndexes DEF Typed
  <2>4. Sync(m) /\ PrimaryStep(m.blocking)
    BY <1>3, <2>3, ActivatePrimaryFacts, Zenon
  <2> HIDE DEF m
  <2>5. \A a, b \in primaries(sts') : a = b
    BY <2>1 DEF NoPrimary
  <2>6. PrimaryEnforced(m, "replica")
    BY <2>2 DEF m
  <2> QED BY <1>2, <2>1, <2>4, <2>5, <2>6 DEF PrimaryEnforced
<1>8. CASE promoteReplicaToPrimary
  <2>1. PICK i \in selectReplicaToPromote(reEnabled, seen) :
          LET promoting == activateOperation(reEnabled, "FailingOver", i, {}) IN
          \/ /\ i \in DOMAIN sts
             /\ \E w : sts' = [sts EXCEPT ![i] = w]
             /\ PrimaryEnforced(promoting, "replica")
          \/ /\ PrimaryEnforced(RemoveActiveOperation(promoting), "replica")
             /\ sts' = sts
    BY <1>8 DEF promoteReplicaToPrimary
  <2> DEFINE promoting == activateOperation(reEnabled, "FailingOver", i, {})
  <2>2. i \in Nat
    BY <1>3, InstanceIndexes DEF Typed
  <2>3. /\ promoting \in MemType(D) /\ promoting.changed = TRUE /\ promoting.active.id = PrimaryDbCount
        /\ Sync(promoting) /\ PrimaryStep(promoting.blocking) /\ ~Waits(promoting.blocking)
    BY <1>3, <2>2, ActivatePrimaryFacts, ZenonT(30)
  <2>4. NoPrimary
    <3>1. reEnabled.active.id = PrimaryDbCount /\ reEnabled.active.step = Transition
      BY <1>8 DEF promoteReplicaToPrimary, isWaitingBeforeStartingFailOver, IsActiveOperationInTransition
    <3> QED BY <1>3, <3>1 DEF Sync, Waits
  <2>5. \/ (\E w : sts' = [sts EXCEPT ![i] = w]) /\ PrimaryEnforced(promoting, "replica")
        \/ sts' = sts /\ PrimaryEnforced(RemoveActiveOperation(promoting), "replica")
    BY <2>1
  <2> HIDE DEF promoting
  <2>6. /\ RemoveActiveOperation(promoting).active = NoOperation
        /\ RemoveActiveOperation(promoting).blocking = NoOperation
    BY <2>3, RemoveFacts, Zenon DEF RemoveActiveOperation
  <2>7. CASE sts' = sts /\ PrimaryEnforced(RemoveActiveOperation(promoting), "replica")
    <3>1. Sync(RemoveActiveOperation(promoting))
      BY <2>6, SMTT(30) DEF Sync
    <3> QED BY <1>1, <1>2, <1>4, <2>4, <2>6, <2>7, <3>1, NoOperationFacts DEF PrimaryEnforced
  <2>8. CASE (\E w : sts' = [sts EXCEPT ![i] = w]) /\ PrimaryEnforced(promoting, "replica")
    <3>1. \A a, b \in primaries(sts') : a = b
      BY <2>4, <2>8 DEF NoPrimary, primaries
    <3> QED BY <1>2, <2>3, <2>8, <3>1, Zenon DEF PrimaryEnforced
  <2> QED BY <2>5, <2>7, <2>8
<1>9. CASE deployNewPrimaryStatefulSet
  <2>1. NoPrimary
    BY <1>1, <1>9 DEF deployNewPrimaryStatefulSet, deploysPrimary, shouldWeDeployNewPrimaryDb, NoPrimary
  <2>2. PICK unread \in SUBSET {"getPvcFails"} :
          LET i == primaryInstanceIndex(reEnabled, unread = {} /\ reEnabled.last \in pvcs)
              deploying == activateOperation(reEnabled, "PrimaryDbDeploying", i, {})
          IN \/ /\ sts' = Created(i, "primary")
                /\ PrimaryEnforced([deploying EXCEPT !.enforced = @ + 1,
                                                     !.last = IF @ = 0 THEN 1 ELSE @], "replica")
             \/ /\ PrimaryEnforced(RemoveActiveOperation(deploying), "save")
                /\ sts' = sts
    BY <1>9, Zenon DEF deployNewPrimaryStatefulSet
  <2> DEFINE i == primaryInstanceIndex(reEnabled, unread = {} /\ reEnabled.last \in pvcs)
             deploying == activateOperation(reEnabled, "PrimaryDbDeploying", i, {})
             deployed == [deploying EXCEPT !.enforced = @ + 1, !.last = IF @ = 0 THEN 1 ELSE @]
  <2>3. i \in Nat
    BY <1>3, SMTT(30) DEF primaryInstanceIndex, getInstanceIndexIfPrimaryNeedsToBeRecreated, MemType
  <2> HIDE DEF i
  <2>4. /\ deploying \in MemType(D) /\ deploying.changed = TRUE /\ deploying.active.id = PrimaryDbCount
        /\ Sync(deploying) /\ PrimaryStep(deploying.blocking) /\ ~Waits(deploying.blocking)
    BY <1>3, <2>3, ActivatePrimaryFacts, ZenonT(30)
  <2> HIDE DEF deploying
  <2>5. /\ deployed.active = deploying.active /\ deployed.blocking = deploying.blocking
        /\ deployed.changed = TRUE
    BY <2>4 DEF MemType
  <2>6. \/ sts' = Created(i, "primary") /\ PrimaryEnforced(deployed, "replica")
        \/ sts' = sts /\ PrimaryEnforced(RemoveActiveOperation(deploying), "save")
    BY <2>2 DEF i, deploying
  <2> HIDE DEF deployed
  <2>7. /\ RemoveActiveOperation(deploying).active = NoOperation
        /\ RemoveActiveOperation(deploying).blocking = NoOperation
    BY <2>4, RemoveFacts, Zenon DEF RemoveActiveOperation
  <2>8. CASE sts' = sts /\ PrimaryEnforced(RemoveActiveOperation(deploying), "save")
    <3>1. Sync(RemoveActiveOperation(deploying))
      BY <2>7 DEF Sync
    <3> QED BY <1>1, <1>2, <1>4, <2>1, <2>7, <2>8, <3>1, NoOperationFacts DEF PrimaryEnforced
  <2>9. CASE sts' = Created(i, "primary") /\ PrimaryEnforced(deployed, "replica")
    <3>1. \A a, b \in primaries(sts') : a = b
      BY <2>1, <2>9 DEF NoPrimary, primaries, Created
    <3>2. Sync(deployed) /\ PrimaryStep(deployed.blocking) /\ ~Waits(deployed.blocking)
      BY <2>4, <2>5 DEF Sync
    <3> QED BY <1>2, <2>4, <2>5, <2>9, <3>1, <3>2, Zenon DEF PrimaryEnforced
  <2> QED BY <2>6, <2>8, <2>9
<1> QED BY <1>5, <1>6, <1>7, <1>8, <1>9, SMTT(30) DEF EnforcePrimaryDb

\* An answer decoded over an operation that is not on the primary, unless the stored
\* one is too, waits only if the stored operation does.
LEMMA DecodedWait ==
  ASSUME NEW D, {} \in D, NEW stored \in Operation(D), NEW held \in Operation(D),
         held.id = PrimaryDbCount => stored.id = PrimaryDbCount, PrimaryStep(stored)
  PROVE  LET d == decodedOperation(stored, held)
         IN PrimaryStep(d) /\ (Waits(d) => Waits(stored))
<1> DEFINE d == decodedOperation(stored, held)
<1>1. d.id = (IF stored.id = "" THEN held.id ELSE stored.id)
      /\ d.step = (IF stored.step = "" THEN held.step ELSE stored.step)
  BY DEF decodedOperation, orElse
<1>2. stored.id = PrimaryDbCount => stored.step # ""
  BY DEF PrimaryStep, Transition
<1>3. d.id = PrimaryDbCount => stored.id = PrimaryDbCount /\ d.step = stored.step
  BY <1>1, <1>2
<1> HIDE DEF d
<1>4. PrimaryStep(d) /\ (Waits(d) => Waits(stored))
  BY <1>3 DEF PrimaryStep, Waits
<1> QED BY <1>4 DEF d

\* The steps about a replica, once activated, and the same with other counters.
LEMMA ActivateReplicaFacts ==
  ASSUME NEW D, {} \in D, NEW m \in MemType(D), NEW i \in Nat,
         NEW step \in {"ReplicaDbDeploying", "ReplicaDbUndeploying"}
  PROVE  LET a == activateOperation(m, step, i, {})
         IN a \in MemType(D) /\ ~Waits(a.blocking) /\ PrimaryStep(a.blocking)
<1> DEFINE a == activateOperation(m, step, i, {})
           op == [createOperationObj(step, i, {}) EXCEPT !.left = TimeOut[step]]
<1>1. step \in Steps /\ OperationIdOf[step] = ReplicaDbCount
  BY StepIds
<1>2. op \in Operation(D) /\ op.id = ReplicaDbCount
  BY <1>1, StepsFacts, TimeOutAssumption DEF createOperationObj, Operation
<1>3. a = [m EXCEPT !.active = op, !.blocking = op, !.changed = TRUE]
  BY DEF activateOperation, SetBlockingOperation
<1> HIDE DEF a, op
<1>4. a \in MemType(D) /\ a.blocking = op
  BY <1>2, <1>3, Zenon DEF MemType
<1>5. a \in MemType(D) /\ ~Waits(a.blocking) /\ PrimaryStep(a.blocking)
  BY <1>2, <1>4, StepIds DEF Waits, PrimaryStep
<1> QED BY <1>5 DEF a

\* The replica enforcer keeps the invariant: it makes no primary, and waits for other operations.
LEMMA ReplicaOnePrimary ==
  ASSUME NEW D, {} \in D PROVE NothingIsLost /\ Typed(D) /\ OnePrimaryInv /\ EnforceReplicaDb => OnePrimaryInv'
<1> SUFFICES ASSUME NothingIsLost, Typed(D), OnePrimaryInv, EnforceReplicaDb PROVE OnePrimaryInv'
  OBVIOUS
<1>1. /\ pc = "replica" /\ ~outdated /\ mem \in MemType(D) /\ status \in StatusType(D) /\ Sync(mem)
      /\ PrimaryStep(mem.blocking) /\ PrimaryStep(status.blocking)
      /\ Waits(mem.blocking) => NoPrimary
      /\ \A i, j \in primaries(sts) : i = j
      /\ Waits(status.blocking) /\ ~NoPrimary =>
           mem.changed /\ ~Waits(mem.blocking) /\ mem.active.id = PrimaryDbCount
  BY DEF EnforceReplicaDb, deployReplicaStatefulSet, undeployReplicaStatefulSets, ReplicasUnchanged,
     ReplicasSkipped, EnforcesReplicas, OnePrimaryInv, Typed
<1>2. ASSUME NEW m, NEW next \in {"services", "save"}, mem' = m, pc' = next, UNCHANGED <<status, seen, outdated>>,
             primaries(sts') \subseteq primaries(sts), PrimaryStep(m.blocking),
             Waits(m.blocking) => NoPrimary',
             Waits(status.blocking) /\ ~NoPrimary' => m.changed /\ ~Waits(m.blocking)
      PROVE  OnePrimaryInv'
  BY <1>1, <1>2 DEF OnePrimaryInv
<1>3. primaries(sts') \subseteq primaries(sts) => (NoPrimary => NoPrimary')
  BY DEF NoPrimary
<1>4. ASSUME EnforcesReplicas, NEW r \in ResetOutcome(fixedReplica)
      PROVE  /\ r.mem \in MemType(D) /\ PrimaryStep(r.mem.blocking)
             /\ Waits(r.mem.blocking) => NoPrimary
             /\ Waits(status.blocking) => NoPrimary
  <2>1. mem.active.id # PrimaryDbCount
    BY <1>4, StepIds DEF EnforcesReplicas, IsActiveOperationIdDifferentOf, isThereActiveOperation
  <2>2. Waits(status.blocking) => NoPrimary
    BY <1>1, <2>1
  <2>3. /\ fixedReplica \in MemType(D) /\ fixedReplica.blocking.id # PrimaryDbCount
        /\ fixedReplica.blocking \in Operation(D) /\ status.blocking \in Operation(D)
    <3>1. NoOperation.id # PrimaryDbCount
      BY StepIds DEF NoOperation
    <3> QED BY <1>1, <2>1, <3>1, FixedReplicaFacts, Zenon DEF Sync, MemType, StatusType
  <2>4. /\ r.mem \in MemType(D)
        /\ \/ r.mem.blocking = fixedReplica.blocking
           \/ r.mem.blocking = decodedOperation(status.blocking, fixedReplica.blocking)
    BY <1>1, <2>3, <1>4, ResetFacts
  <2>5. CASE r.mem.blocking = fixedReplica.blocking
    BY <2>2, <2>3, <2>4, <2>5, SMTT(30) DEF PrimaryStep, Waits
  <2>6. CASE r.mem.blocking = decodedOperation(status.blocking, fixedReplica.blocking)
    BY <1>1, <2>2, <2>3, <2>4, <2>6, DecodedWait, SMTT(30)
  <2> QED BY <2>4, <2>5, <2>6
<1>5. CASE deployReplicaStatefulSet
  <2>1. EnforcesReplicas
    BY <1>5 DEF deployReplicaStatefulSet
  <2>2. PICK r \in ResetOutcome(fixedReplica) :
          LET i == r.mem.last + 1
              deploying == activateOperation(r.mem, "ReplicaDbDeploying", i, {})
          IN \/ /\ sts' = Created(i, "replica")
                /\ ReplicasEnforced(replicaDeployed(deploying, i), "services")
             \/ /\ ReplicasEnforced(RemoveActiveOperation(deploying), "save")
                /\ sts' = sts
    BY <1>5 DEF deployReplicaStatefulSet
  <2> DEFINE i == r.mem.last + 1
             deploying == activateOperation(r.mem, "ReplicaDbDeploying", i, {})
  <2>3. r.mem \in MemType(D) /\ (Waits(status.blocking) => NoPrimary)
    BY <1>4, <2>1
  <2>4. i \in Nat
    BY <2>3 DEF MemType
  <2> HIDE DEF i
  <2>5. deploying \in MemType(D) /\ ~Waits(deploying.blocking) /\ PrimaryStep(deploying.blocking)
    BY <2>3, <2>4, ActivateReplicaFacts, Zenon
  <2> HIDE DEF deploying
  <2>6. replicaDeployed(deploying, i).blocking = deploying.blocking
    BY <2>5 DEF replicaDeployed, MemType
  <2>7. RemoveActiveOperation(deploying).blocking = NoOperation
    BY <2>5, RemoveFacts, Zenon DEF RemoveActiveOperation
  <2>8. PICK m \in {replicaDeployed(deploying, i), RemoveActiveOperation(deploying)},
            next \in {"services", "save"} : ReplicasEnforced(m, next)
    BY <2>2 DEF deploying, i
  <2>9. ~Waits(m.blocking) /\ PrimaryStep(m.blocking)
    BY <2>5, <2>6, <2>7, <2>8, NoOperationFacts
  <2>10. primaries(sts') \subseteq primaries(sts)
    BY <2>2 DEF primaries, Created
  <2> QED BY <1>2, <1>3, <2>3, <2>8, <2>9, <2>10, Zenon DEF ReplicasEnforced
<1>6. CASE undeployReplicaStatefulSets
  <2>1. EnforcesReplicas
    BY <1>6 DEF undeployReplicaStatefulSets
  <2>2. PICK r \in ResetOutcome(fixedReplica), i \in replicaToUndeploy :
          LET undeploying == activateOperation(r.mem, "ReplicaDbUndeploying", i, {})
          IN \/ sts' = Deleted(i) /\ ReplicasEnforced([undeploying EXCEPT !.enforced = @ - 1], "services")
             \/ sts' = sts /\ ReplicasEnforced(RemoveActiveOperation(undeploying), "save")
    BY <1>6, Zenon DEF undeployReplicaStatefulSets
  <2> DEFINE undeploying == activateOperation(r.mem, "ReplicaDbUndeploying", i, {})
             undeployed == [undeploying EXCEPT !.enforced = @ - 1]
  <2>3. r.mem \in MemType(D) /\ (Waits(status.blocking) => NoPrimary)
    BY <1>4, <2>1
  <2>4. i \in Nat
    BY InstanceIndexes DEF Typed
  <2>5. undeploying \in MemType(D) /\ ~Waits(undeploying.blocking) /\ PrimaryStep(undeploying.blocking)
    BY <2>3, <2>4, ActivateReplicaFacts
  <2>6. PICK m \in {undeployed, RemoveActiveOperation(undeploying)},
            next \in {"services", "save"} : ReplicasEnforced(m, next)
    BY <2>2
  <2> HIDE DEF undeploying
  <2>7. undeployed.blocking = undeploying.blocking
    BY <2>5 DEF MemType
  <2>8. RemoveActiveOperation(undeploying).blocking = NoOperation
    BY <2>5, RemoveFacts, Zenon DEF RemoveActiveOperation
  <2> HIDE DEF undeployed
  <2>9. ~Waits(m.blocking) /\ PrimaryStep(m.blocking)
    BY <2>5, <2>6, <2>7, <2>8, NoOperationFacts
  <2>10. primaries(sts') \subseteq primaries(sts)
    BY <2>2 DEF primaries, Deleted
  <2> QED BY <1>2, <1>3, <2>3, <2>6, <2>9, <2>10 DEF ReplicasEnforced
<1>7. CASE ReplicasUnchanged
  <2>1. PICK r \in ResetOutcome(fixedReplica) : ReplicasEnforced(r.mem, "services")
    BY <1>7 DEF ReplicasUnchanged
  <2>2. EnforcesReplicas /\ sts' = sts
    BY <1>7 DEF ReplicasUnchanged
  <2>3. /\ PrimaryStep(r.mem.blocking) /\ (Waits(r.mem.blocking) => NoPrimary)
        /\ Waits(status.blocking) => NoPrimary
    BY <1>4, <2>2
  <2> QED BY <1>2, <1>3, <2>1, <2>2, <2>3 DEF ReplicasEnforced
<1>8. CASE ReplicasSkipped
  <2>1. PICK m \in {mem, fixedReplica} : ReplicasEnforced(m, "services")
    BY <1>8 DEF ReplicasSkipped
  <2>2. sts' = sts
    BY <1>8 DEF ReplicasSkipped
  <2>3. m = mem \/ (m.blocking = NoOperation /\ m.changed = TRUE)
    BY <1>1, <2>1, FixedReplicaFacts, Zenon
  <2>4. CASE m = mem
    BY <1>1, <1>2, <1>3, <2>1, <2>2, <2>4, Zenon DEF ReplicasEnforced
  <2>5. CASE m.blocking = NoOperation /\ m.changed = TRUE
    BY <1>2, <2>1, <2>2, <2>5, NoOperationFacts DEF ReplicasEnforced
  <2> QED BY <2>3, <2>4, <2>5, Zenon
<1> QED BY <1>5, <1>6, <1>7, <1>8 DEF EnforceReplicaDb

\* The two ends of a reconciliation keep the invariant.
LEMMA BeginsOrEndsOnePrimary ==
  ASSUME NEW D, {} \in D
  PROVE  NothingIsLost /\ Typed(D) /\ OnePrimaryInv /\ BeginsOrEnds => OnePrimaryInv'
<1> SUFFICES ASSUME NothingIsLost, Typed(D), OnePrimaryInv, BeginsOrEnds PROVE OnePrimaryInv'
  OBVIOUS
<1>1. ASSUME NEW reached, LoadWith(reached) PROVE OnePrimaryInv'
  <2> DEFINE l == LoadActiveOperation(fetched, reached)
  <2>1. Waits(status.blocking) => NoPrimary
    BY <1>1, Zenon DEF LoadWith, OnePrimaryInv
  <2>2. /\ Sync(l) /\ PrimaryStep(l.blocking)
        /\ Waits(l.blocking) => Waits(status.blocking)
    <3>1. fetched \in MemType(D) /\ PrimaryStep(fetched.blocking) /\ fetched.blocking = status.blocking
      BY FetchedFacts DEF OnePrimaryInv
    <3>2. /\ Sync(LoadActiveOperation(fetched, reached))
          /\ PrimaryStep(LoadActiveOperation(fetched, reached).blocking)
          /\ Waits(LoadActiveOperation(fetched, reached).blocking) => Waits(fetched.blocking)
      BY <3>1, LoadFacts, Zenon
    <3> QED BY <3>1, <3>2
  <2>3. /\ mem' = l /\ seen' = sts /\ pc' \in {"primary", "save"}
        /\ UNCHANGED <<status, sts, outdated>>
    BY <1>1 DEF LoadWith
  <2> HIDE DEF l
  <2>4. NoPrimary' <=> NoPrimary
    BY <2>3 DEF NoPrimary
  <2> QED BY <2>1, <2>2, <2>3, <2>4, SMTT(30) DEF OnePrimaryInv
<1>2. CASE SaveStatus
  <2>1. /\ mem'.blocking = NoOperation /\ pc' = "idle" /\ ~outdated' /\ sts' = sts
        /\ pc \in {"services", "save"}
    BY <1>2, NoMemType DEF SaveStatus, EndReconciliation, instancesEnforced
  <2>2. CASE mem.changed
    <3>1. status'.blocking = mem.blocking
      BY <1>2, <2>2 DEF SaveStatus
    <3> QED BY <2>1, <3>1, NoOperationFacts DEF OnePrimaryInv, NoPrimary
  <2>3. CASE ~mem.changed
    <3>1. status' = status
      BY <1>2, <2>3 DEF SaveStatus
    <3> QED BY <2>1, <2>3, <3>1, NoOperationFacts DEF OnePrimaryInv, NoPrimary
  <2> QED BY <2>2, <2>3
<1>3. CASE SaveRefused \/ Crash
  BY <1>3, SMTT(30) DEF SaveRefused, Crash, Happens, NothingIsLost, OnePrimaryInv
<1>4. CASE UNCHANGED clusterVars
  BY <1>4, FewerPrimaries DEF clusterVars, OnePrimaryInv
<1> QED BY <1>1, <1>2, <1>3, <1>4 DEF BeginsOrEnds

\* Every step keeps the invariant.
LEMMA NextOnePrimary ==
  ASSUME NEW D, {} \in D
  PROVE  NothingIsLost /\ Typed(D) /\ OnePrimaryInv /\ [Next]_clusterVars => OnePrimaryInv'
BY NextCases, BeginsOrEndsOnePrimary, PrimaryOnePrimary, ReplicaOnePrimary, EnvironmentOnePrimary

\* As long as no status update is lost, nobody edits the resource during a
\* reconciliation and the deletion of a failing primary does not fail, there is
\* at most one primary at any time, whatever else fails and whatever the user and
\* Kubernetes do (waitBeforePromotingReplicaToPrimary, promoteReplicaToPrimary,
\* deployNewPrimaryStatefulSet, UpdateStatusIfChanged).
THEOREM OnlyOnePrimaryUnlessLost ==
  ASSUME NothingIsLost PROVE Spec => []OnlyOnePrimary
<1>1. OnePrimaryInv => OnlyOnePrimary
  BY DEF OnePrimaryInv, OnlyOnePrimary
<1>2. Typed({{}}) /\ OnePrimaryInv /\ [Next]_clusterVars => OnePrimaryInv'
  BY NextOnePrimary
<1> QED BY <1>1, <1>2, InitOnePrimary, SpecTyped, PTL DEF Spec

-----------------------------------------------------------------------------
(***************************************************************************)
(* What the operator never does to the instances and their roles.          *)
(***************************************************************************)
\* Until the primary enforcer is done, this reconciliation has seen every instance
\* there is, in its role: only the operator creates StatefulSets.
SeenInv ==
  pc = "primary" => primaries(sts) \subseteq primaries(seen) /\ replicas(sts) \subseteq replicas(seen)

\* No instance appears and none changes its role.
Shrinks == primaries(sts') \subseteq primaries(sts) /\ replicas(sts') \subseteq replicas(sts)

\* Setting a pod changes no role.
LEMMA SetPodShrinks ==
  ASSUME IsStatefulSetMap(sts), NEW i \in DOMAIN sts, NEW pod, sts' = [sts EXCEPT ![i].pod = pod]
  PROVE  Shrinks
<1>1. sts' = [sts EXCEPT ![i] = [sts[i] EXCEPT !.pod = pod]]
  OBVIOUS
<1>2. DOMAIN sts' = DOMAIN sts /\ \A j \in DOMAIN sts : sts'[j].role = sts[j].role
  BY <1>1 DEF IsStatefulSetMap, StatefulSets
<1> QED BY <1>2 DEF Shrinks, primaries, replicas

\* Taking StatefulSets away changes no role of the others.
LEMMA RemovalShrinks ==
  ASSUME NEW S, sts' = [j \in DOMAIN sts \ S |-> sts[j]] PROVE Shrinks
BY DEF Shrinks, primaries, replicas

\* Users, pods and time give no role to anybody.
LEMMA EnvironmentShrinks ==
  IsStatefulSetMap(sts) /\ Environment => Shrinks /\ UNCHANGED <<pc, seen>>
<1> SUFFICES ASSUME IsStatefulSetMap(sts), Environment PROVE Shrinks /\ UNCHANGED <<pc, seen>>
  OBVIOUS
<1>1. ASSUME NEW i \in DOMAIN sts, PodProgress(i) \/ PodFails(i) \/ PodLost(i)
      PROVE  Shrinks /\ UNCHANGED <<pc, seen>>
  <2>1. PICK pod : SetPod(i, pod)
    BY <1>1 DEF PodProgress, PodStarts, PodBecomesReady, PodFails, PodLost
  <2> QED BY <2>1, SetPodShrinks, Zenon DEF SetPod, reconcileVars
<1>2. ASSUME NEW i \in DOMAIN sts, StatefulSetDeleted(i) PROVE Shrinks /\ UNCHANGED <<pc, seen>>
  <2>1. sts' = [j \in DOMAIN sts \ {i} |-> sts[j]] /\ UNCHANGED <<pc, seen>>
    BY <1>2 DEF StatefulSetDeleted, reconcileVars
  <2> QED BY <2>1, RemovalShrinks, Zenon
<1>3. ASSUME sts' = sts PROVE Shrinks
  BY <1>3 DEF Shrinks
<1>4. ASSUME NEW i \in pvcs, PvcDeleted(i) PROVE Shrinks /\ UNCHANGED <<pc, seen>>
  BY <1>3, <1>4 DEF PvcDeleted, reconcileVars
<1>5. CASE UserChangesSpec
  <2>1. PICK kind, edited : UserEdits(kind, edited)
    BY <1>5, Zenon DEF UserChangesSpec
  <2> QED BY <1>3, <2>1 DEF UserEdits, reconcileVars
<1>6. CASE Tick
  BY <1>3, <1>6 DEF Tick
<1> QED BY <1>1, <1>2, <1>4, <1>5, <1>6 DEF Environment, ClusterChanges

\* The environment creates no StatefulSet.
LEMMA EnvironmentCreatesNone ==
  ASSUME Environment PROVE DOMAIN sts' \subseteq DOMAIN sts
<1>1. ASSUME NEW i \in DOMAIN sts, PodProgress(i) \/ PodFails(i) \/ PodLost(i)
      PROVE  DOMAIN sts' \subseteq DOMAIN sts
  BY <1>1 DEF PodProgress, PodStarts, PodBecomesReady, PodFails, PodLost, SetPod
<1>2. ASSUME NEW i \in DOMAIN sts, StatefulSetDeleted(i) PROVE DOMAIN sts' \subseteq DOMAIN sts
  BY <1>2 DEF StatefulSetDeleted
<1>3. CASE UserChangesSpec
  BY <1>3 DEF UserChangesSpec, UserEdits
<1>4. ASSUME NEW i \in pvcs, PvcDeleted(i) PROVE DOMAIN sts' \subseteq DOMAIN sts
  BY <1>4 DEF PvcDeleted
<1>5. CASE Tick
  BY <1>5 DEF Tick
<1> QED BY <1>1, <1>2, <1>3, <1>4, <1>5 DEF Environment, ClusterChanges

\* The primary enforcer creates a primary in an empty cluster, promotes a replica
\* when there is no primary, or gives no role to anybody.
LEMMA PrimaryRoles ==
  ASSUME NEW D, {} \in D
  PROVE  NothingIsLost /\ Typed(D) /\ OnePrimaryInv /\ SeenInv /\ EnforcePrimaryDb =>
           Shrinks \/ Abstract!FirstPrimary \/ Abstract!Promotion
<1> SUFFICES ASSUME NothingIsLost, Typed(D), OnePrimaryInv, SeenInv, EnforcePrimaryDb
             PROVE  Shrinks \/ Abstract!FirstPrimary \/ Abstract!Promotion
  BY SMTT(30)
<1>1. /\ pc = "primary" /\ mem \in MemType(D) /\ Sync(mem)
      /\ Waits(mem.blocking) => NoPrimary
  BY Zenon DEF EnforcePrimaryDb, PrimaryUnchanged, FailOverRefused, waitBeforePromotingReplicaToPrimary,
     promoteReplicaToPrimary, deployNewPrimaryStatefulSet, failsOver, deploysPrimary, EnforcesPrimary,
     OnePrimaryInv, Typed
<1>2. sts' = sts => Shrinks
  BY DEF Shrinks
<1>3. CASE PrimaryUnchanged \/ FailOverRefused
  BY <1>2, <1>3 DEF PrimaryUnchanged, FailOverRefused
<1>4. CASE waitBeforePromotingReplicaToPrimary
  BY <1>2, <1>4, RemovalShrinks DEF waitBeforePromotingReplicaToPrimary, DeletePrimary
<1>5. CASE promoteReplicaToPrimary
  <2>1. NoPrimary
    <3>1. /\ reEnabled \in MemType(D) /\ Sync(reEnabled)
          /\ Waits(reEnabled.blocking) => NoPrimary
      BY <1>1, ReEnabledFacts, NoOperationFacts, Zenon DEF Sync
    <3>2. reEnabled.active.id = PrimaryDbCount /\ reEnabled.active.step = Transition
      BY <1>5, SMTT(30) DEF promoteReplicaToPrimary, isWaitingBeforeStartingFailOver, IsActiveOperationInTransition
    <3> QED BY <3>1, <3>2, SMTT(30) DEF Sync, Waits
  <2>2. \/ \E i \in DOMAIN sts, pod \in {"ready", "unready"} :
             sts' = [sts EXCEPT ![i] = [role |-> "primary", pod |-> pod]]
        \/ sts' = sts
    BY <1>5, Zenon DEF promoteReplicaToPrimary
  <2>3. ASSUME NEW i \in DOMAIN sts, NEW pod \in {"ready", "unready"},
               sts' = [sts EXCEPT ![i] = [role |-> "primary", pod |-> pod]]
        PROVE  Abstract!Promotion
    <3>1. sts[i].role = "replica"
      BY <2>1, <2>3 DEF NoPrimary, primaries, Typed, IsStatefulSetMap, StatefulSets, Roles
    <3>2. /\ DOMAIN sts' = DOMAIN sts /\ sts'[i].role = "primary"
          /\ \A j \in DOMAIN sts \ {i} : sts'[j] = sts[j]
      BY <2>3 DEF Typed, IsStatefulSetMap
    <3>3. primaries(sts') = {i} /\ replicas(sts') = replicas(sts) \ {i} /\ i \in replicas(sts)
      BY <2>1, <3>1, <3>2 DEF NoPrimary, primaries, replicas
    <3> QED BY <2>1, <3>3 DEF NoPrimary, Abstract!Promotion
  <2> QED BY <1>2, <2>2, <2>3
<1>6. CASE deployNewPrimaryStatefulSet
  <2>1. primaries(sts) = {} /\ replicas(sts) = {}
    BY <1>1, <1>6 DEF deployNewPrimaryStatefulSet, deploysPrimary, shouldWeDeployNewPrimaryDb, SeenInv
  <2>2. sts' = sts \/ \E i : i \notin DOMAIN sts /\ sts' = Created(i, "primary")
    BY <1>6 DEF deployNewPrimaryStatefulSet
  <2>3. ASSUME NEW i, i \notin DOMAIN sts, sts' = Created(i, "primary") PROVE Abstract!FirstPrimary
    <3>1. primaries(sts') = {i} /\ replicas(sts') = {}
      BY <2>1, <2>3 DEF Created, primaries, replicas
    <3> QED BY <2>1, <3>1 DEF Abstract!FirstPrimary
  <2> QED BY <1>2, <2>2, <2>3
<1> QED BY <1>3, <1>4, <1>5, <1>6 DEF EnforcePrimaryDb

\* The replica enforcer creates a replica or gives no role to anybody.
LEMMA ReplicaRoles == EnforceReplicaDb => Shrinks \/ Abstract!NewFollower
<1> SUFFICES ASSUME EnforceReplicaDb PROVE Shrinks \/ Abstract!NewFollower
  OBVIOUS
<1>1. sts' = sts => Shrinks
  BY DEF Shrinks
<1>2. CASE deployReplicaStatefulSet
  <2>1. sts' = sts \/ \E i : i \notin DOMAIN sts /\ sts' = Created(i, "replica")
    BY <1>2 DEF deployReplicaStatefulSet
  <2>2. ASSUME NEW i, i \notin DOMAIN sts, sts' = Created(i, "replica") PROVE Abstract!NewFollower
    <3>1. primaries(sts') = primaries(sts) /\ replicas(sts') = replicas(sts) \cup {i}
      BY <2>2 DEF Created, primaries, replicas
    <3>2. i \notin primaries(sts) \cup replicas(sts)
      BY <2>2 DEF primaries, replicas
    <3> QED BY <3>1, <3>2 DEF Abstract!NewFollower
  <2> QED BY <1>1, <2>1, <2>2, SMTT(30)
<1>3. CASE undeployReplicaStatefulSets
  <2>1. sts' = sts \/ \E i : sts' = [j \in DOMAIN sts \ {i} |-> sts[j]]
    BY <1>3, Zenon DEF undeployReplicaStatefulSets, Deleted
  <2> QED BY <1>1, <2>1, RemovalShrinks, Zenon
<1>4. CASE ReplicasUnchanged \/ ReplicasSkipped
  BY <1>1, <1>4 DEF ReplicasUnchanged, ReplicasSkipped
<1> QED BY <1>2, <1>3, <1>4 DEF EnforceReplicaDb

\* The two ends of a reconciliation are about the Kubegres resource only.
LEMMA BeginsOrEndsKeeps == BeginsOrEnds => sts' = sts
BY DEF BeginsOrEnds, LoadWith, clusterVars, SaveStatus, SaveRefused, Crash, EndReconciliation

\* The steps of the two enforcers, of the two ends of a reconciliation and of the
\* environment change the roles as InstanceRoles says.
LEMMA StepRoles ==
  ASSUME NEW D, {} \in D, NothingIsLost, Typed(D), OnePrimaryInv, SeenInv,
         BeginsOrEnds \/ EnforcePrimaryDb \/ EnforceReplicaDb \/ Environment
  PROVE  Abstract!RolesNext
<1>1. Shrinks => Abstract!RolesNext
  BY DEF Shrinks, Abstract!RolesNext, Abstract!Departure
<1>2. sts' = sts => Shrinks
  BY DEF Shrinks
<1>3. IsStatefulSetMap(sts)
  BY DEF Typed
<1> QED BY <1>1, <1>2, <1>3, BeginsOrEndsKeeps, EnvironmentShrinks, PrimaryRoles, ReplicaRoles
        DEF Abstract!RolesNext

\* They keep what this reconciliation has seen above what there is.
LEMMA StepSeen ==
  ASSUME IsStatefulSetMap(sts), SeenInv,
         BeginsOrEnds \/ EnforcePrimaryDb \/ EnforceReplicaDb \/ Environment
  PROVE  SeenInv'
<1>1. CASE BeginsOrEnds
  BY <1>1, Zenon DEF BeginsOrEnds, LoadWith, clusterVars, SaveStatus, SaveRefused, Crash, EndReconciliation, SeenInv
<1>2. CASE EnforcePrimaryDb
  <2>1. pc' # "primary"
    BY <1>2, Zenon DEF EnforcePrimaryDb, PrimaryUnchanged, FailOverRefused, waitBeforePromotingReplicaToPrimary,
       promoteReplicaToPrimary, deployNewPrimaryStatefulSet, PrimaryEnforced
  <2> QED BY <2>1, SMTT(30) DEF SeenInv
<1>3. CASE EnforceReplicaDb
  <2>1. pc' # "primary"
    BY <1>3, Zenon DEF EnforceReplicaDb, deployReplicaStatefulSet, undeployReplicaStatefulSets,
       ReplicasUnchanged, ReplicasSkipped, ReplicasEnforced
  <2> QED BY <2>1 DEF SeenInv
<1>4. CASE Environment
  BY <1>4, EnvironmentShrinks DEF Shrinks, SeenInv
<1> QED BY <1>1, <1>2, <1>3, <1>4, SMTT(30)

\* As long as no status update is lost, nobody edits the resource during a
\* reconciliation and the deletion of a failing primary does not fail, the operator
\* implements InstanceRoles: a new primary only in an empty cluster, a promotion only
\* when no primary is left, no primary that becomes a replica
\* (EnforceSpec of PrimaryDbCountSpecEnforcer and of ReplicaDbCountSpecEnforcer).
THEOREM OperatorImplementsInstanceRoles ==
  ASSUME NothingIsLost PROVE Spec => InstanceRolesAreKept
<1>1. Init => Abstract!RolesInit
  BY DEF Init, Abstract!RolesInit, primaries, replicas, NoStatefulSets
<1>2. Init => SeenInv
  BY DEF Init, SeenInv
<1>3. Typed({{}}) /\ OnePrimaryInv /\ [Next]_clusterVars => OnePrimaryInv'
  BY NextOnePrimary
<1>4. Typed({{}}) /\ SeenInv /\ [Next]_clusterVars => SeenInv'
  BY NextCases, StepSeen DEF Typed
<1>5. Typed({{}}) /\ OnePrimaryInv /\ SeenInv /\ [Next]_clusterVars =>
        [Abstract!RolesNext]_<<primaries(sts), replicas(sts)>>
  BY NextCases, StepRoles
<1> QED BY <1>1, <1>2, <1>3, <1>4, <1>5, InitOnePrimary, SpecTyped, PTL
        DEF Spec, InstanceRolesAreKept, Abstract!RolesSpec


-----------------------------------------------------------------------------
(***************************************************************************)
(* The inductive invariant for PromotionFollowsWait.  What a reconciliation*)
(* takes for the end of the wait is in the status, with no time left.  An  *)
(* operation in transition never has time left: this would be wrong if the *)
(* answer to an update were decoded into an operation that still has some, *)
(* which the replica enforcer avoids by leaving the operations of others   *)
(* alone: that of the primary, and that of the base config map, which may  *)
(* have been started before.                                               *)
(***************************************************************************)
Timed(op) == op.step \in {Transition, ""} => op.left = 0

EndsWait(op, previousOp) ==
  /\ op.id = PrimaryDbCount /\ op.left = 0
  /\ \/ op.step = "WaitingBeforeFailingOver"
     \/ op.step = Transition /\ previousOp.step = "WaitingBeforeFailingOver"

WaitInv ==
  /\ Timed(status.blocking) /\ Timed(mem.blocking)
  /\ pc = "primary" /\ mem.active.id # BaseConfigCount => mem.blocking.left = 0
  /\ pc = "replica" /\ mem.active.id \notin {PrimaryDbCount, BaseConfigCount} => mem.blocking.left = 0
  /\ pc = "primary" /\ isWaitingBeforeStartingFailOver(mem) =>
       EndsWait(status.blocking, status.previousBlocking)

\* An operation that was just started, or none, has its time.
LEMMA TimedFacts ==
  /\ Timed(NoOperation) /\ NoOperation.left = 0
  /\ \A op : op.step \in Steps => Timed(op)
BY StepsFacts DEF Timed, NoOperation

\* An answer decoded over an operation without time left has its time.
LEMMA DecodedTimed ==
  ASSUME NEW stored, NEW held, held.left = 0, Timed(stored) PROVE Timed(decodedOperation(stored, held))
BY DEF Timed, decodedOperation, orElse

\* What the loaded operation says of the wait is what the status said.
LEMMA LoadWaits ==
  ASSUME NEW D, {} \in D, NEW m \in MemType(D), NEW reached, Timed(m.blocking)
  PROVE  LET l == LoadActiveOperation(m, reached)
         IN /\ Timed(l.blocking) /\ l.blocking.left = l.active.left
            /\ l.active.left = 0 /\ isWaitingBeforeStartingFailOver(l) =>
                 EndsWait(m.blocking, m.previousBlocking)
<1> DEFINE l == [m EXCEPT !.active = m.blocking, !.previous = m.previousBlocking]
           Good(n) == /\ Timed(n.blocking) /\ n.blocking.left = n.active.left
                      /\ n.active.left = 0 /\ isWaitingBeforeStartingFailOver(n) =>
                           EndsWait(m.blocking, m.previousBlocking)
<1>1. /\ l \in MemType(D) /\ l.active = m.blocking /\ l.blocking = m.blocking
      /\ l.previous = m.previousBlocking
  BY Zenon DEF MemType
<1>2. LoadActiveOperation(m, reached) = removeOperationIfNotActive(l, reached)
  BY DEF LoadActiveOperation
<1> HIDE DEF l
<1> USE DEF isWaitingBeforeStartingFailOver, IsActiveOperationInTransition, EndsWait
<1>3. Good(l)
  BY <1>1
<1>4. Good([l EXCEPT !.active.timedOut = TRUE])
  <2> DEFINE op == [l.active EXCEPT !.timedOut = TRUE]
  <2>1. op.id = l.active.id /\ op.step = l.active.step /\ op.left = l.active.left
    BY <1>1 DEF MemType, Operation
  <2> HIDE DEF op
  <2>2. LET n == [l EXCEPT !.active = op]
        IN n.active = op /\ n.blocking = l.blocking /\ n.previous = l.previous
    BY <1>1 DEF MemType
  <2>3. [l EXCEPT !.active.timedOut = TRUE] = [l EXCEPT !.active = op]
    BY DEF op
  <2> QED BY <1>1, <1>3, <2>1, <2>2, <2>3, Zenon
<1>5. ASSUME NEW timedOut \in BOOLEAN,
             l.active.step = "WaitingBeforeFailingOver" => l.active.left = 0
      PROVE  Good(endOperation(l, timedOut))
  <2>1. CASE l.active.step \notin StepsMovingToTransition
    <3>1. endOperation(l, timedOut) = removeActiveOperation(l, timedOut)
      BY <2>1, SMTT(30) DEF endOperation
    <3>2. /\ removeActiveOperation(l, timedOut).active = NoOperation
          /\ removeActiveOperation(l, timedOut).blocking = NoOperation
      BY <1>1, RemoveFacts, Zenon
    <3>3. NoOperation.step # Transition
      BY DEF NoOperation, Transition
    <3> QED BY <3>1, <3>2, <3>3, TimedFacts, Zenon
  <2>2. CASE l.active.step \in StepsMovingToTransition
    <3> DEFINE p == [l.active EXCEPT !.timedOut = timedOut, !.left = 0]
               op == [l.active EXCEPT !.step = Transition, !.timedOut = FALSE, !.left = 0]
               n == [l EXCEPT !.previous = p, !.previousBlocking = p, !.changed = TRUE,
                              !.active = op, !.blocking = op]
    <3>1. endOperation(l, timedOut) = n
      <4>1. endOperation(l, timedOut) = SetBlockingOperation(remember(l, timedOut), op)
        BY <2>2 DEF endOperation, setActiveOperationInTransition
      <4>2. remember(l, timedOut) = [l EXCEPT !.previous = p, !.previousBlocking = p, !.changed = TRUE]
        BY DEF remember, SetPreviousBlockingOperation
      <4> HIDE DEF p, op
      <4> QED BY <1>1, <4>1, <4>2, Zenon DEF SetBlockingOperation, MemType
    <3>2. /\ op.id = l.active.id /\ op.step = Transition /\ op.left = 0
          /\ p.step = l.active.step
      BY <1>1 DEF MemType, Operation
    <3> HIDE DEF p, op
    <3>3. n.active = op /\ n.blocking = op /\ n.previous = p
      BY <1>1 DEF MemType
    <3> HIDE DEF n
    <3> QED BY <1>1, <1>5, <3>1, <3>2, <3>3, Zenon DEF Timed
  <2> QED BY <2>1, <2>2, Zenon
<1> HIDE DEF Good
<1>6. Good(removeOperationIfNotActive(l, reached))
  BY <1>3, <1>4, <1>5, Zenon DEF removeOperationIfNotActive, StepsWithCompletionChecker
<1> QED BY <1>2, <1>6, Zenon DEF Good

\* Enforce of the primary keeps the operation, ends it or starts one of its own.
LEMMA PrimaryOperation ==
  ASSUME NEW D, {} \in D, Typed(D), EnforcePrimaryDb
  PROVE  /\ pc = "primary" /\ pc' \in {"replica", "save"} /\ UNCHANGED status
         /\ \/ mem'.blocking = mem.blocking /\ mem'.active = mem.active
            \/ mem'.blocking = NoOperation
            \/ mem'.active.id = PrimaryDbCount /\ mem'.blocking.step \in Steps
<1> DEFINE Kept(m) == (m.blocking = mem.blocking /\ m.active = mem.active) \/ m.blocking = NoOperation
           Goal == /\ pc' \in {"replica", "save"} /\ UNCHANGED status
                   /\ \/ mem'.blocking = mem.blocking /\ mem'.active = mem.active
                      \/ mem'.blocking = NoOperation
                      \/ mem'.active.id = PrimaryDbCount /\ mem'.blocking.step \in Steps
<1>0. pc = "primary"
  BY Zenon DEF EnforcePrimaryDb, PrimaryUnchanged, FailOverRefused, waitBeforePromotingReplicaToPrimary,
         promoteReplicaToPrimary, deployNewPrimaryStatefulSet, failsOver, deploysPrimary, EnforcesPrimary
<1>1. reEnabled \in MemType(D) /\ Kept(mem) /\ Kept(initialised) /\ Kept(reEnabled)
  BY ReEnabledFacts, Zenon DEF Typed
<1>2. ASSUME NEW m, NEW next \in {"replica", "save"}, PrimaryEnforced(m, next), Kept(m)
      PROVE  Goal
  BY <1>2 DEF PrimaryEnforced
<1>3. ASSUME NEW m, PrimaryEnforced(m, "replica"), m.active.id = PrimaryDbCount, m.blocking.step \in Steps
      PROVE  Goal
  BY <1>3, SMTT(30) DEF PrimaryEnforced
<1>4. ASSUME NEW step \in {"PrimaryDbDeploying", "WaitingBeforeFailingOver", "FailingOver"}, NEW i \in Nat
      PROVE  LET a == activateOperation(reEnabled, step, i, {})
             IN /\ a \in MemType(D) /\ a.active.id = PrimaryDbCount /\ a.blocking.step \in Steps
                /\ RemoveActiveOperation(a).blocking = NoOperation
  <2> DEFINE a == activateOperation(reEnabled, step, i, {})
  <2>1. step \in Steps /\ OperationIdOf[step] = PrimaryDbCount
    BY StepIds
  <2>2. a \in MemType(D) /\ a.active.id = PrimaryDbCount /\ a.blocking.step = step
    BY <1>1, <2>1, ActivateFacts, SMTT(30)
  <2> HIDE DEF a
  <2>3. RemoveActiveOperation(a).blocking = NoOperation
    BY <2>2, RemoveFacts, Zenon DEF RemoveActiveOperation
  <2> QED BY <2>1, <2>2, <2>3, Zenon DEF a
<1>5. CASE PrimaryUnchanged
  BY <1>0, <1>1, <1>2, <1>5, Zenon DEF PrimaryUnchanged
<1>6. CASE FailOverRefused
  BY <1>0, <1>1, <1>2, <1>6, Zenon DEF FailOverRefused
<1>7. CASE waitBeforePromotingReplicaToPrimary
  <2>1. PICK i \in selectReplicaToPromote(reEnabled, seen) :
          PrimaryEnforced(activateOperation(reEnabled, "WaitingBeforeFailingOver", i, {}), "replica")
    BY <1>7 DEF waitBeforePromotingReplicaToPrimary
  <2>2. i \in Nat
    BY InstanceIndexes, SMTT(30) DEF Typed
  <2> QED BY <1>0, <1>3, <1>4, <2>1, <2>2, Zenon
<1>8. CASE promoteReplicaToPrimary
  <2>1. PICK i \in selectReplicaToPromote(reEnabled, seen) :
          LET promoting == activateOperation(reEnabled, "FailingOver", i, {}) IN
          \/ PrimaryEnforced(promoting, "replica")
          \/ PrimaryEnforced(RemoveActiveOperation(promoting), "replica")
    BY <1>8, Zenon DEF promoteReplicaToPrimary
  <2>2. i \in Nat
    BY InstanceIndexes DEF Typed
  <2> QED BY <1>0, <1>2, <1>3, <1>4, <2>1, <2>2, Zenon
<1>9. CASE deployNewPrimaryStatefulSet
  <2>1. PICK unread \in SUBSET {"getPvcFails"} :
          LET i == primaryInstanceIndex(reEnabled, unread = {} /\ reEnabled.last \in pvcs)
              deploying == activateOperation(reEnabled, "PrimaryDbDeploying", i, {})
          IN \/ PrimaryEnforced([deploying EXCEPT !.enforced = @ + 1,
                                                  !.last = IF @ = 0 THEN 1 ELSE @], "replica")
             \/ PrimaryEnforced(RemoveActiveOperation(deploying), "save")
    BY <1>9, Zenon DEF deployNewPrimaryStatefulSet
  <2> DEFINE i == primaryInstanceIndex(reEnabled, unread = {} /\ reEnabled.last \in pvcs)
             a == activateOperation(reEnabled, "PrimaryDbDeploying", i, {})
             n == IF a.last = 0 THEN 1 ELSE a.last
             deployed == [a EXCEPT !.enforced = a.enforced + 1, !.last = n]
  <2>2. i \in Nat
    BY <1>1 DEF primaryInstanceIndex, getInstanceIndexIfPrimaryNeedsToBeRecreated, MemType
  <2>3. PrimaryEnforced(deployed, "replica") \/ PrimaryEnforced(RemoveActiveOperation(a), "save")
    BY <2>1
  <2> HIDE DEF i
  <2>4. /\ a \in MemType(D) /\ a.active.id = PrimaryDbCount /\ a.blocking.step \in Steps
        /\ RemoveActiveOperation(a).blocking = NoOperation
    BY <1>4, <2>2
  <2> HIDE DEF a
  <2>5. deployed.active = a.active /\ deployed.blocking = a.blocking
    BY <2>4, SMTT(30) DEF MemType
  <2> HIDE DEF deployed
  <2> QED BY <1>0, <1>2, <1>3, <2>3, <2>4, <2>5, Zenon
<1> QED BY <1>0, <1>5, <1>6, <1>7, <1>8, <1>9 DEF EnforcePrimaryDb

\* Enforce of the replicas keeps the operation, ends it, starts one of its own, or
\* has it decoded from the answer of an update.
LEMMA ReplicaOperation ==
  ASSUME NEW D, {} \in D, Typed(D), EnforceReplicaDb
  PROVE  /\ pc = "replica" /\ pc' \in {"services", "save"} /\ UNCHANGED status
         /\ \/ mem'.blocking \in {mem.blocking, NoOperation}
            \/ mem'.blocking.step \in Steps
            \/ /\ mem.active.id \notin {PrimaryDbCount, BaseConfigCount}
               /\ \E held \in {mem.blocking, NoOperation} :
                    mem'.blocking = decodedOperation(status.blocking, held)
<1> DEFINE Operated(b) == \/ b \in {mem.blocking, NoOperation}
                          \/ b.step \in Steps
                          \/ /\ mem.active.id \notin {PrimaryDbCount, BaseConfigCount}
                             /\ \E held \in {mem.blocking, NoOperation} :
                                  b = decodedOperation(status.blocking, held)
           Goal == pc = "replica" /\ pc' \in {"services", "save"} /\ UNCHANGED status /\ Operated(mem'.blocking)
<1>1. fixedReplica \in MemType(D) /\ fixedReplica.blocking \in {mem.blocking, NoOperation}
  BY FixedReplicaFacts, Zenon DEF Typed
<1>2. EnforcesReplicas => pc = "replica" /\ mem.active.id \notin {PrimaryDbCount, BaseConfigCount}
  BY StepIds DEF EnforcesReplicas, IsActiveOperationIdDifferentOf, isThereActiveOperation, BaseConfigCount, ReplicaDbCount
<1>3. ASSUME EnforcesReplicas, NEW r \in ResetOutcome(fixedReplica)
      PROVE  r.mem \in MemType(D) /\ Operated(r.mem.blocking)
  <2>1. /\ r.mem \in MemType(D)
        /\ \/ r.mem.blocking = fixedReplica.blocking
           \/ r.mem.blocking = decodedOperation(status.blocking, fixedReplica.blocking)
    BY <1>1, ResetFacts, SMTT(30) DEF Typed
  <2> QED BY <1>1, <1>2, <1>3, <2>1, SMTT(30)
<1>4. ASSUME NEW m \in MemType(D), NEW step \in {"ReplicaDbDeploying", "ReplicaDbUndeploying"}, NEW i \in Nat
      PROVE  LET a == activateOperation(m, step, i, {})
             IN /\ a \in MemType(D) /\ Operated(a.blocking)
                /\ Operated(RemoveActiveOperation(a).blocking)
  <2> DEFINE a == activateOperation(m, step, i, {})
  <2>1. step \in Steps
    BY StepIds
  <2>2. a \in MemType(D) /\ a.blocking.step = step
    BY <2>1, ActivateFacts
  <2> HIDE DEF a
  <2>3. RemoveActiveOperation(a).blocking = NoOperation
    BY <2>2, RemoveFacts, Zenon DEF RemoveActiveOperation
  <2> QED BY <2>1, <2>2, <2>3, Zenon DEF a
<1>5. ASSUME NEW m, NEW next \in {"services", "save"}, ReplicasEnforced(m, next), pc = "replica",
             Operated(m.blocking)
      PROVE  Goal
  BY <1>5 DEF ReplicasEnforced
<1> HIDE DEF Operated
<1>6. CASE deployReplicaStatefulSet
  <2>1. PICK r \in ResetOutcome(fixedReplica) :
          LET i == r.mem.last + 1
              deploying == activateOperation(r.mem, "ReplicaDbDeploying", i, {})
          IN \/ ReplicasEnforced(replicaDeployed(deploying, i), "services")
             \/ ReplicasEnforced(RemoveActiveOperation(deploying), "save")
    BY <1>6, Zenon DEF deployReplicaStatefulSet
  <2> DEFINE i == r.mem.last + 1
             a == activateOperation(r.mem, "ReplicaDbDeploying", i, {})
             deployed == [a EXCEPT !.enforced = a.enforced + 1, !.last = i, !.changed = TRUE]
  <2>2. r.mem \in MemType(D) /\ i \in Nat /\ pc = "replica"
    <3>1. EnforcesReplicas
      BY <1>6, Zenon DEF deployReplicaStatefulSet
    <3>2. r.mem \in MemType(D) /\ pc = "replica"
      BY <1>2, <1>3, <3>1, Zenon
    <3>3. r.mem.last \in Nat
      BY <3>2 DEF MemType
    <3> QED BY <3>2, <3>3
  <2>3. ReplicasEnforced(deployed, "services") \/ ReplicasEnforced(RemoveActiveOperation(a), "save")
    BY <2>1 DEF replicaDeployed
  <2>4. a \in MemType(D) /\ Operated(a.blocking) /\ Operated(RemoveActiveOperation(a).blocking)
    BY <1>4, <2>2, Zenon
  <2> HIDE DEF a
  <2>5. deployed.blocking = a.blocking
    BY <2>4 DEF MemType
  <2> HIDE DEF deployed
  <2> QED BY <1>5, <2>2, <2>3, <2>4, <2>5, Zenon DEF Operated
<1>7. CASE undeployReplicaStatefulSets
  <2>1. PICK r \in ResetOutcome(fixedReplica), i \in replicaToUndeploy :
          LET undeploying == activateOperation(r.mem, "ReplicaDbUndeploying", i, {})
          IN \/ ReplicasEnforced([undeploying EXCEPT !.enforced = @ - 1], "services")
             \/ ReplicasEnforced(RemoveActiveOperation(undeploying), "save")
    BY <1>7, Zenon DEF undeployReplicaStatefulSets
  <2> DEFINE a == activateOperation(r.mem, "ReplicaDbUndeploying", i, {})
             undeployed == [a EXCEPT !.enforced = a.enforced - 1]
  <2>2. r.mem \in MemType(D) /\ i \in Nat /\ pc = "replica"
    BY <1>2, <1>3, <1>7, InstanceIndexes DEF Typed, undeployReplicaStatefulSets
  <2>3. ReplicasEnforced(undeployed, "services") \/ ReplicasEnforced(RemoveActiveOperation(a), "save")
    BY <2>1
  <2>4. a \in MemType(D) /\ Operated(a.blocking) /\ Operated(RemoveActiveOperation(a).blocking)
    BY <1>4, <2>2, Zenon
  <2> HIDE DEF a
  <2>5. undeployed.blocking = a.blocking
    BY <2>4, SMTT(30) DEF MemType
  <2> HIDE DEF undeployed
  <2> QED BY <1>5, <2>2, <2>3, <2>4, <2>5, Zenon DEF Operated
<1>8. CASE ReplicasUnchanged
  <2>1. EnforcesReplicas /\ \E r \in ResetOutcome(fixedReplica) : ReplicasEnforced(r.mem, "services")
    BY <1>8 DEF ReplicasUnchanged
  <2> QED BY <1>2, <1>3, <1>5, <2>1, Zenon DEF Operated
<1>9. CASE ReplicasSkipped
  <2>1. mem' \in {mem, fixedReplica} /\ pc' = "services" /\ pc = "replica" /\ UNCHANGED status
    BY <1>9 DEF ReplicasSkipped, ReplicasEnforced
  <2> QED BY <1>1, <2>1 DEF Operated
<1> QED BY <1>6, <1>7, <1>8, <1>9, Zenon DEF EnforceReplicaDb, Operated

\* Time runs out, for the status and for the memory.
LEMMA EnvironmentWait ==
  ASSUME NEW D, {} \in D, Typed(D) PROVE WaitInv /\ Environment => WaitInv'
<1> SUFFICES ASSUME WaitInv, Environment PROVE WaitInv'
  OBVIOUS
<1>0. pc' = pc
  BY EnvironmentPc, SMTT(30)
<1>1. CASE Tick
  <2>1. status.blocking \in Operation(D) /\ mem.blocking \in Operation(D) /\ mem.active \in Operation(D)
    BY DEF Typed, StatusType, MemType
  <2>2. /\ status'.blocking = Elapse(status.blocking)
        /\ status'.previousBlocking = status.previousBlocking
        /\ mem'.blocking = Elapse(mem.blocking) /\ mem'.active = Elapse(mem.active)
        /\ mem'.previous = mem.previous
    BY <1>1 DEF Tick, Typed, StatusType, MemType
  <2>3. \A op \in Operation(D) : /\ Elapse(op).id = op.id /\ Elapse(op).step = op.step
                                 /\ op.left = 0 => Elapse(op).left = 0
    BY ElapseFacts, SMTT(30)
  <2> QED BY <1>0, <2>1, <2>2, <2>3, Zenon
          DEF WaitInv, Timed, EndsWait, isWaitingBeforeStartingFailOver, IsActiveOperationInTransition
<1>2. CASE ClusterChanges
  <2>1. UNCHANGED <<status, mem>>
    BY <1>2, Zenon DEF ClusterChanges, PodProgress, PodStarts, PodBecomesReady, PodFails, PodLost, SetPod,
       StatefulSetDeleted, PvcDeleted, UserChangesSpec, UserEdits, reconcileVars
  <2> QED BY <1>0, <2>1, Zenon DEF WaitInv
<1> QED BY <1>1, <1>2 DEF Environment

\* The primary enforcer leaves an operation with time only if it is its own.
LEMMA PrimaryWait ==
  ASSUME NEW D, {} \in D, Typed(D) PROVE WaitInv /\ EnforcePrimaryDb => WaitInv'
<1> SUFFICES ASSUME WaitInv, EnforcePrimaryDb PROVE WaitInv'
  OBVIOUS
<1>1. /\ pc = "primary" /\ pc' \in {"replica", "save"} /\ UNCHANGED status
      /\ \/ mem'.blocking = mem.blocking /\ mem'.active = mem.active
         \/ mem'.blocking = NoOperation
         \/ mem'.active.id = PrimaryDbCount /\ mem'.blocking.step \in Steps
  BY PrimaryOperation, SMTT(30)
<1> QED BY <1>1, TimedFacts DEF WaitInv

\* The answer to an update is decoded into an operation without time left.
LEMMA ReplicaWait ==
  ASSUME NEW D, {} \in D, Typed(D) PROVE WaitInv /\ EnforceReplicaDb => WaitInv'
<1> SUFFICES ASSUME WaitInv, EnforceReplicaDb PROVE WaitInv'
  OBVIOUS
<1>1. /\ pc = "replica" /\ pc' \in {"services", "save"} /\ UNCHANGED status
      /\ \/ mem'.blocking \in {mem.blocking, NoOperation}
         \/ mem'.blocking.step \in Steps
         \/ /\ mem.active.id \notin {PrimaryDbCount, BaseConfigCount}
            /\ \E held \in {mem.blocking, NoOperation} :
                 mem'.blocking = decodedOperation(status.blocking, held)
  BY ReplicaOperation, SMTT(30)
<1>2. Timed(mem'.blocking)
  BY <1>1, DecodedTimed, TimedFacts, Zenon DEF WaitInv
<1> QED BY <1>1, <1>2, Zenon DEF WaitInv

\* A reconciliation that goes on to the enforcers has no time left.
LEMMA BeginsOrEndsWait ==
  ASSUME NEW D, {} \in D, Typed(D) PROVE WaitInv /\ BeginsOrEnds => WaitInv'
<1> SUFFICES ASSUME WaitInv, BeginsOrEnds PROVE WaitInv'
  BY SMTT(30)
<1>1. ASSUME NEW reached, LoadWith(reached) PROVE WaitInv'
  <2> DEFINE l == LoadActiveOperation(fetched, reached)
  <2>1. /\ fetched \in MemType(D) /\ fetched.blocking = status.blocking
        /\ fetched.previousBlocking = status.previousBlocking
    BY FetchedFacts, SMTT(30)
  <2>2. l \in MemType(D)
    BY <2>1, LoadFacts, Zenon
  <2>3. /\ Timed(l.blocking) /\ l.blocking.left = l.active.left
        /\ l.active.left = 0 /\ isWaitingBeforeStartingFailOver(l) =>
             EndsWait(status.blocking, status.previousBlocking)
    BY <2>1, LoadWaits, Zenon DEF WaitInv
  <2>4. mem' = l /\ UNCHANGED status /\ pc' \in {"primary", "save"} /\ (pc' = "primary" => ~(l.active.left > 0))
    BY <1>1 DEF LoadWith, mustWaitForTimeOut
  <2> HIDE DEF l
  <2>5. l.active.left \in Nat
    BY <2>2 DEF MemType, Operation
  <2>6. isWaitingBeforeStartingFailOver(mem)' <=> isWaitingBeforeStartingFailOver(l)
    BY <2>4 DEF isWaitingBeforeStartingFailOver, IsActiveOperationInTransition
  <2> QED BY <2>3, <2>4, <2>5, <2>6 DEF WaitInv
<1>2. ASSUME EndReconciliation PROVE mem'.blocking = NoOperation /\ pc' = "idle"
  BY <1>2, NoMemType, SMTT(30) DEF EndReconciliation
<1>3. CASE SaveStatus
  <2>1. status'.blocking \in {mem.blocking, status.blocking}
    BY <1>3, SMTT(30) DEF SaveStatus
  <2> QED BY <1>2, <1>3, <2>1, TimedFacts, Zenon DEF SaveStatus, WaitInv
<1>4. CASE SaveRefused \/ Crash
  BY <1>2, <1>4, TimedFacts, Zenon DEF SaveRefused, Crash, WaitInv
<1>5. CASE UNCHANGED clusterVars
  BY <1>5 DEF clusterVars, WaitInv, isWaitingBeforeStartingFailOver, IsActiveOperationInTransition
<1> QED BY <1>1, <1>3, <1>4, <1>5 DEF BeginsOrEnds

-----------------------------------------------------------------------------
(***************************************************************************)
(* The two action properties, step by step.                                *)
(***************************************************************************)
PromotesAfterWait ==
  \A i \in replicas(sts) \cap primaries(sts') : EndsWait(status.blocking, status.previousBlocking)

KeepsAReadyInstance ==
  OperatorDeletes /\ ~mem.spec.standby /\ ready(seen) \subseteq ready(sts) => ready(sts') # {}

\* A deletion leaves the pods of the others as they are: an instance that was listed as
\* ready, still is and is not deleted is left to serve.
LEMMA RemovalKeepsReady ==
  ASSUME NEW S, sts' = [j \in DOMAIN sts \ S |-> sts[j]], NEW j \in ready(seen) \ S
  PROVE  KeepsAReadyInstance
<1> SUFFICES ASSUME j \in ready(sts) PROVE j \in ready(sts')
  BY DEF KeepsAReadyInstance
<1> QED BY DEF ready

\* An instance has one role.
LEMMA OneRole == \A s : primaries(s) \cap replicas(s) = {}
BY DEF primaries, replicas

\* The primary enforcer promotes a replica only after the wait, and deletes the
\* primary only when it has seen a replica that is ready.
LEMMA PrimaryPromotesAndKeeps ==
  ASSUME NEW D, {} \in D, Typed(D), WaitInv, EnforcePrimaryDb
  PROVE  PromotesAfterWait /\ KeepsAReadyInstance
<1>1. primaries(sts') \subseteq primaries(sts) => PromotesAfterWait
  BY OneRole DEF PromotesAfterWait
<1>2. DOMAIN sts \subseteq DOMAIN sts' => KeepsAReadyInstance
  BY DEF KeepsAReadyInstance, OperatorDeletes
<1>3. CASE PrimaryUnchanged \/ FailOverRefused
  BY <1>1, <1>2, <1>3 DEF PrimaryUnchanged, FailOverRefused
<1>4. CASE waitBeforePromotingReplicaToPrimary
  <2>1. sts' = sts \/ sts' = [j \in DOMAIN sts \ primaries(seen) |-> sts[j]]
    BY <1>4 DEF waitBeforePromotingReplicaToPrimary, DeletePrimary
  <2>2. PromotesAfterWait
    BY <1>1, <2>1, RemovalShrinks DEF Shrinks
  <2>3. PICK j : j \in replicas(seen) \cap ready(seen)
    BY <1>4 DEF waitBeforePromotingReplicaToPrimary, failsOver, ShouldWeFailOver
  <2>4. CASE sts' = [k \in DOMAIN sts \ primaries(seen) |-> sts[k]]
    <3>1. j \in ready(seen) \ primaries(seen)
      BY <2>3, OneRole
    <3> QED BY <2>2, <2>4, <3>1, RemovalKeepsReady
  <2> QED BY <1>2, <2>1, <2>2, <2>4
<1>5. CASE promoteReplicaToPrimary
  <2>1. DOMAIN sts' = DOMAIN sts
    BY <1>5 DEF promoteReplicaToPrimary
  <2>2. isWaitingBeforeStartingFailOver(mem)
    <3>1. isWaitingBeforeStartingFailOver(reEnabled)
      BY <1>5 DEF promoteReplicaToPrimary
    <3>2. reEnabled.active # NoOperation
      <4>1. reEnabled.active.step = Transition
        BY <3>1 DEF isWaitingBeforeStartingFailOver, IsActiveOperationInTransition
      <4>2. NoOperation.step # Transition
        BY SMTT(30) DEF NoOperation, Transition
      <4> QED BY <4>1, <4>2
    <3>3. reEnabled = initialised
      BY <3>2, ReEnabledFacts, RemoveFacts, Zenon DEF reEnabled, RemoveActiveOperation, Typed
    <3>4. initialised.previous = mem.previous /\ initialised.active = mem.active
      BY SMTT(30) DEF initialised, initialiseStatusEnforcedReplicas, Typed, MemType
    <3> QED BY <3>1, <3>3, <3>4, SMTT(30) DEF isWaitingBeforeStartingFailOver, IsActiveOperationInTransition
  <2>3. PromotesAfterWait
    BY <1>5, <2>2, Zenon DEF WaitInv, PromotesAfterWait, promoteReplicaToPrimary, failsOver, EnforcesPrimary
  <2> QED BY <1>2, <2>1, <2>3, SMTT(30)
<1>6. CASE deployNewPrimaryStatefulSet
  <2>1. sts' = sts \/ \E i : i \notin DOMAIN sts /\ sts' = Created(i, "primary")
    BY <1>6 DEF deployNewPrimaryStatefulSet
  <2>2. ASSUME NEW i, i \notin DOMAIN sts, sts' = Created(i, "primary")
        PROVE  DOMAIN sts \subseteq DOMAIN sts' /\ PromotesAfterWait
    <3>1. DOMAIN sts' = DOMAIN sts \cup {i} /\ \A j \in DOMAIN sts : sts'[j] = sts[j]
      BY <2>2, Zenon DEF Created
    <3> QED BY <2>2, <3>1, SMTT(30) DEF PromotesAfterWait, primaries, replicas
  <2> QED BY <1>1, <1>2, <2>1, <2>2
<1> QED BY <1>3, <1>4, <1>5, <1>6 DEF EnforcePrimaryDb

\* The replica enforcer promotes nobody, and undeploys a replica only beside a
\* primary that it has seen ready.
LEMMA ReplicaPromotesAndKeeps ==
  ASSUME NEW D, {} \in D, Typed(D), EnforceReplicaDb PROVE PromotesAfterWait /\ KeepsAReadyInstance
<1>1. PromotesAfterWait
  BY ReplicaRoles, OneRole DEF Shrinks, Abstract!NewFollower, PromotesAfterWait
<1>2. DOMAIN sts \subseteq DOMAIN sts' => KeepsAReadyInstance
  BY DEF KeepsAReadyInstance, OperatorDeletes
<1>3. CASE deployReplicaStatefulSet
  <2>1. sts' = sts \/ \E i : sts' = Created(i, "replica")
    BY <1>3, Zenon DEF deployReplicaStatefulSet
  <2> QED BY <1>1, <1>2, <2>1, Zenon DEF Created
<1>4. CASE undeployReplicaStatefulSets
  <2>1. EnforcesReplicas /\ (sts' = sts \/ \E i \in replicaToUndeploy : sts' = Deleted(i))
    BY <1>4 DEF undeployReplicaStatefulSets
  <2>2. ASSUME NEW i \in replicas(seen), sts' = Deleted(i) PROVE KeepsAReadyInstance
    <3>1. mem.spec.standby \/ \E p : p \in primaries(seen) \cap ready(seen)
      BY <2>1 DEF EnforcesReplicas, isPrimaryDbReady
    <3>2. ASSUME NEW p \in primaries(seen) \cap ready(seen) PROVE KeepsAReadyInstance
      <4>1. p \in ready(seen) \ {i}
        BY OneRole
      <4>2. sts' = [k \in DOMAIN sts \ {i} |-> sts[k]]
        BY <2>2 DEF Deleted
      <4> QED BY <4>1, <4>2, RemovalKeepsReady, Zenon
    <3> QED BY <3>1, <3>2 DEF KeepsAReadyInstance
  <2> QED BY <1>1, <1>2, <2>1, <2>2, InstanceIndexes DEF Typed
<1>5. CASE ReplicasUnchanged \/ ReplicasSkipped
  BY <1>1, <1>2, <1>5 DEF ReplicasUnchanged, ReplicasSkipped
<1> QED BY <1>3, <1>4, <1>5 DEF EnforceReplicaDb

\* Nobody but the enforcers promotes a replica or deletes for the operator.
LEMMA OthersPromoteNobody ==
  ASSUME NEW D, {} \in D, Typed(D), BeginsOrEnds \/ Environment
  PROVE  PromotesAfterWait /\ KeepsAReadyInstance
<1>1. primaries(sts') \subseteq primaries(sts) => PromotesAfterWait
  BY OneRole DEF PromotesAfterWait
<1>2. CASE BeginsOrEnds
  BY <1>1, <1>2, BeginsOrEndsKeeps DEF KeepsAReadyInstance, OperatorDeletes
<1>3. CASE Environment
  BY <1>1, <1>3, EnvironmentShrinks, EnvironmentPc, SMTT(30) DEF Shrinks, Typed, KeepsAReadyInstance, OperatorDeletes
<1> QED BY <1>2, <1>3

\* What is loaded of the wait, and how much time is left, stays true.
LEMMA InitWait == Init => WaitInv
BY TimedFacts, SMTT(30) DEF Init, WaitInv, NoMem

\* So it is always true.
LEMMA SpecWait == Spec => [](Typed({{}}) /\ WaitInv)
<1>1. Typed({{}}) /\ WaitInv /\ [Next]_clusterVars => WaitInv'
  BY NextCases, BeginsOrEndsWait, PrimaryWait, ReplicaWait, EnvironmentWait
<1>2. Spec => [](Typed({{}}) /\ PcTyped)
  BY SpecTyped
<1> QED BY <1>1, <1>2, InitWait, PTL DEF Spec

\* A replica only becomes the primary when the operation stored in the status is the
\* wait before the fail-over and has no time left, or is the transition that
\* followed it: isWaitingBeforeStartingFailOver decides on memory, and no crash,
\* lost update or decoded answer makes it promote a replica early.
THEOREM PromotionFollowsTheWait == Spec => PromotionFollowsWait
<1>1. Typed({{}}) /\ WaitInv /\ [Next]_clusterVars => PromotesAfterWait
  BY NextCases, PrimaryPromotesAndKeeps, ReplicaPromotesAndKeeps, OthersPromoteNobody
<1>2. PromotesAfterWait =>
        \A i \in replicas(sts) \cap primaries(sts') :
          /\ status.blocking.id = PrimaryDbCount
          /\ status.blocking.left = 0
          /\ \/ status.blocking.step = "WaitingBeforeFailingOver"
             \/ /\ status.blocking.step = Transition
                /\ status.previousBlocking.step = "WaitingBeforeFailingOver"
  BY DEF PromotesAfterWait, EndsWait
<1> QED BY <1>1, <1>2, SpecWait, PTL DEF Spec, PromotionFollowsWait

\* Outside a standby cluster, the operator deletes an instance only when one that is
\* ready is left, as long as those it listed as ready still are: a primary is deleted
\* only for a replica listed as ready (ShouldWeFailOver), a replica only beside a primary
\* listed as ready (EnforceSpec of the replicas), and none of the two is the other.
THEOREM LastReadyIsAlwaysKeptUnlessStale == Spec => LastReadyIsKeptUnlessStale
<1>1. Typed({{}}) /\ WaitInv /\ [Next]_clusterVars => KeepsAReadyInstance
  BY NextCases, PrimaryPromotesAndKeeps, ReplicaPromotesAndKeeps, OthersPromoteNobody
<1> QED BY <1>1, SpecWait, PTL DEF Spec, LastReadyIsKeptUnlessStale, KeepsAReadyInstance
=============================================================================
