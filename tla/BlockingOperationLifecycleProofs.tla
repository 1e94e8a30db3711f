------------------- MODULE BlockingOperationLifecycleProofs -------------------
(***************************************************************************)
(* Proofs about the life of the blocking operation, for any time-outs and  *)
(* any instances: the type invariant, and what an operation in transition  *)
(* says about the operation remembered as previous.                        *)
(***************************************************************************)
EXTENDS BlockingOperationLifecycle, TLAPS

MemType ==
  [ active: OperationType, previous: OperationType, blocking: OperationType,
    previousBlocking: OperationType, changed: BOOLEAN ]

\* An operation at a step has the id its config gives to that step: without it,
\* the operation remembered by a transition could be one of another id.
IdOfStep(op) == op.step \in Steps => op.id = OperationIdOf[op.step]

Coherent(active, previous) ==
  SameOperation(active, previous) /\ TransitionOfTimedOut(active, previous) /\ IdOfStep(active)

MemInv(m) ==
  m \in MemType /\ Coherent(m.active, m.previous) /\ Coherent(m.blocking, m.previousBlocking)

\* The inductive invariant.
IInv ==
  /\ TypeOK
  /\ Coherent(status.blocking, status.previousBlocking)
  /\ MemInv(mem)

-----------------------------------------------------------------------------
\* The steps of the configs: none is the transition step, nor the empty step.
LEMMA StepsFacts ==
  /\ Transition \notin Steps /\ "" \notin Steps
  /\ StepsMovingToTransition \subseteq Steps
  /\ "WaitingBeforeFailingOver" \in Steps
  /\ \A s \in Steps : OperationIdOf[s] \in OperationIds /\ OperationIdOf[s] # ""
  /\ \A s \in StepsMovingToTransition :
       s \notin StepsWithCompletionChecker => s = "WaitingBeforeFailingOver"
<1>1. Steps = {"BaseConfigDeploying", "PrimaryDbDeploying", "WaitingBeforeFailingOver",
               "FailingOver", "ReplicaDbDeploying", "ReplicaDbUndeploying", "SpecUpdating",
               "PodSpecUpdating", "WaitingOnStuckPod"}
  BY DEF Steps, OperationIdOf
<1>2. \A s \in Steps : OperationIdOf[s] \in OperationIds /\ OperationIdOf[s] # ""
  <2>1. /\ OperationIdOf["BaseConfigDeploying"] = BaseConfigCount
        /\ OperationIdOf["PrimaryDbDeploying"] = PrimaryDbCount
        /\ OperationIdOf["WaitingBeforeFailingOver"] = PrimaryDbCount
        /\ OperationIdOf["FailingOver"] = PrimaryDbCount
        /\ OperationIdOf["ReplicaDbDeploying"] = ReplicaDbCount
        /\ OperationIdOf["ReplicaDbUndeploying"] = ReplicaDbCount
        /\ OperationIdOf["SpecUpdating"] = StatefulSetSpec
        /\ OperationIdOf["PodSpecUpdating"] = StatefulSetSpec
        /\ OperationIdOf["WaitingOnStuckPod"] = StatefulSetSpec
    BY DEF OperationIdOf
  <2>2. "" \notin OperationIds
    BY DEF OperationIds, BaseConfigCount, PrimaryDbCount, ReplicaDbCount, StatefulSetSpec
  <2> QED BY <1>1, <2>1, <2>2 DEF OperationIds
<1> QED BY <1>1, <1>2 DEF Transition, StepsMovingToTransition, StepsWithCompletionChecker

\* The passing of time changes nothing but the time left.
LEMMA ElapseFacts ==
  ASSUME NEW D, NEW op \in Operation(D)
  PROVE  /\ Elapse(op) \in Operation(D)
         /\ Elapse(op).id = op.id /\ Elapse(op).step = op.step /\ Elapse(op).idx = op.idx
         /\ op.left = 0 => Elapse(op).left = 0
<1> DEFINE left == IF op.left > 0 THEN op.left - 1 ELSE 0
<1>0. op.left \in Nat
  BY DEF Operation
<1>1. left \in Nat /\ (op.left = 0 => left = 0)
  BY <1>0
<1>2. Elapse(op) = [op EXCEPT !.left = left]
  BY DEF Elapse
<1> HIDE DEF left
<1> QED BY <1>1, <1>2 DEF Operation

\* No operation is an operation, and it is coherent with any previous one.
LEMMA NoOperationFacts ==
  /\ NoOperation \in OperationType
  /\ \A previous : Coherent(NoOperation, previous)
BY StepsFacts DEF NoOperation, OperationType, Operation, Coherent, SameOperation,
   TransitionOfTimedOut, IdOfStep, Transition

\* The memory of a reconciliation that has not started.
LEMMA NoMemInv == MemInv(NoMem)
BY NoOperationFacts DEF NoMem, MemInv, MemType

\* activateOperation starts a step with its time-out.
LEMMA ActivateInv ==
  ASSUME NEW m, MemInv(m), NEW step \in Steps, NEW idx \in Nat
  PROVE  MemInv(activateOperation(m, step, idx, {}))
<1> DEFINE op == [createOperationObj(step, idx, {}) EXCEPT !.left = TimeOut[step]]
<1>1. op \in OperationType /\ op.step = step /\ op.id = OperationIdOf[step]
  BY StepsFacts, TimeOutAssumption DEF createOperationObj, OperationType, Operation
<1>2. Coherent(op, m.previous) /\ Coherent(op, m.previousBlocking)
  BY <1>1, StepsFacts DEF Coherent, SameOperation, TransitionOfTimedOut, IdOfStep
<1>3. activateOperation(m, step, idx, {}) = [m EXCEPT !.active = op, !.blocking = op, !.changed = TRUE]
  BY DEF activateOperation, SetBlockingOperation
<1> HIDE DEF op
<1> QED BY <1>1, <1>2, <1>3, Zenon DEF MemInv, MemType

\* remember keeps the memory well formed, whatever the operation was.
LEMMA RememberType ==
  ASSUME NEW m \in MemType, NEW timedOut \in BOOLEAN
  PROVE  /\ remember(m, timedOut) \in MemType
         /\ remember(m, timedOut).active = m.active
         /\ remember(m, timedOut).previous = [m.active EXCEPT !.timedOut = timedOut, !.left = 0]
         /\ remember(m, timedOut).previousBlocking = [m.active EXCEPT !.timedOut = timedOut, !.left = 0]
<1>1. [m.active EXCEPT !.timedOut = timedOut, !.left = 0] \in OperationType
  BY DEF MemType, OperationType, Operation
<1> QED BY <1>1, Zenon DEF remember, SetPreviousBlockingOperation, MemType

\* removeActiveOperation leaves no operation.
LEMMA RemoveInv ==
  ASSUME NEW m, m \in MemType, NEW timedOut \in BOOLEAN
  PROVE  MemInv(removeActiveOperation(m, timedOut))
<1> DEFINE r == IF isOperationInTransition(m) THEN m ELSE remember(m, timedOut)
<1>1. r \in MemType
  BY RememberType, Zenon
<1>2. removeActiveOperation(m, timedOut)
        = [r EXCEPT !.active = NoOperation, !.blocking = NoOperation, !.changed = TRUE]
  BY DEF removeActiveOperation, SetBlockingOperation
<1> HIDE DEF r
<1> QED BY <1>1, <1>2, NoOperationFacts, Zenon DEF MemInv, MemType

\* The transition step keeps the id and the instance of the step that is over;
\* when it is reached by a time-out, that step is the wait before a fail-over.
LEMMA TransitionInv ==
  ASSUME NEW m, m \in MemType, NEW timedOut \in BOOLEAN,
         m.active.step \in StepsMovingToTransition, IdOfStep(m.active),
         timedOut => m.active.step = "WaitingBeforeFailingOver"
  PROVE  MemInv(setActiveOperationInTransition(m, timedOut))
<1> DEFINE r == remember(m, timedOut)
           op == [m.active EXCEPT !.step = Transition, !.timedOut = FALSE, !.left = 0]
<1>1. /\ r \in MemType
      /\ r.previous = [m.active EXCEPT !.timedOut = timedOut, !.left = 0]
      /\ r.previousBlocking = r.previous
  BY RememberType, Zenon
<1>2. op \in OperationType
  BY DEF MemType, OperationType, Operation
<1>3. Coherent(op, r.previous)
  <2>1. op.step = Transition /\ op.id = m.active.id /\ op.idx = m.active.idx
    BY DEF MemType, OperationType, Operation
  <2>2. /\ r.previous.step = m.active.step /\ r.previous.id = m.active.id
        /\ r.previous.idx = m.active.idx /\ r.previous.timedOut = timedOut
    BY <1>1 DEF MemType, OperationType, Operation
  <2>3. m.active.id = OperationIdOf[m.active.step]
    BY StepsFacts DEF IdOfStep
  <2> HIDE DEF op, r
  <2> QED BY <2>1, <2>2, <2>3, StepsFacts DEF Coherent, SameOperation, TransitionOfTimedOut, IdOfStep
<1>4. setActiveOperationInTransition(m, timedOut)
        = [r EXCEPT !.active = op, !.blocking = op, !.changed = TRUE]
  BY DEF setActiveOperationInTransition, SetBlockingOperation
<1> HIDE DEF r, op
<1> QED BY <1>1, <1>2, <1>3, <1>4, Zenon DEF MemInv, MemType

\* LoadActiveOperation on what was fetched, whatever the completion checker says.
LEMMA LoadInv ==
  ASSUME NEW m, MemInv(m), NEW reached \in BOOLEAN
  PROVE  MemInv(LoadActiveOperation(m, reached))
<1> DEFINE l == [m EXCEPT !.active = m.blocking, !.previous = m.previousBlocking]
<1>1. MemInv(l)
  BY Zenon DEF MemInv, MemType
<1>2. LoadActiveOperation(m, reached) = removeOperationIfNotActive(l, reached)
  BY DEF LoadActiveOperation
<1> HIDE DEF l
<1>3. l \in MemType /\ IdOfStep(l.active)
  BY <1>1 DEF MemInv, Coherent
<1>4. MemInv([l EXCEPT !.active.timedOut = TRUE])
  <2>1. [l.active EXCEPT !.timedOut = TRUE] \in OperationType
    BY <1>3 DEF MemType, OperationType, Operation
  <2>2. Coherent([l.active EXCEPT !.timedOut = TRUE], l.previous)
    BY <1>1 DEF MemInv, MemType, OperationType, Operation, Coherent, SameOperation,
       TransitionOfTimedOut, IdOfStep
  <2> QED BY <1>1, <2>1, <2>2, Zenon DEF MemInv, MemType
<1>5. ASSUME NEW timedOut \in BOOLEAN,
             timedOut => l.active.step \notin StepsWithCompletionChecker
      PROVE  MemInv(endOperation(l, timedOut))
  BY <1>3, <1>5, RemoveInv, TransitionInv, StepsFacts DEF endOperation
<1>6. MemInv(removeOperationIfNotActive(l, reached))
  BY <1>1, <1>4, <1>5, Zenon DEF removeOperationIfNotActive
<1> QED BY <1>2, <1>6

\* The passing of time keeps an operation coherent with the previous one.
LEMMA ElapseCoherent ==
  ASSUME NEW op \in OperationType
  PROVE  /\ Elapse(op) \in OperationType
         /\ \A previous : Coherent(op, previous) => Coherent(Elapse(op), previous)
BY ElapseFacts DEF OperationType, Coherent, SameOperation, TransitionOfTimedOut, IdOfStep

-----------------------------------------------------------------------------
\* Without any operation the records are coherent.
LEMMA InitIInv == Init => IInv
BY NoMemInv, NoOperationFacts DEF Init, IInv, TypeOK, MemInv, MemType

\* Every step of the lifecycle keeps the records coherent.
LEMMA NextIInv == IInv /\ [Next]_vars => IInv'
<1> SUFFICES ASSUME IInv, [Next]_vars PROVE IInv'
  OBVIOUS
<1> DEFINE statusOK == /\ status' \in [blocking: OperationType, previousBlocking: OperationType]
                       /\ Coherent(status'.blocking, status'.previousBlocking)
<1>0. ASSUME MemInv(mem'), statusOK, pc' \in {"idle", "enforce", "save"} PROVE IInv'
  BY <1>0 DEF IInv, TypeOK, MemInv, MemType
<1>1. CASE Load
  <2> DEFINE f == [NoMem EXCEPT !.blocking = status.blocking,
                                !.previousBlocking = status.previousBlocking]
  <2>1. MemInv(f)
    BY NoMemInv, Zenon DEF IInv, TypeOK, MemInv, MemType
  <2>2. PICK reached \in BOOLEAN : mem' = LoadActiveOperation(f, reached)
    BY <1>1 DEF Load
  <2> HIDE DEF f
  <2>3. MemInv(mem')
    BY <2>1, <2>2, LoadInv
  <2> QED BY <1>0, <1>1, <2>3 DEF Load, IInv, TypeOK
<1>2. ASSUME NEW step \in Steps, NEW idx \in Indexes, Activate(step, idx) PROVE IInv'
  <2>1. MemInv(mem')
    BY <1>2, ActivateInv, IndexesAssumption DEF Activate, IInv
  <2> QED BY <1>0, <1>2, <2>1 DEF Activate, IInv, TypeOK
<1>3. CASE Remove
  <2>1. MemInv(mem')
    BY <1>3, RemoveInv, Zenon DEF Remove, RemoveActiveOperation, IInv, MemInv
  <2> QED BY <1>0, <1>3, <2>1 DEF Remove, IInv, TypeOK
<1>4. CASE EndEnforcement
  BY <1>0, <1>4 DEF EndEnforcement, IInv, TypeOK
<1>5. CASE SaveStatus
  BY <1>0, <1>5, NoMemInv DEF SaveStatus, IInv, TypeOK, MemInv, MemType
<1>6. CASE LoseStatus
  BY <1>0, <1>6, NoMemInv DEF LoseStatus, IInv, TypeOK
<1>7. CASE Tick
  <2>1. statusOK
    BY <1>7, ElapseCoherent DEF Tick, IInv, TypeOK
  <2>2. /\ mem'.active = Elapse(mem.active) /\ mem'.blocking = Elapse(mem.blocking)
        /\ mem'.previous = mem.previous /\ mem'.previousBlocking = mem.previousBlocking
        /\ mem' = [mem EXCEPT !.active = Elapse(mem.active), !.blocking = Elapse(mem.blocking)]
    BY <1>7 DEF Tick, IInv, MemInv, MemType
  <2>3. mem.active \in OperationType /\ mem.blocking \in OperationType
    BY DEF IInv, MemInv, MemType
  <2>4. MemInv(mem')
    BY <2>2, <2>3, ElapseCoherent, Zenon DEF IInv, MemInv, MemType
  <2> QED BY <1>0, <1>7, <2>1, <2>4 DEF Tick, IInv, TypeOK
<1>8. CASE UNCHANGED vars
  BY <1>0, <1>8 DEF vars, IInv, TypeOK
<1> QED BY <1>1, <1>2, <1>3, <1>4, <1>5, <1>6, <1>7, <1>8 DEF Next

\* The records are always coherent.
LEMMA SpecIInv == Spec => []IInv
BY InitIInv, NextIInv, PTL DEF Spec

\* The persisted and the in-memory operations stay well formed, whatever the
\* enforcers activate and remove and whatever is lost (BlockingOperation).
THEOREM LifecycleTypeCorrect == Spec => []TypeOK
BY SpecIInv, PTL DEF IInv

\* An operation in transition always comes with its own last step as previous
\* operation, also after lost status updates (setActiveOperationInTransition).
THEOREM TransitionIsRemembered == Spec => []TransitionRemembersItsStep
<1>1. IInv => TransitionRemembersItsStep
  BY DEF IInv, MemInv, Coherent, TransitionRemembersItsStep
<1> QED BY <1>1, SpecIInv, PTL

\* Only the wait before a fail-over moves to transition by timing out
\* (removeOperationIfNotActive).
THEOREM OnlyTheWaitTimesOut == Spec => []OnlyTheWaitTimesOutIntoTransition
<1>1. IInv => OnlyTheWaitTimesOutIntoTransition
  BY DEF IInv, MemInv, Coherent, OnlyTheWaitTimesOutIntoTransition
<1> QED BY <1>1, SpecIInv, PTL
=============================================================================
