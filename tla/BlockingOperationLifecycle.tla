---------------------- MODULE BlockingOperationLifecycle ----------------------
(***************************************************************************)
(* The life of the blocking operation across reconciliations, whoever uses *)
(* it: what is persisted in Kubegres.Status, what one reconciliation holds *)
(* in memory, deadlines passing meanwhile, a status update that is refused *)
(* and an operator that crashes before it saved anything.                  *)
(*                                                                         *)
(* The enforcers are abstracted to what they may ask of the operation: to  *)
(* activate a step, to remove the active operation, or nothing.  The       *)
(* answers of the completion checkers are arbitrary.                       *)
(***************************************************************************)
EXTENDS BlockingOperation

CONSTANT Indexes \* instance indexes an operation may be about

ASSUME IndexesAssumption == Indexes \subseteq Nat

VARIABLES
  status, \* Kubegres.Status as stored by the API server
  mem,    \* what the running reconciliation holds, see BlockingOperation
  pc      \* where the reconciliation is

vars == <<status, mem, pc>>

NoMem ==
  [ active |-> NoOperation, previous |-> NoOperation,
    blocking |-> NoOperation, previousBlocking |-> NoOperation, changed |-> FALSE ]

Init ==
  /\ status = [blocking |-> NoOperation, previousBlocking |-> NoOperation]
  /\ mem = NoMem
  /\ pc = "idle"

\* Reconcile, from getting the Kubegres resource to the decision to wait.
Load ==
  /\ pc = "idle"
  /\ \E reached \in BOOLEAN :
       LET fetched == [NoMem EXCEPT !.blocking = status.blocking,
                                    !.previousBlocking = status.previousBlocking]
       IN mem' = LoadActiveOperation(fetched, reached)
  /\ pc' = IF mustWaitForTimeOut(mem') THEN "save" ELSE "enforce"
  /\ UNCHANGED status

\* An enforcer activates a step. When another operation is active it gets an
\* error, and the reconciliation ends with it.
Activate(step, idx) ==
  /\ pc = "enforce"
  /\ IF canActivateOperation(mem, step)
       THEN mem' = activateOperation(mem, step, idx, {}) /\ pc' = pc
       ELSE UNCHANGED mem /\ pc' = "save"
  /\ UNCHANGED status

\* An enforcer removes the active operation: what it waited for is fixed,
\* verified, or the API call that should have started it failed.
Remove ==
  /\ pc = "enforce"
  /\ isThereActiveOperation(mem)
  /\ mem' = RemoveActiveOperation(mem)
  /\ UNCHANGED <<status, pc>>

\* The enforcers are done, or one of them failed.
EndEnforcement ==
  /\ pc = "enforce"
  /\ pc' = "save"
  /\ UNCHANGED <<status, mem>>

\* returnn: the whole status is written, if anything in it was set.
SaveStatus ==
  /\ pc = "save"
  /\ status' = IF mem.changed
                 THEN [blocking |-> mem.blocking, previousBlocking |-> mem.previousBlocking]
                 ELSE status
  /\ mem' = NoMem
  /\ pc' = "idle"

\* The status update is refused, or the operator stops before it: what the
\* reconciliation did to the status is lost.
LoseStatus ==
  /\ pc # "idle"
  /\ mem' = NoMem
  /\ pc' = "idle"
  /\ UNCHANGED status

Tick ==
  /\ status' = [status EXCEPT !.blocking = Elapse(@)]
  /\ mem' = [mem EXCEPT !.active = Elapse(@), !.blocking = Elapse(@)]
  /\ UNCHANGED pc

Next ==
  \/ Load
  \/ \E step \in Steps, idx \in Indexes : Activate(step, idx)
  \/ Remove
  \/ EndEnforcement
  \/ SaveStatus
  \/ LoseStatus
  \/ Tick

\* A reconciliation is always requested again (by an event, an error, the
\* requeue delay or the resync of the watches) and time passes.
Fairness == WF_vars(Load) /\ WF_vars(EndEnforcement) /\ WF_vars(SaveStatus) /\ WF_vars(Tick)

Spec == Init /\ [][Next]_vars
FairSpec == Spec /\ Fairness

-----------------------------------------------------------------------------
OperationType == Operation({{}})

\* The persisted and the in-memory operations are always well formed, and the
\* reconciliation is in one of its steps.
TypeOK ==
  /\ status \in [blocking: OperationType, previousBlocking: OperationType]
  /\ mem \in [active: OperationType, previous: OperationType, blocking: OperationType,
              previousBlocking: OperationType, changed: BOOLEAN]
  /\ pc \in {"idle", "enforce", "save"}

\* An operation in the transition step and the operation remembered as previous:
\* what isWaitingBeforeStartingFailOver and isStatefulSetSpecUpdating read.
SameOperation(active, previous) ==
  active.step = Transition =>
    /\ previous.id = active.id
    /\ previous.idx = active.idx
    /\ previous.step \in StepsMovingToTransition
    /\ OperationIdOf[previous.step] = active.id

\* Whatever was saved, lost or crashed, an operation in transition always comes
\* with the previous operation that is its own last step, on the same instance
\* (BlockingOperation.setActiveOperationInTransition; read by the fail-over and
\* by the spec enforcer to know which step is over).
TransitionRemembersItsStep ==
  /\ SameOperation(status.blocking, status.previousBlocking)
  /\ SameOperation(mem.active, mem.previous)
  /\ SameOperation(mem.blocking, mem.previousBlocking)

\* Of the steps that move to transition, only the wait before a fail-over does so
\* by timing out; a spec update that timed out never looks completed
\* (BlockingOperation.removeOperationIfNotActive).
TransitionOfTimedOut(active, previous) ==
  active.step = Transition /\ previous.timedOut => previous.step = "WaitingBeforeFailingOver"

\* A transition reached by a time-out is the end of the wait before a fail-over,
\* in the status, in the struct and in the in-memory status.
OnlyTheWaitTimesOutIntoTransition ==
  /\ TransitionOfTimedOut(status.blocking, status.previousBlocking)
  /\ TransitionOfTimedOut(mem.active, mem.previous)
  /\ TransitionOfTimedOut(mem.blocking, mem.previousBlocking)

\* An operation never blocks the operator for ever: again and again a
\* reconciliation gets past the active operation and enforces the spec
\* (LoadActiveOperation, mustWaitForTimeOut).
EnforcementIsReachedAgain == []<>(pc = "enforce")
=============================================================================
