-------------------------- MODULE BlockingOperation --------------------------
(***************************************************************************)
(* The blocking operation of controllers/operation: at most one long       *)
(* running operation (deploying an instance, failing over, updating a      *)
(* StatefulSet's spec...) is active at a time.  It is persisted in         *)
(* Kubegres.Status, so that the next reconciliation finds it, and a        *)
(* reconciliation enforces nothing while the operation still has time left.*)
(*                                                                         *)
(* The Go methods mutate the struct BlockingOperation and, through the     *)
(* status wrapper, the Status of the Kubegres object held in memory.  Here *)
(* they are functions from a record "mem" to a record "mem", whose fields  *)
(*   active, previous            are the struct's two operations,          *)
(*   blocking, previousBlocking  are the in-memory Kubegres.Status fields, *)
(*   changed                     says that statusFieldsToUpdate # nil.     *)
(* Callers may have more fields in "mem".                                  *)
(*                                                                         *)
(* A deadline (TimeOutEpocInSeconds) is represented by the number of ticks *)
(* left before it; callers decrement it when time passes.                  *)
(***************************************************************************)
EXTENDS Integers

CONSTANT
  TimeOut \* TimeOutInSeconds of each step, in ticks

BaseConfigCount  == "Base config count spec enforcement"
PrimaryDbCount   == "Primary DB count spec enforcement"
ReplicaDbCount   == "Replica DB count spec enforcement"
StatefulSetSpec  == "Enforcing StatefulSet's Spec"

Transition == "Transition"

(***************************************************************************)
(* The table of configs: the operation each step belongs to, the steps     *)
(* with a completion checker, and the steps after which the operation      *)
(* stays active in the transition step.                                    *)
(***************************************************************************)
OperationIdOf ==
  [ BaseConfigDeploying      |-> BaseConfigCount,
    PrimaryDbDeploying       |-> PrimaryDbCount,
    WaitingBeforeFailingOver |-> PrimaryDbCount,
    FailingOver              |-> PrimaryDbCount,
    ReplicaDbDeploying       |-> ReplicaDbCount,
    ReplicaDbUndeploying     |-> ReplicaDbCount,
    SpecUpdating             |-> StatefulSetSpec,
    PodSpecUpdating          |-> StatefulSetSpec,
    WaitingOnStuckPod        |-> StatefulSetSpec ]

Steps == DOMAIN OperationIdOf
OperationIds == {BaseConfigCount, PrimaryDbCount, ReplicaDbCount, StatefulSetSpec}

StepsWithCompletionChecker == Steps \ {"WaitingBeforeFailingOver"}

StepsMovingToTransition ==
  {"WaitingBeforeFailingOver", "SpecUpdating", "PodSpecUpdating", "WaitingOnStuckPod"}

ASSUME TimeOutAssumption == TimeOut \in [Steps -> Nat \ {0}]

(***************************************************************************)
(* v1.KubegresBlockingOperation.  The index is 0 when the operation is not *)
(* about a StatefulSet, diff is the set of spec differences it enforces.   *)
(***************************************************************************)
Operation(Diffs) ==
  [ id: OperationIds \cup {""}, step: Steps \cup {Transition, ""}, idx: Nat,
    diff: Diffs, left: Nat, timedOut: BOOLEAN ]

NoOperation ==
  [id |-> "", step |-> "", idx |-> 0, diff |-> {}, left |-> 0, timedOut |-> FALSE]

createOperationObj(step, idx, diff) ==
  [id |-> OperationIdOf[step], step |-> step, idx |-> idx, diff |-> diff,
   left |-> 0, timedOut |-> FALSE]

(***************************************************************************)
(* Queries.                                                                *)
(***************************************************************************)
isThereActiveOperation(mem) == mem.active.id # ""

isOperationInTransition(mem) == mem.active.step = Transition

IsActiveOperationIdDifferentOf(mem, id) ==
  isThereActiveOperation(mem) /\ mem.active.id # id

IsActiveOperationInTransition(mem, id) ==
  mem.active.id = id /\ mem.active.step = Transition

HasActiveOperationIdTimedOut(mem, id) == mem.active.id = id /\ mem.active.timedOut

\* How long ago the operation was activated, in ticks.
GetNbreSecondsSinceOperationHasStarted(op) == TimeOut[op.step] - op.left

(***************************************************************************)
(* Updates.                                                                *)
(***************************************************************************)
SetBlockingOperation(mem, op) ==
  [mem EXCEPT !.active = op, !.blocking = op, !.changed = TRUE]

SetPreviousBlockingOperation(mem, op) ==
  [mem EXCEPT !.previous = op, !.previousBlocking = op, !.changed = TRUE]

\* activateOperation: an operation with another id makes it return an error.
canActivateOperation(mem, step) ==
  ~IsActiveOperationIdDifferentOf(mem, OperationIdOf[step])

\* Mutation: the operation is stored, but it is not the active one.
activateOperation_OnlyStored(mem, step, idx, diff) ==
  [mem EXCEPT !.blocking = [createOperationObj(step, idx, diff) EXCEPT !.left = TimeOut[step]],
              !.changed = TRUE]

activateOperation(mem, step, idx, diff) ==
  SetBlockingOperation(mem, [createOperationObj(step, idx, diff) EXCEPT !.left = TimeOut[step]])

\* The deadline of an operation that is over is never read again: it is 0 here.
remember(mem, hasTimedOut) ==
  SetPreviousBlockingOperation(mem, [mem.active EXCEPT !.timedOut = hasTimedOut, !.left = 0])

removeActiveOperation(mem, hasTimedOut) ==
  SetBlockingOperation(
    IF isOperationInTransition(mem) THEN mem ELSE remember(mem, hasTimedOut), NoOperation)

RemoveActiveOperation(mem) == removeActiveOperation(mem, FALSE)

\* Mutation: the operation that moves to transition is not remembered.
setActiveOperationInTransition_Forgets(mem, hasTimedOut) ==
  SetBlockingOperation(mem, [mem.active EXCEPT !.step = Transition, !.timedOut = FALSE, !.left = 0])

setActiveOperationInTransition(mem, hasTimedOut) ==
  SetBlockingOperation(remember(mem, hasTimedOut),
    [mem.active EXCEPT !.step = Transition, !.timedOut = FALSE, !.left = 0])

\* The operation is over: it moves to the transition step or it is removed.
endOperation(mem, hasTimedOut) ==
  IF mem.active.step \in StepsMovingToTransition
    THEN setActiveOperationInTransition(mem, hasTimedOut)
    ELSE removeActiveOperation(mem, hasTimedOut)

(***************************************************************************)
(* A timed-out operation with a completion checker stays active; that it   *)
(* timed out is only written in memory (active), not in the status.        *)
(* "reached" is what the completion checker of the operation answers.      *)
(***************************************************************************)
removeOperationIfNotActive_AnyTimeOut(mem, reached) == \* Mutation: any time-out ends the operation.
  IF ~isThereActiveOperation(mem) \/ isOperationInTransition(mem) THEN mem
  ELSE IF mem.active.left = 0 THEN endOperation(mem, TRUE)
  ELSE IF mem.active.step \in StepsWithCompletionChecker /\ reached THEN endOperation(mem, FALSE)
  ELSE mem

removeOperationIfNotActive(mem, reached) ==
  LET expired == mem.active.left = 0
      hasChecker == mem.active.step \in StepsWithCompletionChecker
  IN IF ~isThereActiveOperation(mem) \/ isOperationInTransition(mem) THEN mem
     ELSE IF expired /\ hasChecker THEN [mem EXCEPT !.active.timedOut = TRUE]
     ELSE IF expired THEN endOperation(mem, TRUE)
     ELSE IF hasChecker /\ reached THEN endOperation(mem, FALSE)
     ELSE mem

LoadActiveOperation(mem, reached) ==
  removeOperationIfNotActive(
    [mem EXCEPT !.active = mem.blocking, !.previous = mem.previousBlocking], reached)

\* Mutation: an operation without time left still makes the reconciliation wait.
mustWaitForTimeOut_Always(mem) == isThereActiveOperation(mem)

\* Reconcile returns without enforcing anything and asks to be called again
\* while the loaded operation has time left.
mustWaitForTimeOut(mem) == mem.active.left > 0

\* Mutation: the time left is not floored at 0.
Elapse_NoFloor(op) == [op EXCEPT !.left = @ - 1]

\* One tick passes.
Elapse(op) == [op EXCEPT !.left = IF @ > 0 THEN @ - 1 ELSE 0]
=============================================================================
