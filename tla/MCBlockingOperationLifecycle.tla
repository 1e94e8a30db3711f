--------------------- MODULE MCBlockingOperationLifecycle ---------------------
(* The time-out of a fail-over is two ticks, the others one. *)
EXTENDS BlockingOperationLifecycle

MCTimeOut ==
  [s \in Steps |-> IF s = "FailingOver" THEN 2 ELSE 1]
=============================================================================
