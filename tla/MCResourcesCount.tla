--------------------------- MODULE MCResourcesCount ---------------------------
(* Small instance of ResourcesCount: back-ups on two claims, one without one. *)
EXTENDS ResourcesCount, TLC

MCTimeOut == [s \in Steps |-> IF s = "FailingOver" THEN 2 ELSE 1]
MCBackUpData == 2 :> {"backup_database.sh"}
MCBackUps ==
  { [schedule |-> 0, mount |-> 0, pvc |-> 0], [schedule |-> 1, mount |-> 1, pvc |-> 1],
    [schedule |-> 2, mount |-> 1, pvc |-> 0] }
=============================================================================
