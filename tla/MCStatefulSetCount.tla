-------------------------- MODULE MCStatefulSetCount --------------------------
EXTENDS StatefulSetCount

\* One tick for the waits, two for the deployments and the fail-over.
MCTimeOut ==
  [s \in Steps |-> IF s \in {"PrimaryDbDeploying", "ReplicaDbDeploying", "FailingOver"} THEN 2 ELSE 1]
=============================================================================
