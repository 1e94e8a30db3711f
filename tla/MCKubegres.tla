------------------------------ MODULE MCKubegres ------------------------------
EXTENDS Kubegres, TLC

\* One tick for the waits, two for the deployments, the fail-over and the update.
MCTimeOut ==
  [s \in Steps |->
     IF s \in {"PrimaryDbDeploying", "ReplicaDbDeploying", "FailingOver", "SpecUpdating"} THEN 2 ELSE 1]

\* The image 3 is a broken one.
MCTemplates ==
  {[image |-> 1, port |-> 1, config |-> 1], [image |-> 1, port |-> 2, config |-> 2],
   [image |-> 3, port |-> 1, config |-> 1]}

MCGoodTemplates == {t \in MCTemplates : t.image # 3}

MCTwoTemplates == {[image |-> 1, port |-> 1, config |-> 1], [image |-> 3, port |-> 2, config |-> 2]}

\* A custom config map with the configuration of the database, and one with the script
\* that promotes a replica.
MCConfigData == 2 :> {"postgres.conf"}
MCPromotionData == 2 :> {"promote_replica_to_primary.sh"}
=============================================================================
