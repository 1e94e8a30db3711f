CONSTANTS
  TimeOut <- MCTimeOut
  Replicas = {2, 3}
  Disruptions = {"deleteStatefulSet", "toggleFailover", "promotePod", "createFails", "promoteFails",
                 "updateSpecFails"}
  MaxDisruptions = 3
  FailOverSettle = 1

SPECIFICATION FairSpec

PROPERTIES
  NoReplicaIsReplacedWhenDisabled
  ReadyPrimaryGetsItsReplicas
