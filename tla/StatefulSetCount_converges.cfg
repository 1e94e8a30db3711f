CONSTANTS
  TimeOut <- MCTimeOut
  Replicas = {1, 2, 3}
  Disruptions = {"podFails", "podLost", "scale", "createFails", "promoteFails",
                 "deleteReplicaFails", "promotePod", "updateSpecFails"}
  MaxDisruptions = 2
  FailOverSettle = 1

SPECIFICATION FairSpec

PROPERTIES
  ConvergesToSpec
