CONSTANTS
  TimeOut <- MCTimeOut
  Replicas = {1, 2, 3}
  Disruptions = {"podFails", "podLost", "deleteStatefulSet", "deletePvc", "scale", "toggleFailover",
                 "promotePod", "toggleStandby", "createFails", "promoteFails",
                 "deleteReplicaFails", "getPvcFails", "updateSpecFails",
                 "deletePrimaryFails", "saveFails", "crash", "editWhileReconciling"}
  MaxDisruptions = 2
  FailOverSettle = 1

SPECIFICATION Spec

PROPERTIES
  PromotionFollowsWait
  LastReadyIsKeptUnlessStale
