CONSTANTS
  TimeOut <- MCTimeOut
  Replicas = {2}
  Disruptions = {"podFails", "podLost", "deleteStatefulSet", "deletePvc", "scale", "toggleFailover",
                 "promotePod", "toggleStandby", "createFails", "promoteFails", "deletePrimaryFails",
                 "deleteReplicaFails", "getPvcFails", "updateSpecFails", "saveFails", "crash",
                 "editWhileReconciling", "changeTemplate", "deleteService", "podGetsStuck",
                 "podMissing", "slowPods", "updateStatefulSetFails", "deletePodFails",
                 "createServiceFails", "deleteServiceFails"}
  MaxDisruptions = 2
  FailOverSettle = 1
  Templates <- MCTwoTemplates
  BrokenImages = {3}
  SpecSettle = 1
  ConfigData <- MCPromotionData

SPECIFICATION SpecAll

INVARIANT
  AllTypeOK

PROPERTIES
  PromotionFollowsWait
  ChangesRestOnACompleteList
  TemplatesFollowTheOrder
