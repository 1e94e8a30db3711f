CONSTANTS
  TimeOut <- MCTimeOut
  Replicas = {1, 2, 3}
  Disruptions = {"changeTemplate", "podFails", "updateStatefulSetFails", "createServiceFails",
                 "deleteService"}
  MaxDisruptions = 2
  FailOverSettle = 1
  Templates <- MCTemplates
  BrokenImages = {3}
  SpecSettle = 1
  ConfigData <- MCConfigData

SPECIFICATION FairSpecAll

INVARIANTS
  OnlyOnePrimary
  MountsHaveVolumes

PROPERTIES
  UpdatesFollowTheOrder
  BrokenImageStopsAtReplicas
  SpecIsApplied
  ReadyRolesAreServed
