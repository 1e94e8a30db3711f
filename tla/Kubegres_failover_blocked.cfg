CONSTANTS
  TimeOut <- MCTimeOut
  Replicas = {2}
  Disruptions = {"changeTemplate", "deleteStatefulSet"}
  MaxDisruptions = 2
  FailOverSettle = 1
  Templates <- MCGoodTemplates
  BrokenImages = {3}
  SpecSettle = 1
  ConfigData <- MCConfigData

SPECIFICATION FairSpecAll

PROPERTY
  LostPrimaryIsReplaced
