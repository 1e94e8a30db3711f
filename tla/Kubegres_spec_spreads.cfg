CONSTANTS
  TimeOut <- MCTimeOut
  Replicas = {2}
  Disruptions = {"changeTemplate", "podGetsStuck"}
  MaxDisruptions = 2
  FailOverSettle = 1
  Templates <- MCTemplates
  BrokenImages = {3}
  SpecSettle = 1
  ConfigData <- MCConfigData

SPECIFICATION SpecAll

PROPERTY
  BrokenImageStopsAtReplicas
