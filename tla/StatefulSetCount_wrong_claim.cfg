CONSTANTS
  TimeOut <- MCTimeOut
  Replicas = {1, 2}
  Disruptions = {"scale", "deleteStatefulSet"}
  MaxDisruptions = 2
  FailOverSettle = 1

SPECIFICATION Spec

PROPERTIES
  PrimaryIsRecreatedOnItsClaim
