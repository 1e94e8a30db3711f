CONSTANTS
  TimeOut <- MCTimeOut
  Replicas = {1, 2, 3}
  Disruptions = {"podFails", "podLost", "deleteStatefulSet", "scale", "toggleFailover",
                 "promotePod", "toggleStandby", "createFails", "promoteFails",
                 "deleteReplicaFails", "updateSpecFails"}
  MaxDisruptions = 2
  FailOverSettle = 1

SPECIFICATION Spec

INVARIANTS
  TypeOK
  OnlyOnePrimary
  NewIndexesAreFresh
  EnforcedReplicasCoverDeployed

PROPERTIES
  InstanceRolesAreKept
