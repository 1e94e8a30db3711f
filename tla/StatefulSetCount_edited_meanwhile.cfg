CONSTANTS
  TimeOut <- MCTimeOut
  Replicas = {2, 3}
  Disruptions = {"podFails", "scale", "editWhileReconciling"}
  MaxDisruptions = 2
  FailOverSettle = 1

SPECIFICATION Spec

INVARIANTS
  OnlyOnePrimary
