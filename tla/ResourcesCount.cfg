CONSTANTS
  TimeOut <- MCTimeOut
  Replicas = {1, 2}
  Disruptions = {"scale", "deleteStatefulSet", "changeConfig", "changeStorage", "changeBackUp",
                 "baseConfig", "customConfig", "storageClass", "backUpPvc", "deleteCronJob",
                 "createConfigFails", "createCronJobFails", "deleteCronJobFails", "rollbackFails",
                 "editWhileReconciling", "crash"}
  MaxDisruptions = 2
  FailOverSettle = 1
  ConfigData <- MCBackUpData
  Storages = {1, 2}
  DefaultStorage = 1
  BackUps <- MCBackUps

SPECIFICATION FairSpecResources

INVARIANTS
  ResourcesTypeOK

PROPERTIES
  InstancesWaitForBaseConfig
  ReplicasShareStorage
  StorageChangeIsUndone
  CronJobIsCurrent
  BaseConfigIsRestored
