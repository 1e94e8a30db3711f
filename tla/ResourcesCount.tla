---------------------------- MODULE ResourcesCount ----------------------------
(***************************************************************************)
(* ResourcesCountSpecEnforcer: the base config map, then the instances,    *)
(* then the cron job of the back-up are enforced, up to the first error.   *)
(* (The services, and the spec of the StatefulSets, are in Kubegres.)      *)
(***************************************************************************)
EXTENDS ClusterResources

kept == UNCHANGED <<spec, status, sts, pvcs, lastPrimary, seen, outdated, asked, storage, read>>

-----------------------------------------------------------------------------
(***************************************************************************)
(* BaseConfigMapCountSpecEnforcer.                                         *)
(***************************************************************************)
hasBaseConfigAttemptTimedOut == HasActiveOperationIdTimedOut(mem, BaseConfigCount)

\* Mutation: a user with a custom config map is given no base one.
deploysBaseConfig_NoCustom ==
  /\ ~IsActiveOperationIdDifferentOf(mem, BaseConfigCount)
  /\ ~hasBaseConfigAttemptTimedOut
  /\ ~isBaseConfigDeployed(read.owned)
  /\ read.asked.config = BaseConfig

deploysBaseConfig ==
  /\ ~IsActiveOperationIdDifferentOf(mem, BaseConfigCount)
  /\ ~hasBaseConfigAttemptTimedOut
  /\ ~isBaseConfigDeployed(read.owned)

BaseConfigEnforced(m, next) ==
  /\ mem' = m
  /\ pc' = next
  /\ stage' = "instances"
  /\ kept /\ UNCHANGED cronJob

deployBaseConfigMap_NoOperation == \* Mutation: the deployment is not a blocking operation.
  /\ deploysBaseConfig
  /\ owned' = [owned EXCEPT !.maps = @ \cup {BaseConfig}]
  /\ BaseConfigEnforced(mem, pc)
  /\ Happens({})

\* The creation fails if the config map appeared since the resources were read.
deployBaseConfigMap ==
  LET deploying == activateOperation(mem, "BaseConfigDeploying", 0, {})
      exists == isBaseConfigDeployed(owned)
  IN /\ deploysBaseConfig
     /\ \/ /\ ~exists
           /\ owned' = [owned EXCEPT !.maps = @ \cup {BaseConfig}]
           /\ BaseConfigEnforced(deploying, pc)
           /\ Happens({})
        \/ /\ Happens(IF exists THEN {} ELSE {"createConfigFails"})
           /\ BaseConfigEnforced(RemoveActiveOperation(deploying), "save")
           /\ UNCHANGED owned

\* The config map is deployed, another operation is active, or the last attempt has
\* timed out: it is fixed once the config map is there.
BaseConfigUnchanged ==
  /\ ~deploysBaseConfig
  /\ BaseConfigEnforced(IF hasBaseConfigAttemptTimedOut /\ isBaseConfigDeployed(read.owned)
                          THEN RemoveActiveOperation(mem) ELSE mem, pc)
  /\ Happens({}) /\ UNCHANGED owned

EnforceBaseConfig ==
  /\ pc = "primary" /\ stage = "config"
  /\ deployBaseConfigMap \/ BaseConfigUnchanged

-----------------------------------------------------------------------------
(***************************************************************************)
(* BackUpCronJobCountSpecEnforcer.                                         *)
(***************************************************************************)
getConfigMapNameForBackUp(r) ==
  IF ConfigLocations(r.asked.config, r.owned.maps)[BackUpKey] = "base-config"
    THEN BaseConfig ELSE r.asked.config

\* The service a back-up is taken from: that of the replicas, unless there is only
\* a primary.
GetServiceResourceName(s) == IF ~s.standby /\ s.replicas = 1 THEN "primary" ELSE "replica"

CreateBackUpCronJob(r, s) ==
  [ schedule |-> r.asked.backup.schedule, mount |-> r.asked.backup.mount, pvc |-> r.asked.backup.pvc,
    config |-> getConfigMapNameForBackUp(r), source |-> GetServiceResourceName(s) ]

hasSpecChanged_NotSource == \* Mutation: the source of the back-up is not compared.
  [read.cronJob EXCEPT !.source = ""] # [CreateBackUpCronJob(read, mem.spec) EXCEPT !.source = ""]

hasSpecChanged == read.cronJob # CreateBackUpCronJob(read, mem.spec)

isCronJobDeployed == read.cronJob # NoCronJob

BackUpEnforced(job, failures) ==
  /\ cronJob' = job
  /\ pc' = "save"
  /\ Happens(failures)
  /\ kept /\ UNCHANGED <<mem, owned, stage>>

\* A cron job that the spec changed is deleted, then created again.
EnforceBackUp ==
  /\ pc = "services"
  /\ LET toDelete == isCronJobDeployed /\ hasSpecChanged
         toCreate == isBackUpConfigured(read.asked) /\ (isCronJobDeployed => hasSpecChanged)
         gone == toDelete /\ cronJob = NoCronJob
     IN \/ /\ gone
           /\ BackUpEnforced(cronJob, {})
        \/ /\ toDelete /\ ~gone
           /\ BackUpEnforced(cronJob, {"deleteCronJobFails"})
        \/ /\ toCreate /\ ~gone
           /\ \/ BackUpEnforced(NoCronJob, {"createCronJobFails"})
              \/ BackUpEnforced(CreateBackUpCronJob(read, mem.spec), {})
        \/ /\ ~toCreate /\ ~gone
           /\ BackUpEnforced(IF toDelete THEN NoCronJob ELSE cronJob, {})

-----------------------------------------------------------------------------
resourcesKept ==
  /\ stage' = IF pc' = "idle" THEN "check" ELSE stage
  /\ read' = IF pc' = "idle" THEN NoRead ELSE read
  /\ UNCHANGED <<asked, owned, cronJob>>

ReconcileResources ==
  \/ LoadResourcesStates
  \/ LoadResourcesFails
  \/ CheckSpec
  \/ EnforceBaseConfig
  \/ stage = "instances" /\ EnforcePrimaryDb /\ StorageFollows /\ resourcesKept
  \/ EnforceReplicaDb /\ StorageFollows /\ resourcesKept
  \/ EnforceBackUp
  \/ pc = "save" /\ (SaveStatus \/ SaveRefused) /\ StorageFollows /\ resourcesKept

CrashResources == Crash /\ StorageFollows /\ resourcesKept
TimePasses == Tick /\ UNCHANGED resourceVars

NextResources ==
  \/ ReconcileResources
  \/ CrashResources
  \/ ClusterStep
  \/ ResourcesChange
  \/ TimePasses

PodsProgress ==
  /\ \E i \in DOMAIN sts : PodProgress(i)
  /\ PodsHaveConfig /\ StorageFollows /\ UNCHANGED <<asked, owned, cronJob, stage, read>>

SpecResources == Init /\ ResourcesInit /\ [][NextResources]_resVars

FairSpecResources ==
  /\ SpecResources
  /\ WF_resVars(ReconcileResources)
  /\ WF_resVars(TimePasses)
  /\ WF_resVars(PodsProgress)

-----------------------------------------------------------------------------
\* The resources and what was read of them are well formed; a reconciliation never
\* works on an undefined value.
ResourcesTypeOK ==
  /\ asked \in [config: {0, BaseConfig} \cup CustomConfigs, storage: {0} \cup Storages, backup: BackUps]
  /\ owned.maps \subseteq {BaseConfig} \cup CustomConfigs
  /\ owned.classes \subseteq Storages /\ owned.claims \subseteq BackUpPvcs
  /\ storage \in [DOMAIN sts -> Storages]
  /\ stage \in {"check", "config", "instances"}
  /\ pc # "idle" =>
       read.asked \in [config: {BaseConfig} \cup CustomConfigs, storage: Storages, backup: BackUps]

\* No instance is created by a reconciliation that missed the base config map, from
\* which its pod would not start, unless an operation was active already
\* (BaseConfigMapCountSpecEnforcer: features are disabled until it is ready).
InstancesWaitForBaseConfig ==
  [][ \A i \in DOMAIN sts' \ DOMAIN sts :
        isBaseConfigDeployed(read.owned) \/ status.blocking.id # "" ]_resVars

\* A replica is created with the storage of the primary, whose pod was found ready,
\* whatever the user changed the storage to and whether or not that could be undone
\* (CheckSpec: the cluster risks being inconsistent otherwise).
ReplicasShareStorage ==
  [][ \A i \in replicas(sts') \ DOMAIN sts :
        read.primaryReady => \A p \in primaries(seen) : storage'[i] = read.storage[p] ]_resVars

\* A storage that differs from that of the ready primary is eventually set back in
\* the Kubegres resource (SpecChecker.updateKubegresSpec), unless it is undefined and
\* there is no default storage class.
StorageChangeIsUndone ==
  <>[](\/ ~GetDefaultStorageClassName
       \/ \A p \in primaries(sts) \cap ready(sts) : asked.storage = storage[p])

stored == [asked |-> asked, owned |-> owned]

\* The back-up job ends up as the spec asks, or there is none if it asks for none,
\* although it is deleted before it is created again and each call may fail; unless
\* the spec has a fatal error, or the creation of an instance was not saved and the
\* enforcers before this one fail (BackUpCronJobCountSpecEnforcer).
CronJobIsCurrent ==
  <>[](\/ HasSpecFatalError(stored) \/ \E i \in DOMAIN sts : i > status.last
       \/ cronJob = IF isBackUpConfigured(asked) THEN CreateBackUpCronJob(stored, spec) ELSE NoCronJob)

\* A base config map that is missing is eventually deployed again, unless the spec
\* has a fatal error or an operation, which only the user can end, is active.
BaseConfigIsRestored ==
  <>[](isBaseConfigDeployed(owned) \/ HasSpecFatalError(stored) \/ status.blocking.id # "")
=============================================================================
