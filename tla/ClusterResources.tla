--------------------------- MODULE ClusterResources ---------------------------
(***************************************************************************)
(* The other resources of a Kubegres cluster: config maps, storage classes,*)
(* the claim and the cron job of the back-up, the storage of each instance;*)
(* the fields of the spec about them; and what a reconciliation does with  *)
(* them before it enforces anything: it sets the values that are undefined,*)
(* reads the resources and checks the spec.                                *)
(*                                                                         *)
(* A storage stands for the volume mount, the storage class and the size   *)
(* of a database, none of which may change once there is a primary.        *)
(***************************************************************************)
EXTENDS StatefulSetCount, ConfigStates

CONSTANTS
  Storages,       \* the storages a user may ask for, each with its storage class
  DefaultStorage, \* the one with the default storage class
  BackUps         \* the back-ups a user may ask for: records [schedule, mount, pvc], 0 is undefined

CustomConfigs == DOMAIN ConfigData
BackUpPvcs == {b.pvc : b \in BackUps} \ {0}

ASSUME ResourcesAssumption ==
  /\ 0 \notin Replicas
  /\ Storages \subseteq Nat \ {0} /\ DefaultStorage \in Storages
  /\ BackUps \subseteq [schedule: Nat, mount: Nat, pvc: Nat]

VARIABLES
  asked,   \* the fields of Kubegres.Spec about these resources; 0 is undefined
  owned,   \* the deployed config maps, storage classes and claims for back-ups
  cronJob, \* the deployed cron job of the back-up
  storage, \* the storage of each StatefulSet
  stage,   \* how far the reconciliation is before the instances are enforced
  read     \* what this reconciliation has read of all these

resourceVars == <<asked, owned, cronJob, storage, stage, read>>
resVars == <<clusterVars, resourceVars>>

NoCronJob == [schedule |-> 0, mount |-> 0, pvc |-> 0, config |-> 0, source |-> ""]
NoRead ==
  [ asked |-> [config |-> 0, storage |-> 0, backup |-> [schedule |-> 0, mount |-> 0, pvc |-> 0]],
    owned |-> [maps |-> {}, classes |-> {}, claims |-> {}],
    cronJob |-> NoCronJob, storage |-> <<>>, primaryReady |-> FALSE ]

\* A user who has just created a Kubegres resource relies on the defaults.
ResourcesInit ==
  /\ asked \in [config: {0}, storage: {0}, backup: BackUps]
  /\ owned = [maps |-> CustomConfigs, classes |-> Storages, claims |-> BackUpPvcs]
  /\ cronJob = NoCronJob
  /\ storage = <<>>
  /\ stage = "check"
  /\ read = NoRead

-----------------------------------------------------------------------------
(***************************************************************************)
(* Users and Kubernetes.                                                   *)
(***************************************************************************)
ResourceChanges(kind) ==
  /\ Happens({kind})
  /\ UNCHANGED <<spec, status, sts, pvcs, lastPrimary>> /\ UNCHANGED reconcileVars
  /\ UNCHANGED <<storage, stage, read>>

UserAsks(kind, edited) ==
  /\ edited # asked
  /\ pc = "idle" \/ "editWhileReconciling" \in Disruptions
  /\ asked' = edited
  /\ outdated' = (pc # "idle")
  /\ ResourceChanges(kind)
  /\ UNCHANGED <<owned, cronJob>>

\* A resource that no Kubegres resource owns is deployed or deleted. (The base config
\* map is shared: the operator deploys it for any Kubegres resource of a namespace.)
toggled(S, x) == IF x \in S THEN S \ {x} ELSE S \cup {x}

SharedResourceChanges ==
  /\ \/ /\ owned' = [owned EXCEPT !.maps = toggled(@, BaseConfig)]
        /\ ResourceChanges("baseConfig")
     \/ /\ \E c \in CustomConfigs : owned' = [owned EXCEPT !.maps = toggled(@, c)]
        /\ ResourceChanges("customConfig")
     \/ /\ \E s \in Storages : owned' = [owned EXCEPT !.classes = toggled(@, s)]
        /\ ResourceChanges("storageClass")
     \/ /\ \E c \in BackUpPvcs : owned' = [owned EXCEPT !.claims = toggled(@, c)]
        /\ ResourceChanges("backUpPvc")
  /\ UNCHANGED <<outdated, asked, cronJob>>

CronJobDeleted ==
  /\ cronJob # NoCronJob
  /\ cronJob' = NoCronJob
  /\ ResourceChanges("deleteCronJob")
  /\ UNCHANGED <<outdated, asked, owned>>

ResourcesChange ==
  \/ \E c \in {0, BaseConfig} \cup CustomConfigs : UserAsks("changeConfig", [asked EXCEPT !.config = c])
  \/ \E s \in {0} \cup Storages : UserAsks("changeStorage", [asked EXCEPT !.storage = s])
  \/ \E b \in BackUps : UserAsks("changeBackUp", [asked EXCEPT !.backup = b])
  \/ SharedResourceChanges
  \/ CronJobDeleted

\* External: the containers of a pod only start once the volume of the base config
\* map can be mounted.
PodsHaveConfig ==
  \A i \in DOMAIN sts \cap DOMAIN sts' :
    sts[i].pod = "none" /\ sts'[i].pod # "none" => BaseConfig \in owned.maps

\* A StatefulSet is created with the storage that was read.
StorageFollows ==
  storage' = [i \in DOMAIN sts' |-> IF i \in DOMAIN sts THEN storage[i] ELSE read.asked.storage]

ClusterStep ==
  /\ ClusterChanges /\ PodsHaveConfig /\ StorageFollows
  /\ UNCHANGED <<asked, owned, cronJob, stage, read>>

-----------------------------------------------------------------------------
(***************************************************************************)
(* Before the enforcers.                                                   *)
(***************************************************************************)
\* Mutation: the custom config map keeps undefined.
SetDefaultForUndefinedSpecValues_NoConfig(a) ==
  [a EXCEPT !.storage = IF @ = 0 THEN DefaultStorage ELSE @]

\* Undefined values get their default, and the Kubegres resource is updated.
SetDefaultForUndefinedSpecValues(a) ==
  [a EXCEPT !.config = IF @ = 0 THEN BaseConfig ELSE @,
            !.storage = IF @ = 0 THEN DefaultStorage ELSE @]

GetDefaultStorageClassName == asked.storage = 0 => DefaultStorage \in owned.classes

isBaseConfigDeployed(o) == BaseConfig \in o.maps
loadDbStorageClass(r) == r.asked.storage \in r.owned.classes
loadBackUpPvc(r) == r.asked.backup.pvc \in r.owned.claims

isCompleted(op) ==
  IF op.step = "BaseConfigDeploying" THEN isBaseConfigDeployed(owned) ELSE CompletionChecker(op, sts)

LoadResourcesStates ==
  LET a == SetDefaultForUndefinedSpecValues(asked)
  IN /\ GetDefaultStorageClassName
     /\ LoadWith(isCompleted(status.blocking))
     /\ asked' = a
     /\ read' = [ asked |-> a, owned |-> owned, cronJob |-> cronJob,
                  storage |-> storage, primaryReady |-> FALSE ]
     /\ stage' = "check"
     /\ UNCHANGED <<owned, cronJob, storage>>

\* Without a default storage class, as with two primaries, nothing is done.
LoadResourcesFails ==
  /\ pc = "idle"
  /\ ~GetDefaultStorageClassName \/ Cardinality(primaries(sts)) > 1
  /\ UNCHANGED resVars

isBackUpConfigured(a) == a.backup.schedule # 0

HasSpecFatalError(r) ==
  \/ ~loadDbStorageClass(r)
  \/ r.asked.config # BaseConfig /\ ~IsCustomConfigDeployed(r.asked.config, r.owned.maps)
  \/ isBackUpConfigured(r.asked) /\ (r.asked.backup.mount = 0 \/ ~loadBackUpPvc(r))

Checked(m, next) ==
  /\ mem' = m
  /\ pc' = next
  /\ stage' = "config"
  /\ UNCHANGED <<spec, status, sts, pvcs, lastPrimary, seen, outdated>>
  /\ UNCHANGED <<owned, cronJob, storage>>

\* Mutation: the storage is set back in memory only.
updateKubegresSpec_InMemory(s) == Checked(mem, "save") /\ Happens({}) /\ UNCHANGED asked

\* Mutation: the reconciliation goes on, with the storage it has read.
updateKubegresSpec_GoesOn(s) ==
  Checked(decodedStatus(mem), pc) /\ Happens({}) /\ asked' = [asked EXCEPT !.storage = s]

\* The storage of the primary is written back in the Kubegres resource. A failure is
\* only logged.
updateKubegresSpec(s) ==
  \/ /\ ~outdated
     /\ asked' = [asked EXCEPT !.storage = s]
     /\ Checked(decodedStatus(mem), "save")
     /\ Happens({})
  \/ /\ Happens(IF outdated THEN {} ELSE {"rollbackFails"})
     /\ Checked(mem, "save")
     /\ UNCHANGED asked

\* The storage is only compared with that of a primary whose pod is ready; the pods
\* are listed after the StatefulSets.
readyPrimaries == primaries(seen) \cap ready(sts)
otherStorages == {read.storage[i] : i \in readyPrimaries} \ {read.asked.storage}

CheckSpec ==
  /\ pc = "primary" /\ stage = "check"
  /\ read' = [read EXCEPT !.primaryReady = readyPrimaries # {}]
  /\ \/ \E s \in otherStorages : updateKubegresSpec(s)
     \/ /\ otherStorages = {}
        /\ Checked(mem, IF HasSpecFatalError(read) THEN "save" ELSE pc)
        /\ UNCHANGED <<asked, budget>>
=============================================================================
