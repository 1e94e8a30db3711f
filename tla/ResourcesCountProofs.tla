-------------------------- MODULE ResourcesCountProofs --------------------------
(***************************************************************************)
(* Proofs about the reconciliation with the check of the spec, the base    *)
(* config map and the back-up, for any config maps, storages and back-ups, *)
(* any numbers of replicas and any disruptions: no instance is created     *)
(* without the base config map, replicas get the storage of the primary,   *)
(* and what was proved of the count of instances still holds.              *)
(***************************************************************************)
EXTENDS ResourcesCount, StatefulSetCountProofs, FiniteSetTheorems

Diffs == {{}}

(***************************************************************************)
(* The steps beside those of the count of instances.  The enforcer of the  *)
(* base config map replaces only its own operation; the check of the spec  *)
(* may have the status decoded from the answer to its update.              *)
(***************************************************************************)
ConfigOperation(op) == op = NoOperation \/ (op.id = BaseConfigCount /\ op.step \in Steps)

ConfigMem ==
  /\ mem' \in MemType(Diffs) /\ mem'.changed = TRUE
  /\ mem.active.id \in {"", BaseConfigCount}
  /\ mem'.active = mem'.blocking /\ ConfigOperation(mem'.blocking)

Beside ==
  /\ UNCHANGED <<spec, status, sts, pvcs, lastPrimary, seen>>
  /\ budget' = budget \/ \E kinds : Happens(kinds)
  /\ \/ UNCHANGED <<pc, mem, outdated>>
     \/ /\ UNCHANGED <<pc, mem>> /\ outdated' = (pc # "idle")
        /\ pc = "idle" \/ "editWhileReconciling" \in Disruptions
     \/ pc = "services" /\ pc' = "save" /\ UNCHANGED <<mem, outdated>>
     \/ /\ pc = "primary" /\ pc' \in {"primary", "save"} /\ UNCHANGED outdated
        /\ \/ mem' = mem
           \/ mem' = decodedStatus(mem) /\ pc' = "save" /\ stage = "check"
           \/ ConfigMem

CountStep == BeginsOrEnds \/ EnforcePrimaryDb \/ EnforceReplicaDb \/ Environment

\* An operation of these enforcers may carry no spec difference.
LEMMA DiffsFacts == {} \in Diffs
BY DEF Diffs

\* An operation of the base config map that is started, or removed again.
LEMMA ConfigOperationFacts ==
  ASSUME mem \in MemType(Diffs)
  PROVE  LET a == activateOperation(mem, "BaseConfigDeploying", 0, {})
             r == RemoveActiveOperation(a)
         IN /\ a \in MemType(Diffs) /\ a.changed = TRUE /\ a.active = a.blocking
            /\ a.blocking.id = BaseConfigCount /\ a.blocking.step \in Steps
            /\ r \in MemType(Diffs) /\ r.changed = TRUE
            /\ r.active = NoOperation /\ r.blocking = NoOperation
<1> DEFINE a == activateOperation(mem, "BaseConfigDeploying", 0, {})
           r == RemoveActiveOperation(a)
<1>1. "BaseConfigDeploying" \in Steps /\ OperationIdOf["BaseConfigDeploying"] = BaseConfigCount
  BY DEF Steps, OperationIdOf
<1>2. a.changed = TRUE
  BY ActivateChanges, Zenon
<1>3. /\ a \in MemType(Diffs) /\ a.active = a.blocking /\ a.blocking.id = BaseConfigCount
      /\ a.blocking.step \in Steps
  BY <1>1, DiffsFacts, ActivateFacts
<1> HIDE DEF a
<1>4. r \in MemType(Diffs) /\ r.changed = TRUE /\ r.active = NoOperation /\ r.blocking = NoOperation
  BY <1>3, DiffsFacts, RemoveFacts, Zenon DEF RemoveActiveOperation
<1> HIDE DEF r
<1> QED BY <1>2, <1>3, <1>4 DEF a, r

\* The operation of the enforcer of the base config map is not on the primary.
LEMMA ConfigMemFacts ==
  ASSUME ConfigMem
  PROVE  mem'.blocking.id # PrimaryDbCount /\ mem'.active.id # PrimaryDbCount /\ Sync(mem')
<1>1. NoOperation.id # PrimaryDbCount /\ BaseConfigCount # PrimaryDbCount
  BY DEF NoOperation, BaseConfigCount, PrimaryDbCount
<1> QED BY <1>1 DEF ConfigMem, ConfigOperation, Sync

\* Each outcome of the enforcer of the base config map.
LEMMA BaseConfigBeside ==
  ASSUME Typed(Diffs), EnforceBaseConfig PROVE Beside
<1>1. ASSUME NEW m, NEW next \in {pc, "save"}, BaseConfigEnforced(m, next), \E kinds : Happens(kinds),
             \/ m = mem
             \/ /\ mem.active.id \in {"", BaseConfigCount} /\ m \in MemType(Diffs) /\ m.changed = TRUE
                /\ m.active = m.blocking /\ ConfigOperation(m.blocking)
      PROVE  Beside
  BY <1>1 DEF EnforceBaseConfig, BaseConfigEnforced, kept, Beside, ConfigMem
<1>2. CASE deployBaseConfigMap
  <2> DEFINE a == activateOperation(mem, "BaseConfigDeploying", 0, {})
  <2>1. mem.active.id \in {"", BaseConfigCount}
    BY <1>2 DEF deployBaseConfigMap, deploysBaseConfig, IsActiveOperationIdDifferentOf, isThereActiveOperation
  <2>2. /\ BaseConfigEnforced(a, pc) \/ BaseConfigEnforced(RemoveActiveOperation(a), "save")
        /\ \E kinds : Happens(kinds)
    BY <1>2 DEF deployBaseConfigMap
  <2>3. /\ a \in MemType(Diffs) /\ a.changed = TRUE /\ a.active = a.blocking
        /\ a.blocking.id = BaseConfigCount /\ a.blocking.step \in Steps
        /\ RemoveActiveOperation(a) \in MemType(Diffs) /\ RemoveActiveOperation(a).changed = TRUE
        /\ RemoveActiveOperation(a).active = NoOperation /\ RemoveActiveOperation(a).blocking = NoOperation
    BY ConfigOperationFacts, Zenon DEF Typed
  <2> HIDE DEF a
  <2> QED BY <1>1, <2>1, <2>2, <2>3 DEF ConfigOperation
<1>3. CASE BaseConfigUnchanged
  <2>1. PICK m \in {mem, RemoveActiveOperation(mem)} :
          BaseConfigEnforced(m, pc) /\ (m = mem \/ mem.active.id = BaseConfigCount)
    BY <1>3 DEF BaseConfigUnchanged, hasBaseConfigAttemptTimedOut, HasActiveOperationIdTimedOut
  <2>2. LET r == RemoveActiveOperation(mem)
        IN r \in MemType(Diffs) /\ r.changed = TRUE /\ r.active = NoOperation /\ r.blocking = NoOperation
    BY DiffsFacts, RemoveFacts, Zenon DEF RemoveActiveOperation, Typed
  <2>3. Happens({})
    BY <1>3 DEF BaseConfigUnchanged
  <2> QED BY <1>1, <2>1, <2>2, <2>3 DEF ConfigOperation
<1> QED BY <1>2, <1>3 DEF EnforceBaseConfig

\* Each outcome of the check of the spec.
LEMMA CheckBeside == CheckSpec => Beside
<1> SUFFICES ASSUME CheckSpec PROVE Beside
  OBVIOUS
<1>1. PICK m, next : Checked(m, next)
  BY DEF CheckSpec, updateKubegresSpec
<1>2. /\ pc = "primary" /\ stage = "check"
      /\ mem' = mem \/ (mem' = decodedStatus(mem) /\ pc' = "save")
      /\ pc' \in {"primary", "save"}
      /\ budget' = budget \/ \E kinds : Happens(kinds)
  BY DEF CheckSpec, updateKubegresSpec, Checked
<1> QED BY <1>1, <1>2 DEF Checked, Beside

\* What users and Kubernetes do to the resources.
LEMMA ResourcesChangeBeside == ResourcesChange => Beside
<1>1. ASSUME NEW kind, ResourceChanges(kind), outdated' = outdated PROVE Beside
  BY <1>1 DEF ResourceChanges, reconcileVars, Beside
<1>2. ASSUME NEW kind, NEW edited, UserAsks(kind, edited) PROVE Beside
  BY <1>2 DEF UserAsks, ResourceChanges, reconcileVars, Beside
<1> QED BY <1>1, <1>2, Zenon DEF ResourcesChange, SharedResourceChanges, CronJobDeleted

\* No other step is there than those of the count of instances and those beside.
LEMMA ResourcesNextCases ==
  ASSUME Typed(Diffs), [NextResources]_resVars PROVE CountStep \/ Beside
<1>1. CASE ReconcileResources
  <2>1. CASE LoadResourcesStates
    BY <2>1 DEF LoadResourcesStates, CountStep, BeginsOrEnds
  <2>2. CASE LoadResourcesFails
    BY <2>2 DEF LoadResourcesFails, resVars, CountStep, BeginsOrEnds
  <2>3. CASE CheckSpec \/ EnforceBaseConfig
    BY <2>3, CheckBeside, BaseConfigBeside, SMTT(30)
  <2>4. CASE EnforceBackUp
    <3>1. PICK job, failures : BackUpEnforced(job, failures)
      BY <2>4 DEF EnforceBackUp
    <3> QED BY <2>4, <3>1 DEF EnforceBackUp, BackUpEnforced, kept, Beside
  <2>5. CASE EnforcePrimaryDb \/ EnforceReplicaDb \/ SaveStatus \/ SaveRefused
    BY <2>5 DEF CountStep, BeginsOrEnds
  <2> QED BY <1>1, <2>1, <2>2, <2>3, <2>4, <2>5 DEF ReconcileResources
<1>2. CASE CrashResources
  BY <1>2 DEF CrashResources, CountStep, BeginsOrEnds
<1>3. CASE ClusterStep \/ TimePasses
  BY <1>3 DEF ClusterStep, TimePasses, CountStep, Environment
<1>4. CASE ResourcesChange
  BY <1>4, ResourcesChangeBeside
<1>5. CASE UNCHANGED resVars
  BY <1>5 DEF resVars, CountStep, BeginsOrEnds
<1> QED BY <1>1, <1>2, <1>3, <1>4, <1>5 DEF NextResources

-----------------------------------------------------------------------------
(***************************************************************************)
(* The types.                                                              *)
(***************************************************************************)
\* The status decoded from the answer to an update is typed.
LEMMA DecodedStatusFacts ==
  ASSUME Typed(Diffs)
  PROVE  /\ decodedStatus(mem) \in MemType(Diffs)
         /\ decodedStatus(mem).blocking = decodedOperation(status.blocking, mem.blocking)
         /\ decodedStatus(mem).active = mem.active /\ decodedStatus(mem).changed = mem.changed
<1> DEFINE b == decodedOperation(status.blocking, mem.blocking)
           p == decodedOperation(status.previousBlocking, mem.previousBlocking)
           l == orElse(status.last, mem.last, 0)
           e == orElse(status.enforced, mem.enforced, 0)
<1>1. b \in Operation(Diffs) /\ p \in Operation(Diffs)
  BY DiffsFacts, DecodedOperationType DEF Typed, StatusType, MemType
<1>2. l \in Nat /\ e \in Int
  BY DEF orElse, Typed, StatusType, MemType
<1>3. decodedStatus(mem) = [mem EXCEPT !.blocking = b, !.previousBlocking = p, !.last = l, !.enforced = e]
  BY DEF decodedStatus
<1> HIDE DEF b, p, l, e
<1>4. LET d == [mem EXCEPT !.blocking = b, !.previousBlocking = p, !.last = l, !.enforced = e]
      IN d \in MemType(Diffs) /\ d.blocking = b /\ d.active = mem.active /\ d.changed = mem.changed
  BY <1>1, <1>2, Zenon DEF Typed, MemType
<1> QED BY <1>3, <1>4 DEF b

\* A step beside keeps the types of the count of instances.
LEMMA BesideTyped == Typed(Diffs) /\ Beside => Typed(Diffs)'
<1> SUFFICES ASSUME Typed(Diffs), Beside PROVE Typed(Diffs)'
  OBVIOUS
<1>1. budget' \in 0..MaxDisruptions
  BY HappensType DEF Beside, Typed
<1>2. outdated' \in BOOLEAN
  BY Zenon DEF Beside, Typed
<1>3. mem' \in MemType(Diffs)
  BY DecodedStatusFacts DEF Beside, ConfigMem, Typed
<1> QED BY <1>1, <1>2, <1>3 DEF Beside, Typed

\* So does every step.
LEMMA NextResourcesCount == Typed(Diffs) /\ [NextResources]_resVars => Typed(Diffs)'
BY ResourcesNextCases, DiffsFacts, BeginsOrEndsTyped, PrimaryTyped, ReplicaTyped, EnvironmentTyped, BesideTyped
   DEF CountStep

(***************************************************************************)
(* The type of the resources: what ResourcesTypeOK says of them, and that  *)
(* a reconciliation has read the storage of every instance it has listed.  *)
(***************************************************************************)
Asked(defined) ==
  [ config: defined \cup {BaseConfig} \cup CustomConfigs, storage: defined \cup Storages, backup: BackUps ]

Owned == [maps: SUBSET ({BaseConfig} \cup CustomConfigs), classes: SUBSET Storages, claims: SUBSET BackUpPvcs]

ResourcesTyped ==
  /\ asked \in Asked({0}) /\ owned \in Owned
  /\ storage \in [DOMAIN sts -> Storages]
  /\ stage \in {"check", "config", "instances"}

ReadTyped == pc # "idle" =>
  /\ DOMAIN read = {"asked", "owned", "cronJob", "storage", "primaryReady"}
  /\ read.asked \in Asked({}) /\ read.storage \in [DOMAIN seen -> Storages]

\* Undefined values get a default; those that are defined keep their value.
LEMMA DefaultsFacts ==
  ASSUME NEW a \in Asked({0}) PROVE SetDefaultForUndefinedSpecValues(a) \in Asked({}) \cap Asked({0})
<1> DEFINE c == IF a.config = 0 THEN BaseConfig ELSE a.config
           s == IF a.storage = 0 THEN DefaultStorage ELSE a.storage
<1>1. c \in {BaseConfig} \cup CustomConfigs /\ s \in Storages
  BY ResourcesAssumption DEF Asked
<1>2. SetDefaultForUndefinedSpecValues(a) = [a EXCEPT !.config = c, !.storage = s]
  BY DEF SetDefaultForUndefinedSpecValues
<1> HIDE DEF c, s
<1>3. [a EXCEPT !.config = c, !.storage = s] \in Asked({}) \cap Asked({0})
  BY <1>1, Zenon DEF Asked
<1> QED BY <1>2, <1>3

\* What is created gets a storage that was read.
LEMMA StorageFollowsTyped ==
  ASSUME ResourcesTyped, ReadTyped, StorageFollows, DOMAIN sts' \subseteq DOMAIN sts \/ pc # "idle"
  PROVE  storage' \in [DOMAIN sts' -> Storages]
<1>1. DOMAIN sts' \subseteq DOMAIN sts \/ read.asked.storage \in Storages
  BY DEF ReadTyped, Asked
<1> QED BY <1>1 DEF StorageFollows, ResourcesTyped

\* What users and Kubernetes leave is typed.
LEMMA ResourcesChangeTyped ==
  ASSUME ResourcesTyped, ResourcesChange PROVE asked' \in Asked({0}) /\ owned' \in Owned
<1>1. ASSUME NEW S, NEW x \in S, NEW T \in SUBSET S PROVE toggled(T, x) \in SUBSET S
  BY DEF toggled
<1>2. ASSUME NEW kind, NEW edited \in Asked({0}), UserAsks(kind, edited)
      PROVE  asked' \in Asked({0}) /\ owned' \in Owned
  BY <1>2 DEF UserAsks, ResourcesTyped
<1>3. CASE SharedResourceChanges
  <2>1. owned.maps \in SUBSET ({BaseConfig} \cup CustomConfigs) /\ owned.classes \in SUBSET Storages
        /\ owned.claims \in SUBSET BackUpPvcs
    BY DEF ResourcesTyped, Owned
  <2>2. ASSUME NEW x \in {BaseConfig} \cup CustomConfigs PROVE [owned EXCEPT !.maps = toggled(@, x)] \in Owned
    <3>1. toggled(owned.maps, x) \in SUBSET ({BaseConfig} \cup CustomConfigs)
      BY <1>1, <2>1, Zenon
    <3> QED BY <3>1 DEF ResourcesTyped, Owned
  <2>3. ASSUME NEW x \in Storages PROVE [owned EXCEPT !.classes = toggled(@, x)] \in Owned
    <3>1. toggled(owned.classes, x) \in SUBSET Storages
      BY <1>1, <2>1
    <3> QED BY <3>1 DEF ResourcesTyped, Owned
  <2>4. ASSUME NEW x \in BackUpPvcs PROVE [owned EXCEPT !.claims = toggled(@, x)] \in Owned
    <3>1. toggled(owned.claims, x) \in SUBSET BackUpPvcs
      BY <1>1, <2>1
    <3> QED BY <3>1 DEF ResourcesTyped, Owned
  <2> QED BY <1>3, <2>2, <2>3, <2>4 DEF SharedResourceChanges, ResourcesTyped
<1>4. CASE CronJobDeleted
  BY <1>4 DEF CronJobDeleted, ResourcesTyped
<1>5. /\ \A c \in {0, BaseConfig} \cup CustomConfigs : [asked EXCEPT !.config = c] \in Asked({0})
      /\ \A s \in {0} \cup Storages : [asked EXCEPT !.storage = s] \in Asked({0})
      /\ \A b \in BackUps : [asked EXCEPT !.backup = b] \in Asked({0})
  BY DEF ResourcesTyped, Asked
<1> QED BY <1>2, <1>3, <1>4, <1>5, Zenon DEF ResourcesChange

\* What a reconciliation has read stays what it has read until it ends, but for the
\* pod of the primary, which the check of the spec looks at.
ReadKept ==
  \/ pc' = "idle"
  \/ /\ pc # "idle" /\ seen' = seen /\ DOMAIN read' = DOMAIN read
     /\ read'.asked = read.asked /\ read'.owned = read.owned /\ read'.storage = read.storage
     /\ read'.primaryReady = read.primaryReady \/ CheckSpec

\* No step but the loading changes it.
LEMMA ResourcesReadOnce ==
  ASSUME Typed(Diffs), ReadTyped, [NextResources]_resVars PROVE LoadResourcesStates \/ ReadKept
<1>1. ASSUME pc' = "idle" \/ (pc # "idle" /\ UNCHANGED <<seen, read>>) PROVE ReadKept
  BY <1>1 DEF ReadKept
<1>2. ASSUME UNCHANGED <<pc, seen, read>> PROVE ReadKept
  BY <1>2 DEF ReadKept
<1>3. CASE ReconcileResources
  <2>1. CASE LoadResourcesStates
    BY <2>1
  <2>2. CASE LoadResourcesFails
    BY <1>2, <2>2 DEF LoadResourcesFails, resVars, clusterVars, resourceVars
  <2>3. CASE CheckSpec
    <3>1. PICK m, next : Checked(m, next)
      BY <2>3 DEF CheckSpec, updateKubegresSpec
    <3>2. pc # "idle" /\ seen' = seen
      BY <2>3, <3>1 DEF CheckSpec, Checked
    <3>3. PICK x : read' = [read EXCEPT !.primaryReady = x]
      BY <2>3, Zenon DEF CheckSpec
    <3>4. /\ DOMAIN read' = DOMAIN read
          /\ read'.asked = read.asked /\ read'.owned = read.owned /\ read'.storage = read.storage
      BY <3>2, <3>3 DEF ReadTyped
    <3> QED BY <2>3, <3>2, <3>4 DEF ReadKept
  <2>4. CASE EnforceBaseConfig
    <3>1. PICK m, next : BaseConfigEnforced(m, next)
      BY <2>4 DEF EnforceBaseConfig, deployBaseConfigMap, BaseConfigUnchanged
    <3> QED BY <1>1, <2>4, <3>1 DEF EnforceBaseConfig, BaseConfigEnforced, kept
  <2>5. CASE EnforcePrimaryDb /\ resourcesKept
    <3>1. pc # "idle"
      BY <2>5, PrimaryOperation, DiffsFacts, SMTT(30)
    <3>2. seen' = seen
      BY <2>5, Zenon DEF EnforcePrimaryDb, PrimaryUnchanged, FailOverRefused, waitBeforePromotingReplicaToPrimary,
             promoteReplicaToPrimary, deployNewPrimaryStatefulSet, PrimaryEnforced
    <3> QED BY <1>1, <2>5, <3>1, <3>2 DEF resourcesKept
  <2>6. CASE EnforceReplicaDb /\ resourcesKept
    <3>1. pc # "idle"
      BY <2>6, ReplicaOperation, DiffsFacts, SMTT(30)
    <3>2. seen' = seen
      BY <2>6, Zenon DEF EnforceReplicaDb, deployReplicaStatefulSet, undeployReplicaStatefulSets,
             ReplicasUnchanged, ReplicasSkipped, ReplicasEnforced
    <3> QED BY <1>1, <2>6, <3>1, <3>2 DEF resourcesKept
  <2>7. CASE EnforceBackUp
    <3>1. PICK job, failures : BackUpEnforced(job, failures)
      BY <2>7 DEF EnforceBackUp
    <3> QED BY <1>1, <2>7, <3>1 DEF EnforceBackUp, BackUpEnforced, kept
  <2>8. CASE SaveStatus \/ SaveRefused
    BY <1>1, <2>8 DEF SaveStatus, SaveRefused, EndReconciliation
  <2> QED BY <1>3, <2>1, <2>2, <2>3, <2>4, <2>5, <2>6, <2>7, <2>8 DEF ReconcileResources
<1>4. CASE CrashResources
  BY <1>1, <1>4 DEF CrashResources, Crash, EndReconciliation
<1>5. CASE ClusterStep \/ TimePasses
  BY <1>2, <1>5, EnvironmentPc DEF ClusterStep, TimePasses, Environment, resourceVars
<1>6. CASE ResourcesChange
  <2>1. ASSUME NEW kind, ResourceChanges(kind) PROVE UNCHANGED <<pc, seen, read>>
    BY <2>1 DEF ResourceChanges, reconcileVars
  <2> QED BY <1>2, <1>6, <2>1 DEF ResourcesChange, UserAsks, SharedResourceChanges, CronJobDeleted
<1>7. CASE UNCHANGED resVars
  BY <1>2, <1>7 DEF resVars, clusterVars, resourceVars
<1> QED BY <1>3, <1>4, <1>5, <1>6, <1>7, SMTT(30) DEF NextResources

\* So it has the type of what was there to be read.
LEMMA NextReadTyped ==
  ASSUME Typed(Diffs), ResourcesTyped, ReadTyped, [NextResources]_resVars PROVE ReadTyped'
<1>1. CASE LoadResourcesStates
  <2>1. read' = [ asked |-> SetDefaultForUndefinedSpecValues(asked), owned |-> owned, cronJob |-> cronJob,
                  storage |-> storage, primaryReady |-> FALSE ] /\ seen' = sts
    BY <1>1 DEF LoadResourcesStates, LoadWith
  <2>2. SetDefaultForUndefinedSpecValues(asked) \in Asked({})
    BY DefaultsFacts DEF ResourcesTyped
  <2>3. DOMAIN read' = {"asked", "owned", "cronJob", "storage", "primaryReady"}
    BY <2>1
  <2> QED BY <2>1, <2>2, <2>3 DEF ResourcesTyped, ReadTyped
<1>2. CASE ReadKept
  BY <1>2 DEF ReadKept, ReadTyped
<1> QED BY <1>1, <1>2, ResourcesReadOnce

\* Every step keeps the types of the resources.
LEMMA NextResourcesTyped ==
  ASSUME Typed(Diffs), ResourcesTyped, ReadTyped, [NextResources]_resVars PROVE ResourcesTyped'
<1>0. asked \in Asked({0}) /\ owned \in Owned /\ stage \in {"check", "config", "instances"}
  BY DEF ResourcesTyped
<1>1. ASSUME StorageFollows, DOMAIN sts' \subseteq DOMAIN sts \/ pc # "idle",
             asked' = asked, owned' = owned, stage' \in {stage, "check"}
      PROVE  ResourcesTyped'
  BY <1>0, <1>1, StorageFollowsTyped DEF ResourcesTyped
<1>2. ASSUME UNCHANGED <<sts, storage>>, asked' \in Asked({0}), owned' \in Owned,
             stage' \in {stage, "check", "config", "instances"}
      PROVE  ResourcesTyped'
  BY <1>0, <1>2 DEF ResourcesTyped
<1>3. CASE ReconcileResources
  <2>1. CASE LoadResourcesStates
    <3>1. asked' = SetDefaultForUndefinedSpecValues(asked)
      BY <2>1 DEF LoadResourcesStates
    <3>2. asked' \in Asked({0})
      BY <1>0, <3>1, DefaultsFacts, SMTT(30)
    <3> QED BY <1>0, <1>2, <2>1, <3>2 DEF LoadResourcesStates, LoadWith
  <2>2. CASE LoadResourcesFails
    BY <1>0, <1>2, <2>2 DEF LoadResourcesFails, resVars, clusterVars, resourceVars
  <2>3. CASE CheckSpec
    <3>1. PICK m, next : Checked(m, next)
      BY <2>3 DEF CheckSpec, updateKubegresSpec
    <3>2. asked' = asked \/ \E s \in otherStorages : asked' = [asked EXCEPT !.storage = s]
      BY <2>3 DEF CheckSpec, updateKubegresSpec
    <3>3. otherStorages \subseteq Storages
      <4>1. read.storage \in [DOMAIN seen -> Storages] /\ readyPrimaries \subseteq DOMAIN seen
        BY <2>3 DEF CheckSpec, ReadTyped, readyPrimaries, primaries
      <4> QED BY <4>1 DEF otherStorages
    <3>4. asked' \in Asked({0})
      BY <1>0, <3>2, <3>3 DEF Asked
    <3> QED BY <1>0, <1>2, <3>1, <3>4 DEF Checked
  <2>4. CASE EnforceBaseConfig
    <3>1. PICK m, next : BaseConfigEnforced(m, next)
      BY <2>4 DEF EnforceBaseConfig, deployBaseConfigMap, BaseConfigUnchanged
    <3>2. owned' = owned \/ owned' = [owned EXCEPT !.maps = @ \cup {BaseConfig}]
      BY <2>4 DEF EnforceBaseConfig, deployBaseConfigMap, BaseConfigUnchanged
    <3>3. owned' \in Owned
      BY <1>0, <3>2 DEF Owned
    <3> QED BY <1>0, <1>2, <3>1, <3>3, SMTT(30) DEF BaseConfigEnforced, kept
  <2>5. CASE (EnforcePrimaryDb \/ EnforceReplicaDb) /\ StorageFollows /\ resourcesKept
    <3>1. pc # "idle"
      BY <2>5, PrimaryOperation, ReplicaOperation, DiffsFacts
    <3> QED BY <1>1, <2>5, <3>1 DEF resourcesKept
  <2>6. CASE EnforceBackUp
    <3>1. PICK job, failures : BackUpEnforced(job, failures)
      BY <2>6 DEF EnforceBackUp
    <3> QED BY <1>0, <1>2, <3>1 DEF BackUpEnforced, kept
  <2>7. CASE pc = "save" /\ StorageFollows /\ resourcesKept
    BY <1>1, <2>7 DEF resourcesKept
  <2> QED BY <1>3, <2>1, <2>2, <2>3, <2>4, <2>5, <2>6, <2>7 DEF ReconcileResources
<1>4. CASE CrashResources
  BY <1>1, <1>4 DEF CrashResources, Crash, resourcesKept
<1>5. CASE ClusterStep
  BY <1>1, <1>5, EnvironmentCreatesNone DEF ClusterStep, Environment
<1>6. CASE TimePasses
  BY <1>0, <1>2, <1>6 DEF TimePasses, Tick, resourceVars
<1>7. CASE ResourcesChange
  <2>1. ASSUME NEW kind, ResourceChanges(kind) PROVE UNCHANGED <<sts, storage, stage>>
    BY <2>1 DEF ResourceChanges
  <2>2. UNCHANGED <<sts, storage, stage>>
    BY <1>7, <2>1 DEF ResourcesChange, UserAsks, SharedResourceChanges, CronJobDeleted
  <2> QED BY <1>2, <1>7, <2>2, ResourcesChangeTyped
<1>8. CASE UNCHANGED resVars
  BY <1>0, <1>2, <1>8 DEF resVars, clusterVars, resourceVars
<1> QED BY <1>3, <1>4, <1>5, <1>6, <1>7, <1>8 DEF NextResources

ResourcesTypedInv == Typed(Diffs) /\ ResourcesTyped /\ ReadTyped

\* The type invariant holds when the Kubegres resource is created.
LEMMA InitResourcesTyped == Init /\ ResourcesInit => ResourcesTypedInv
<1> SUFFICES ASSUME Init, ResourcesInit PROVE ResourcesTypedInv
  OBVIOUS
<1>1. Typed(Diffs) /\ ReadTyped
  BY InitTyped, DiffsFacts, Zenon DEF Init, ReadTyped
<1>2. asked \in Asked({0}) /\ owned \in Owned
  BY DEF ResourcesInit, Asked, Owned
<1>3. DOMAIN sts = {} /\ storage = <<>> /\ stage = "check"
  BY DEF Init, NoStatefulSets, ResourcesInit
<1>4. <<>> \in [{} -> Storages]
  OBVIOUS
<1> QED BY <1>1, <1>2, <1>3, <1>4 DEF ResourcesTypedInv, ResourcesTyped

\* So it always holds.
LEMMA SpecResourcesTyped == SpecResources => []ResourcesTypedInv
<1>1. ResourcesTypedInv /\ [NextResources]_resVars => ResourcesTypedInv'
  BY NextResourcesCount, NextResourcesTyped, NextReadTyped DEF ResourcesTypedInv
<1> QED BY <1>1, InitResourcesTyped, PTL DEF SpecResources

\* The resources stay well formed, and a reconciliation never works on an undefined
\* value: each field it has read was given a default before
\* (SetDefaultForUndefinedSpecValues), and what the check of the spec writes back is
\* the storage of an instance (updateKubegresSpec).
THEOREM ResourcesTypeCorrect == SpecResources => []ResourcesTypeOK
<1>1. ResourcesTypedInv => ResourcesTypeOK
  BY DEF ResourcesTypedInv, ResourcesTyped, ReadTyped, ResourcesTypeOK, Asked, Owned
<1> QED BY <1>1, SpecResourcesTyped, PTL

-----------------------------------------------------------------------------
(***************************************************************************)
(* The inductive invariant for InstancesWaitForBaseConfig.  A              *)
(* reconciliation that enforces the instances has found the base config    *)
(* map, has found an operation in the status, or is deploying the config   *)
(* map: the operation in memory then keeps the enforcers of the instances  *)
(* from doing anything.  Before, it holds no operation but the stored one, *)
(* whose time is over.                                                     *)
(***************************************************************************)
BaseInv ==
  /\ pc = "replica" => stage = "instances"
  /\ pc = "primary" /\ stage # "instances" =>
       /\ mem.active.id \in {"", status.blocking.id} /\ mem.blocking.id \in {"", status.blocking.id}
       /\ mem.blocking.left = 0
  /\ pc \in {"primary", "replica"} /\ stage = "instances" =>
       isBaseConfigDeployed(read.owned) \/ status.blocking.id # "" \/ mem.active.id = BaseConfigCount

\* While the base config map is being deployed, the enforcers of the instances
\* create nothing and keep the operation.
LEMMA DeployingDisables ==
  ASSUME Typed(Diffs), EnforcePrimaryDb \/ EnforceReplicaDb, mem.active.id = BaseConfigCount
  PROVE  sts' = sts /\ (EnforcePrimaryDb => mem'.active = mem.active)
<1>1. ~EnforcesPrimary /\ ~EnforcesReplicas
  BY DEF EnforcesPrimary, EnforcesReplicas, IsActiveOperationIdDifferentOf, isThereActiveOperation,
         BaseConfigCount, PrimaryDbCount, ReplicaDbCount
<1>2. initialised.active = mem.active
  BY ReEnabledFacts, DiffsFacts DEF Typed
<1>3. CASE EnforcePrimaryDb
  <2>1. PrimaryUnchanged
    BY <1>1, <1>3, Zenon DEF EnforcePrimaryDb, FailOverRefused, waitBeforePromotingReplicaToPrimary,
       promoteReplicaToPrimary, deployNewPrimaryStatefulSet, failsOver, deploysPrimary
  <2> QED BY <1>1, <1>2, <2>1, SMTT(30) DEF PrimaryUnchanged, PrimaryEnforced
<1>4. CASE EnforceReplicaDb /\ ~EnforcePrimaryDb
  <2>1. ReplicasSkipped
    BY <1>1, <1>4 DEF EnforceReplicaDb, deployReplicaStatefulSet, undeployReplicaStatefulSets, ReplicasUnchanged
  <2> QED BY <1>4, <2>1, SMTT(30) DEF ReplicasSkipped
<1> QED BY <1>3, <1>4

\* Loading, checking and enforcing the base config map establish the invariant.
LEMMA BeforeInstancesBase ==
  ASSUME Typed(Diffs), ReadTyped, BaseInv, WaitInv, LoadResourcesStates \/ CheckSpec \/ EnforceBaseConfig
  PROVE  BaseInv'
<1>1. CASE LoadResourcesStates
  <2>1. PICK reached : LoadWith(reached) /\ stage' = "check"
    BY <1>1 DEF LoadResourcesStates
  <2>2. /\ mem' = LoadActiveOperation(fetched, reached) /\ status' = status
        /\ pc' \in {"primary", "save"} /\ (pc' = "primary" => ~(mem'.active.left > 0))
    BY <2>1 DEF LoadWith, mustWaitForTimeOut
  <2>3. fetched \in MemType(Diffs) /\ fetched.blocking = status.blocking
    BY FetchedFacts, DiffsFacts, SMTT(30)
  <2>4. mem'.active.id \in {"", status.blocking.id} /\ mem'.active.id = mem'.blocking.id
    <3>1. LET l == LoadActiveOperation(fetched, reached) IN Sync(l) /\ l.active.id \in {"", fetched.blocking.id}
      BY <2>3, LoadFacts, DiffsFacts, Zenon
    <3> QED BY <2>2, <2>3, <3>1 DEF Sync
  <2>5. mem'.blocking.left = mem'.active.left /\ mem'.active.left \in Nat
    <3>1. mem' \in MemType(Diffs)
      BY <2>2, <2>3, LoadFacts, DiffsFacts
    <3>2. mem'.active.left \in Nat
      BY <3>1 DEF MemType, Operation
    <3>3. Timed(fetched.blocking)
      BY <2>3 DEF WaitInv
    <3>4. LET l == LoadActiveOperation(fetched, reached) IN l.blocking.left = l.active.left
      BY <2>3, <3>3, LoadWaits, DiffsFacts, SMTT(30)
    <3> QED BY <2>2, <3>2, <3>4, SMTT(30)
  <2>6. pc' = "primary" => mem'.blocking.left = 0
    BY <2>2, <2>5
  <2>7. stage' = "check" /\ pc' \in {"primary", "save"} /\ status' = status
    BY <2>1, <2>2
  <2> QED BY <2>4, <2>6, <2>7 DEF BaseInv
<1>2. CASE CheckSpec
  <2>1. PICK m, next : Checked(m, next)
    BY <1>2 DEF CheckSpec, updateKubegresSpec
  <2>2. pc = "primary" /\ stage = "check" /\ stage' = "config" /\ status' = status
    BY <1>2, <2>1, SMTT(30) DEF CheckSpec, Checked
  <2>3. pc' = "save" \/ (pc' = "primary" /\ mem' = mem)
    BY <1>2 DEF CheckSpec, updateKubegresSpec, Checked
  <2> QED BY <2>2, <2>3 DEF BaseInv
<1>3. CASE EnforceBaseConfig
  <2>1. PICK m, next : BaseConfigEnforced(m, next)
    BY <1>3, SMTT(30) DEF EnforceBaseConfig, deployBaseConfigMap, BaseConfigUnchanged
  <2>2. /\ pc = "primary" /\ stage = "config" /\ stage' = "instances" /\ UNCHANGED <<status, read>>
        /\ pc' \in {"primary", "save"}
    BY <1>3, <2>1 DEF EnforceBaseConfig, deployBaseConfigMap, BaseConfigUnchanged, BaseConfigEnforced, kept
  <2>3. CASE deployBaseConfigMap
    <3>1. activateOperation(mem, "BaseConfigDeploying", 0, {}).active.id = BaseConfigCount
      BY ConfigOperationFacts DEF Typed
    <3>2. pc' = "save" \/ mem' = activateOperation(mem, "BaseConfigDeploying", 0, {})
      BY <2>3 DEF deployBaseConfigMap, BaseConfigEnforced
    <3> QED BY <2>2, <3>1, <3>2 DEF BaseInv
  <2>4. CASE BaseConfigUnchanged
    <3>1. isBaseConfigDeployed(read.owned) \/ mem.active.id # ""
      BY <2>4 DEF BaseConfigUnchanged, deploysBaseConfig, IsActiveOperationIdDifferentOf,
         isThereActiveOperation, hasBaseConfigAttemptTimedOut, HasActiveOperationIdTimedOut, BaseConfigCount
    <3>2. isBaseConfigDeployed(read.owned) \/ status.blocking.id # ""
      BY <2>2, <3>1 DEF BaseInv
    <3>3. isBaseConfigDeployed(read.owned)' = isBaseConfigDeployed(read.owned)
      BY <2>2 DEF isBaseConfigDeployed
    <3> QED BY <2>2, <3>2, <3>3 DEF BaseInv
  <2> QED BY <1>3, <2>3, <2>4 DEF EnforceBaseConfig
<1> QED BY <1>1, <1>2, <1>3, SMTT(30)

\* Every other step keeps it.
LEMMA NextBase ==
  ASSUME Typed(Diffs), ReadTyped, BaseInv, WaitInv, [NextResources]_resVars PROVE BaseInv'
<1>1. ASSUME UNCHANGED <<pc, stage, read>>, mem'.active.id = mem.active.id, mem'.blocking.id = mem.blocking.id,
             mem.blocking.left = 0 => mem'.blocking.left = 0, status'.blocking.id = status.blocking.id
      PROVE  BaseInv'
  BY <1>1 DEF BaseInv, isBaseConfigDeployed
<1>2. ASSUME pc' \notin {"primary", "replica"} PROVE BaseInv'
  BY <1>2 DEF BaseInv
<1>3. CASE ReconcileResources
  <2>1. CASE LoadResourcesStates \/ CheckSpec \/ EnforceBaseConfig
    BY <2>1, BeforeInstancesBase, SMTT(30)
  <2>2. CASE LoadResourcesFails
    BY <1>1, <2>2 DEF LoadResourcesFails, resVars, clusterVars, resourceVars
  <2>3. CASE stage = "instances" /\ EnforcePrimaryDb /\ resourcesKept
    <3>1. pc = "primary" /\ pc' \in {"replica", "save"} /\ UNCHANGED status
      BY <2>3, PrimaryOperation, DiffsFacts
    <3>2. stage' = "instances" /\ read' = read
      BY <2>3, <3>1 DEF resourcesKept
    <3>3. mem.active.id = BaseConfigCount => mem'.active = mem.active
      BY <2>3, DeployingDisables
    <3> QED BY <2>3, <3>1, <3>2, <3>3 DEF BaseInv, isBaseConfigDeployed
  <2>4. CASE EnforceReplicaDb
    BY <1>2, <2>4, ReplicaOperation, DiffsFacts
  <2>5. CASE EnforceBackUp
    <3>1. PICK job, failures : BackUpEnforced(job, failures)
      BY <2>5 DEF EnforceBackUp
    <3> QED BY <1>2, <3>1 DEF BackUpEnforced
  <2>6. CASE SaveStatus \/ SaveRefused
    BY <1>2, <2>6 DEF SaveStatus, SaveRefused, EndReconciliation
  <2> QED BY <1>3, <2>1, <2>2, <2>3, <2>4, <2>5, <2>6 DEF ReconcileResources
<1>4. CASE CrashResources
  BY <1>2, <1>4 DEF CrashResources, Crash, EndReconciliation
<1>5. CASE ClusterStep
  <2>1. UNCHANGED <<pc, status, mem>>
    BY <1>5, Zenon DEF ClusterStep, ClusterChanges, PodProgress, PodStarts, PodBecomesReady, PodFails, PodLost, SetPod,
       StatefulSetDeleted, PvcDeleted, UserChangesSpec, UserEdits, reconcileVars
  <2> QED BY <1>1, <1>5, <2>1, SMTT(30) DEF ClusterStep
<1>6. CASE TimePasses
  <2>1. status.blocking \in Operation(Diffs) /\ mem.blocking \in Operation(Diffs) /\ mem.active \in Operation(Diffs)
    BY DEF Typed, StatusType, MemType
  <2>2. /\ status'.blocking = Elapse(status.blocking) /\ pc' = pc
        /\ mem'.blocking = Elapse(mem.blocking) /\ mem'.active = Elapse(mem.active)
    BY <1>6 DEF TimePasses, Tick, Typed, StatusType, MemType
  <2> QED BY <1>1, <1>6, <2>1, <2>2, ElapseFacts, SMTT(30) DEF TimePasses, resourceVars
<1>7. CASE ResourcesChange
  <2>1. ASSUME NEW kind, ResourceChanges(kind) PROVE UNCHANGED <<pc, stage, read, mem, status>>
    BY <2>1 DEF ResourceChanges, reconcileVars
  <2> QED BY <1>1, <1>7, <2>1, SMTT(30) DEF ResourcesChange, UserAsks, SharedResourceChanges, CronJobDeleted
<1>8. CASE UNCHANGED resVars
  BY <1>1, <1>8 DEF resVars, clusterVars, resourceVars
<1> QED BY <1>3, <1>4, <1>5, <1>6, <1>7, <1>8, SMTT(30) DEF NextResources

\* Only the two enforcers of the instances create one, the primary enforcer after the
\* base config map was enforced.
LEMMA ResourcesCreation ==
  ASSUME Typed(Diffs), [NextResources]_resVars, NEW i \in DOMAIN sts' \ DOMAIN sts
  PROVE  \/ EnforcePrimaryDb /\ stage = "instances"
         \/ EnforceReplicaDb /\ StorageFollows
<1>1. ~Environment /\ ~BeginsOrEnds /\ ~Beside
  BY EnvironmentCreatesNone, BeginsOrEndsKeeps DEF Beside
<1>2. CountStep /\ ~UNCHANGED resVars /\ ~Crash /\ ~ClusterStep /\ ~TimePasses
  BY <1>1, ResourcesNextCases, SMTT(30) DEF resVars, BeginsOrEnds, ClusterStep, TimePasses, Environment
<1>3. ~ResourcesChange /\ ~LoadResourcesStates /\ ~LoadResourcesFails /\ ~SaveStatus /\ ~SaveRefused
  BY <1>1, <1>2, ResourcesChangeBeside, SMTT(30) DEF LoadResourcesStates, LoadResourcesFails, BeginsOrEnds
<1>4. ~CheckSpec /\ ~EnforceBaseConfig /\ ~EnforceBackUp
  BY <1>1, CheckBeside, BaseConfigBeside DEF EnforceBackUp, BackUpEnforced, kept
<1> QED BY <1>2, <1>3, <1>4 DEF NextResources, ReconcileResources, CrashResources

\* A step beside keeps what the count of instances relies on about the wait: the
\* answer to the update of the spec is decoded into an operation without time left.
LEMMA BesideWait ==
  ASSUME Typed(Diffs), BaseInv, WaitInv, Beside PROVE WaitInv'
<1>1. CASE UNCHANGED <<mem, status>> /\ (pc' = pc \/ pc' = "save")
  BY <1>1, ZenonT(30) DEF WaitInv, isWaitingBeforeStartingFailOver, IsActiveOperationInTransition
<1>2. CASE mem' = decodedStatus(mem) /\ pc = "primary" /\ pc' = "save" /\ stage = "check" /\ UNCHANGED status
  <2>1. mem'.blocking = decodedOperation(status.blocking, mem.blocking)
    BY <1>2, DecodedStatusFacts
  <2>2. mem.blocking.left = 0
    BY <1>2 DEF BaseInv
  <2>3. Timed(mem'.blocking)
    BY <2>1, <2>2, DecodedTimed, SMTT(30) DEF WaitInv
  <2> QED BY <1>2, <2>3 DEF WaitInv
<1>3. CASE ConfigMem /\ pc' \in {"primary", "save"} /\ UNCHANGED status
  <2>1. Timed(mem'.blocking) /\ (mem'.active.id # BaseConfigCount => mem'.blocking.left = 0)
    BY <1>3, TimedFacts DEF ConfigMem, ConfigOperation
  <2>2. ~isWaitingBeforeStartingFailOver(mem)'
    BY <1>3, ConfigMemFacts DEF isWaitingBeforeStartingFailOver, IsActiveOperationInTransition
  <2> QED BY <1>3, <2>1, <2>2, SMTT(30) DEF WaitInv
<1> QED BY <1>1, <1>2, <1>3, SMTT(30) DEF Beside

\* The invariants about the base config map and about the wait always hold.
LEMMA SpecResourcesWait == SpecResources => [](ResourcesTypedInv /\ BaseInv /\ WaitInv)
<1>1. Init /\ ResourcesInit => BaseInv /\ WaitInv
  BY InitWait, Zenon DEF Init, BaseInv
<1>2. ResourcesTypedInv /\ BaseInv /\ WaitInv /\ [NextResources]_resVars => BaseInv' /\ WaitInv'
  <2> SUFFICES ASSUME ResourcesTypedInv, BaseInv, WaitInv, [NextResources]_resVars PROVE BaseInv' /\ WaitInv'
    OBVIOUS
  <2>1. Typed(Diffs) /\ ReadTyped /\ (CountStep \/ Beside)
    BY ResourcesNextCases DEF ResourcesTypedInv
  <2>2. BaseInv'
    BY <2>1, NextBase
  <2>3. WaitInv'
    BY <2>1, DiffsFacts, BeginsOrEndsWait, PrimaryWait, ReplicaWait, EnvironmentWait, BesideWait DEF CountStep
  <2> QED BY <2>2, <2>3
<1> QED BY <1>1, <1>2, SpecResourcesTyped, PTL DEF SpecResources

\* No instance is created by a reconciliation that missed the base config map, unless
\* an operation was active before: activateOperation of the base config map keeps the
\* other enforcers out until it is deployed, whatever fails
\* (BaseConfigMapCountSpecEnforcer).
THEOREM InstancesAlwaysWaitForBaseConfig == SpecResources => InstancesWaitForBaseConfig
<1>1. ResourcesTypedInv /\ BaseInv /\ [NextResources]_resVars =>
        \A i \in DOMAIN sts' \ DOMAIN sts : isBaseConfigDeployed(read.owned) \/ status.blocking.id # ""
  <2> SUFFICES ASSUME ResourcesTypedInv, BaseInv, [NextResources]_resVars, NEW i \in DOMAIN sts' \ DOMAIN sts
               PROVE  isBaseConfigDeployed(read.owned) \/ status.blocking.id # ""
    OBVIOUS
  <2>0. Typed(Diffs)
    BY DEF ResourcesTypedInv
  <2>1. (EnforcePrimaryDb /\ stage = "instances") \/ EnforceReplicaDb
    BY <2>0, ResourcesCreation
  <2>2. mem.active.id # BaseConfigCount
    BY <2>0, <2>1, DeployingDisables, SMTT(30)
  <2>3. (pc = "primary" /\ stage = "instances") \/ pc = "replica"
    BY <2>0, <2>1, PrimaryOperation, ReplicaOperation, DiffsFacts
  <2> QED BY <2>2, <2>3 DEF BaseInv
<1> QED BY <1>1, SpecResourcesWait, PTL DEF SpecResources, InstancesWaitForBaseConfig

-----------------------------------------------------------------------------
(***************************************************************************)
(* The inductive invariant for ReplicasShareStorage.  A reconciliation has *)
(* listed one primary at most, loadStates fails otherwise.  Once the spec  *)
(* was checked and a primary was found ready, this primary has the storage *)
(* that new instances get: the check ends the reconciliation if it has     *)
(* another one, whether or not the change could be undone.  (The count of  *)
(* primaries says something because there are finitely many StatefulSets.) *)
(***************************************************************************)
StorageInv ==
  /\ IsFiniteSet(DOMAIN sts)
  /\ pc # "idle" => \A p, q \in primaries(seen) : p = q
  /\ pc \in {"primary", "replica"} /\ stage # "check" /\ read.primaryReady =>
       \A p \in primaries(seen) : read.storage[p] = read.asked.storage

\* The elements of a set of one at most are the same.
LEMMA OneOrNone ==
  ASSUME NEW S, IsFiniteSet(S), Cardinality(S) <= 1 PROVE \A p, q \in S : p = q
<1> SUFFICES ASSUME NEW p \in S, NEW q \in S PROVE p = q
  OBVIOUS
<1>1. IsFiniteSet(S \ {p}) /\ Cardinality(S \ {p}) = Cardinality(S) - 1 /\ Cardinality(S) \in Nat
  BY FS_RemoveElement, FS_CardinalityType
<1>2. Cardinality(S \ {p}) = 0
  BY <1>1, FS_CardinalityType
<1>3. S \ {p} = {}
  BY <1>1, <1>2, FS_EmptySet, SMTT(30)
<1> QED BY <1>3

\* Each enforcer creates one instance at most; that of the primary, no replica.
LEMMA EnforcersCreateOne ==
  ASSUME Typed(Diffs), EnforcePrimaryDb \/ EnforceReplicaDb
  PROVE  /\ \E i : DOMAIN sts' \subseteq DOMAIN sts \cup {i}
         /\ EnforcePrimaryDb => replicas(sts') \subseteq DOMAIN sts
<1>1. CASE EnforcePrimaryDb
  <2>1. ASSUME DOMAIN sts' \subseteq DOMAIN sts PROVE replicas(sts') \subseteq DOMAIN sts
    BY <2>1 DEF replicas
  <2>2. CASE PrimaryUnchanged \/ FailOverRefused
    BY <2>1, <2>2 DEF PrimaryUnchanged, FailOverRefused
  <2>3. CASE waitBeforePromotingReplicaToPrimary
    BY <2>1, <2>3, SMTT(30) DEF waitBeforePromotingReplicaToPrimary, DeletePrimary
  <2>4. CASE promoteReplicaToPrimary
    BY <2>1, <2>4 DEF promoteReplicaToPrimary
  <2>5. CASE deployNewPrimaryStatefulSet
    <3>1. sts' = sts \/ \E i : sts' = Created(i, "primary")
      BY <2>5 DEF deployNewPrimaryStatefulSet
    <3>2. ASSUME NEW i, sts' = Created(i, "primary")
          PROVE  DOMAIN sts' \subseteq DOMAIN sts \cup {i} /\ replicas(sts') \subseteq DOMAIN sts
      <4>1. DOMAIN sts' = DOMAIN sts \cup {i} /\ sts'[i].role = "primary"
        BY <3>2 DEF Created
      <4> QED BY <4>1 DEF replicas
    <3> QED BY <2>1, <3>1, <3>2
  <2> QED BY <1>1, <2>1, <2>2, <2>3, <2>4, <2>5 DEF EnforcePrimaryDb
<1>2. CASE EnforceReplicaDb /\ ~EnforcePrimaryDb
  <2>1. sts' = sts \/ (\E i : sts' = Created(i, "replica")) \/ \E i : sts' = Deleted(i)
    BY <1>2, Zenon DEF EnforceReplicaDb, deployReplicaStatefulSet, undeployReplicaStatefulSets,
       ReplicasUnchanged, ReplicasSkipped
  <2> QED BY <1>2, <2>1, Zenon DEF Created, Deleted
<1> QED BY <1>1, <1>2, SMTT(30)

\* There stay finitely many StatefulSets.
LEMMA NextFinite ==
  ASSUME Typed(Diffs), IsFiniteSet(DOMAIN sts), [NextResources]_resVars PROVE IsFiniteSet(DOMAIN sts')
<1>1. ASSUME DOMAIN sts' \subseteq DOMAIN sts PROVE IsFiniteSet(DOMAIN sts')
  BY <1>1, FS_Subset, SMTT(30)
<1>2. CASE EnforcePrimaryDb \/ EnforceReplicaDb
  <2>1. PICK i : DOMAIN sts' \subseteq DOMAIN sts \cup {i}
    BY <1>2, EnforcersCreateOne, SMTT(30)
  <2>2. IsFiniteSet(DOMAIN sts \cup {i})
    BY FS_AddElement, SMTT(30)
  <2> QED BY <2>1, <2>2, FS_Subset, SMTT(30)
<1>3. CASE BeginsOrEnds \/ Beside
  BY <1>1, <1>3, BeginsOrEndsKeeps DEF Beside
<1> QED BY <1>1, <1>2, <1>3, ResourcesNextCases, EnvironmentCreatesNone, SMTT(30) DEF CountStep

\* What was read and the stage change only when the states are loaded, when the spec
\* is checked, and after it.
LEMMA StageFollows ==
  ASSUME Typed(Diffs), ReadTyped, [NextResources]_resVars
  PROVE  LoadResourcesStates \/ CheckSpec \/ pc' \notin {"primary", "replica"}
           \/ (ReadKept /\ pc \in {"primary", "replica"} /\ (stage' = stage \/ stage = "config"))
<1> SUFFICES ASSUME ~LoadResourcesStates, ~CheckSpec, pc' \in {"primary", "replica"}
             PROVE  pc \in {"primary", "replica"} /\ (stage' = stage \/ stage = "config")
  BY ResourcesReadOnce
<1>1. CASE ReconcileResources
  <2>1. CASE EnforceBaseConfig
    BY <2>1, SMTT(30) DEF EnforceBaseConfig
  <2>2. CASE (EnforcePrimaryDb \/ EnforceReplicaDb) /\ resourcesKept
    BY <2>2, PrimaryOperation, ReplicaOperation, DiffsFacts DEF resourcesKept
  <2>3. CASE EnforceBackUp
    <3>1. PICK job, failures : BackUpEnforced(job, failures)
      BY <2>3 DEF EnforceBackUp
    <3> QED BY <3>1 DEF BackUpEnforced
  <2>4. CASE LoadResourcesFails
    BY <2>4 DEF LoadResourcesFails, resVars, clusterVars
  <2>5. CASE SaveStatus \/ SaveRefused
    BY <2>5 DEF SaveStatus, SaveRefused, EndReconciliation
  <2> QED BY <1>1, <2>1, <2>2, <2>3, <2>4, <2>5 DEF ReconcileResources
<1>2. CASE CrashResources
  BY <1>2 DEF CrashResources, Crash, EndReconciliation
<1>3. CASE ClusterStep \/ TimePasses
  BY <1>3, EnvironmentPc DEF ClusterStep, TimePasses, Environment, resourceVars
<1>4. CASE ResourcesChange
  <2>1. ASSUME NEW kind, ResourceChanges(kind) PROVE UNCHANGED <<pc, stage>>
    BY <2>1 DEF ResourceChanges, reconcileVars
  <2> QED BY <1>4, <2>1 DEF ResourcesChange, UserAsks, SharedResourceChanges, CronJobDeleted
<1>5. CASE UNCHANGED resVars
  BY <1>5 DEF resVars, clusterVars, resourceVars
<1> QED BY <1>1, <1>2, <1>3, <1>4, <1>5, SMTT(30) DEF NextResources

\* The check of the spec goes on only with the storage of the primary it found ready.
LEMMA CheckStorage ==
  ASSUME ReadTyped, StorageInv, CheckSpec, pc' = "primary", read'.primaryReady
  PROVE  \A p \in primaries(seen') : read'.storage[p] = read'.asked.storage
<1>1. PICK m, next : Checked(m, next)
  BY DEF CheckSpec, updateKubegresSpec
<1>2. pc = "primary" /\ seen' = seen /\ otherStorages = {}
  BY <1>1 DEF CheckSpec, updateKubegresSpec, Checked
<1>3. read' = [read EXCEPT !.primaryReady = readyPrimaries # {}]
  BY DEF CheckSpec
<1>4. readyPrimaries # {} /\ read'.storage = read.storage /\ read'.asked = read.asked
  BY <1>2, <1>3, Zenon DEF ReadTyped
<1>5. PICK i \in readyPrimaries : read.storage[i] = read.asked.storage
  BY <1>2, <1>4 DEF otherStorages
<1>6. \A p \in primaries(seen) : p = i
  BY <1>2 DEF readyPrimaries, StorageInv
<1> QED BY <1>2, <1>4, <1>5, <1>6 DEF primaries

\* Every step keeps the invariant.
LEMMA NextStorage ==
  ASSUME Typed(Diffs), ReadTyped, StorageInv, [NextResources]_resVars PROVE StorageInv'
<1>1. IsFiniteSet(DOMAIN sts')
  BY NextFinite DEF StorageInv
<1>2. pc' # "idle" => \A p, q \in primaries(seen') : p = q
  <2>1. CASE LoadResourcesStates
    <3>1. Cardinality(primaries(sts)) <= 1 /\ seen' = sts
      BY <2>1 DEF LoadResourcesStates, LoadWith
    <3>2. IsFiniteSet(primaries(sts))
      BY FS_Subset DEF StorageInv, primaries
    <3> QED BY <3>1, <3>2, OneOrNone, SMTT(30)
  <2>2. CASE ReadKept
    BY <2>2 DEF ReadKept, StorageInv
  <2> QED BY <2>1, <2>2, ResourcesReadOnce
<1>3. pc' \in {"primary", "replica"} /\ stage' # "check" /\ read'.primaryReady =>
        \A p \in primaries(seen') : read'.storage[p] = read'.asked.storage
  <2>1. CASE LoadResourcesStates
    BY <2>1 DEF LoadResourcesStates
  <2>2. CASE CheckSpec
    <3>1. pc' \in {"primary", "save"}
      BY <2>2 DEF CheckSpec, updateKubegresSpec, Checked
    <3> QED BY <2>2, <3>1, CheckStorage
  <2>3. CASE ReadKept /\ pc \in {"primary", "replica"} /\ (stage' = stage \/ stage = "config") /\ ~CheckSpec
    BY <2>3, Zenon DEF ReadKept, StorageInv
  <2> QED BY <2>1, <2>2, <2>3, StageFollows, SMTT(30)
<1> QED BY <1>1, <1>2, <1>3, Zenon DEF StorageInv

\* A replica is created with the storage of the primary, whose pod was found ready,
\* whatever the user changed the storage to meanwhile and whether or not the change
\* could be undone (CheckSpec, updateKubegresSpec, deployReplicaStatefulSet).
THEOREM ReplicasAlwaysShareStorage == SpecResources => ReplicasShareStorage
<1>1. Init /\ ResourcesInit => StorageInv
  <2>1. Init => IsFiniteSet(DOMAIN sts) /\ pc = "idle"
    BY FS_EmptySet DEF Init, NoStatefulSets
  <2> QED BY <2>1 DEF StorageInv
<1>2. ResourcesTypedInv /\ StorageInv /\ [NextResources]_resVars => StorageInv'
  BY NextStorage, SMTT(30) DEF ResourcesTypedInv
<1>3. ResourcesTypedInv /\ BaseInv /\ StorageInv /\ [NextResources]_resVars =>
        \A i \in replicas(sts') \ DOMAIN sts :
          read.primaryReady => \A p \in primaries(seen) : storage'[i] = read.storage[p]
  <2> SUFFICES ASSUME ResourcesTypedInv, BaseInv, StorageInv, [NextResources]_resVars,
                      NEW i \in replicas(sts') \ DOMAIN sts, read.primaryReady
               PROVE  \A p \in primaries(seen) : storage'[i] = read.storage[p]
    OBVIOUS
  <2>1. Typed(Diffs) /\ i \in DOMAIN sts' \ DOMAIN sts
    BY DEF ResourcesTypedInv, replicas
  <2>2. EnforceReplicaDb /\ StorageFollows
    BY <2>1, ResourcesCreation, EnforcersCreateOne, SMTT(30)
  <2>3. pc = "replica"
    BY <2>1, <2>2, ReplicaOperation, DiffsFacts
  <2>4. storage'[i] = read.asked.storage
    BY <2>1, <2>2, SMTT(30) DEF StorageFollows
  <2> QED BY <2>3, <2>4 DEF BaseInv, StorageInv
<1> QED BY <1>1, <1>2, <1>3, SpecResourcesWait, PTL DEF SpecResources, ReplicasShareStorage

-----------------------------------------------------------------------------
(***************************************************************************)
(* The instances and the operation, with the check of the spec and the     *)
(* base config map.                                                        *)
(***************************************************************************)
\* A step beside makes no primary, and no wait of an operation that is not one.
LEMMA BesideOnePrimary ==
  ASSUME NothingIsLost, Typed(Diffs), BaseInv, OnePrimaryInv, Beside PROVE OnePrimaryInv'
<1>1. ~outdated' /\ UNCHANGED <<sts, seen, status>>
  <2>1. ~outdated /\ "editWhileReconciling" \notin Disruptions
    BY DEF OnePrimaryInv, NothingIsLost
  <2>2. UNCHANGED outdated \/ (pc = "idle" /\ outdated' = (pc # "idle"))
    BY <2>1 DEF Beside
  <2>3. ~outdated'
    BY <2>1, <2>2, Zenon
  <2>4. UNCHANGED <<sts, seen, status>>
    BY SMTT(30) DEF Beside
  <2> QED BY <2>3, <2>4, SMTT(30)
<1>2. CASE mem' = mem /\ (pc' = pc \/ (pc \in {"primary", "services"} /\ pc' = "save"))
  <2>1. /\ primaries(sts)' = primaries(sts) /\ primaries(seen)' = primaries(seen) /\ (NoPrimary' <=> NoPrimary)
        /\ Sync(mem)' <=> Sync(mem)
    BY <1>1, <1>2, SMTT(30) DEF primaries, NoPrimary, Sync
  <2>2. /\ PrimaryStep(status.blocking)' /\ PrimaryStep(mem.blocking)'
        /\ (Waits(mem.blocking)' <=> Waits(mem.blocking)) /\ (Waits(status.blocking)' <=> Waits(status.blocking))
    BY <1>1, <1>2, SMTT(30) DEF OnePrimaryInv, PrimaryStep, Waits
  <2> QED BY <1>1, <1>2, <2>1, <2>2, SMTT(30) DEF OnePrimaryInv
<1>3. ASSUME pc = "primary", pc' \in {"primary", "save"}, PrimaryStep(mem'.blocking),
             Waits(mem'.blocking) => Waits(status.blocking), pc' = "primary" => Sync(mem')
      PROVE  OnePrimaryInv'
  <2>1. Waits(status.blocking) => NoPrimary
    BY <1>3, SMTT(30) DEF OnePrimaryInv
  <2> QED BY <1>1, <1>3, <2>1, ZenonT(30) DEF OnePrimaryInv, NoPrimary, primaries, Sync, Waits, PrimaryStep
<1>4. CASE mem' = decodedStatus(mem) /\ pc = "primary" /\ pc' = "save" /\ stage = "check"
  <2>1. mem'.blocking = decodedOperation(status.blocking, mem.blocking)
    BY <1>4, DecodedStatusFacts, SMTT(30)
  <2>2. mem.blocking.id = PrimaryDbCount => status.blocking.id = PrimaryDbCount
    BY <1>4, StepIds DEF BaseInv
  <2>3. status.blocking \in Operation(Diffs) /\ mem.blocking \in Operation(Diffs)
    BY SMTT(30) DEF Typed, StatusType, MemType
  <2>4. PrimaryStep(mem'.blocking) /\ (Waits(mem'.blocking) => Waits(status.blocking))
    BY <2>1, <2>2, <2>3, DecodedWait, DiffsFacts, Zenon DEF OnePrimaryInv
  <2> QED BY <1>3, <1>4, <2>4, Zenon
<1>5. CASE ConfigMem /\ pc = "primary" /\ pc' \in {"primary", "save"}
  BY <1>3, <1>5, ConfigMemFacts DEF PrimaryStep, Waits
<1> QED BY <1>2, <1>4, <1>5 DEF Beside

\* What no step does, of the count of instances or beside it.
LEMMA NextResourcesPromotesAndKeeps ==
  ResourcesTypedInv /\ WaitInv /\ [NextResources]_resVars => PromotesAfterWait /\ KeepsAReadyInstance
<1> SUFFICES ASSUME ResourcesTypedInv, WaitInv, [NextResources]_resVars
             PROVE  PromotesAfterWait /\ KeepsAReadyInstance
  OBVIOUS
<1>1. Typed(Diffs) /\ (CountStep \/ Beside)
  BY ResourcesNextCases DEF ResourcesTypedInv
<1>2. CASE CountStep
  BY <1>1, <1>2, DiffsFacts, PrimaryPromotesAndKeeps, ReplicaPromotesAndKeeps, OthersPromoteNobody DEF CountStep
<1>3. CASE Beside
  BY <1>3, OneRole DEF Beside, PromotesAfterWait, KeepsAReadyInstance, OperatorDeletes
<1> QED BY <1>1, <1>2, <1>3

\* A replica only becomes the primary when the persisted operation is the wait before
\* the fail-over, timed out, although setting the storage back has the status decoded
\* in the middle of a reconciliation and the base config map is an operation of its
\* own (isWaitingBeforeStartingFailOver, updateKubegresSpec).
THEOREM PromotionFollowsTheWaitWithResources == SpecResources => PromotionFollowsWait
<1>1. ResourcesTypedInv /\ WaitInv /\ [NextResources]_resVars =>
        \A i \in replicas(sts) \cap primaries(sts') :
          /\ status.blocking.id = PrimaryDbCount
          /\ status.blocking.left = 0
          /\ \/ status.blocking.step = "WaitingBeforeFailingOver"
             \/ /\ status.blocking.step = Transition
                /\ status.previousBlocking.step = "WaitingBeforeFailingOver"
  BY NextResourcesPromotesAndKeeps DEF PromotesAfterWait, EndsWait
<1> QED BY <1>1, SpecResourcesWait, PTL DEF SpecResources, PromotionFollowsWait

\* The check of the spec and the base config map change nothing in what the operator
\* deletes: one that is ready is left, unless the list is out of date
\* (deletePrimaryStatefulSet, undeployReplicaStatefulSets).
THEOREM ResourcesKeepTheLastReadyUnlessStale == SpecResources => LastReadyIsKeptUnlessStale
<1>1. ResourcesTypedInv /\ WaitInv /\ [NextResources]_resVars =>
        (OperatorDeletes /\ ~mem.spec.standby /\ ready(seen) \subseteq ready(sts) => ready(sts') # {})
  BY NextResourcesPromotesAndKeeps DEF KeepsAReadyInstance
<1> QED BY <1>1, SpecResourcesWait, PTL DEF SpecResources, LastReadyIsKeptUnlessStale

\* The invariant about the primary always holds, if nothing is lost.
LEMMA SpecResourcesOnePrimary ==
  ASSUME NothingIsLost PROVE SpecResources => [](ResourcesTypedInv /\ BaseInv /\ OnePrimaryInv)
<1>1. ResourcesTypedInv /\ BaseInv /\ OnePrimaryInv /\ [NextResources]_resVars => OnePrimaryInv'
  <2> SUFFICES ASSUME ResourcesTypedInv, BaseInv, OnePrimaryInv, [NextResources]_resVars PROVE OnePrimaryInv'
    OBVIOUS
  <2>1. Typed(Diffs) /\ (CountStep \/ Beside)
    BY ResourcesNextCases DEF ResourcesTypedInv
  <2> QED BY <2>1, DiffsFacts, BeginsOrEndsOnePrimary, PrimaryOnePrimary, ReplicaOnePrimary,
             EnvironmentOnePrimary, BesideOnePrimary
         DEF CountStep
<1> QED BY <1>1, InitOnePrimary, SpecResourcesWait, PTL DEF SpecResources

\* There is at most one primary at any time with the check of the spec and the base
\* config map too, as long as no status update is lost, nobody edits the resource
\* during a reconciliation and the deletion of a failing primary does not fail: the
\* status that updateKubegresSpec has decoded into memory tells of no wait that was
\* not stored.
THEOREM ResourcesOnlyOnePrimaryUnlessLost ==
  ASSUME NothingIsLost PROVE SpecResources => []OnlyOnePrimary
<1>1. OnePrimaryInv => OnlyOnePrimary
  BY Zenon DEF OnePrimaryInv, OnlyOnePrimary
<1> QED BY <1>1, SpecResourcesOnePrimary, PTL

\* The reconciliation with these resources implements InstanceRoles under the same
\* conditions (EnforceSpec of the enforcers of the instances).
THEOREM ResourcesImplementInstanceRoles ==
  ASSUME NothingIsLost PROVE SpecResources => InstanceRolesAreKept
<1>1. Init => Abstract!RolesInit /\ SeenInv
  BY DEF Init, Abstract!RolesInit, primaries, replicas, NoStatefulSets, SeenInv
<1>2. ResourcesTypedInv /\ SeenInv /\ [NextResources]_resVars => SeenInv'
  <2> SUFFICES ASSUME ResourcesTypedInv, SeenInv, [NextResources]_resVars PROVE SeenInv'
    OBVIOUS
  <2>1. IsStatefulSetMap(sts) /\ (CountStep \/ Beside)
    BY ResourcesNextCases DEF ResourcesTypedInv, Typed
  <2>2. CASE CountStep
    BY <2>1, <2>2, StepSeen, SMTT(30) DEF CountStep
  <2>3. CASE Beside
    BY <2>3 DEF Beside, SeenInv, primaries, replicas
  <2> QED BY <2>1, <2>2, <2>3
<1>3. ResourcesTypedInv /\ OnePrimaryInv /\ SeenInv /\ [NextResources]_resVars
        => [Abstract!RolesNext]_<<primaries(sts), replicas(sts)>>
  <2> SUFFICES ASSUME ResourcesTypedInv, OnePrimaryInv, SeenInv, [NextResources]_resVars
               PROVE  [Abstract!RolesNext]_<<primaries(sts), replicas(sts)>>
    OBVIOUS
  <2>1. Typed(Diffs) /\ (CountStep \/ Beside)
    BY ResourcesNextCases DEF ResourcesTypedInv
  <2>2. CASE CountStep
    BY <2>1, <2>2, DiffsFacts, StepRoles, SMTT(30) DEF CountStep
  <2>3. CASE Beside
    BY <2>3 DEF Beside, primaries, replicas
  <2> QED BY <2>1, <2>2, <2>3
<1> QED BY <1>1, <1>2, <1>3, SpecResourcesOnePrimary, PTL
        DEF SpecResources, InstanceRolesAreKept, Abstract!RolesSpec
=============================================================================
