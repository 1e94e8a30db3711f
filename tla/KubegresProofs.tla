----------------------------- MODULE KubegresProofs -----------------------------
(***************************************************************************)
(* Proofs about the whole reconciliation, for any time-outs, any numbers   *)
(* of replicas, any templates, any config maps and any disruptions.  What  *)
(* was proved of the count of instances still holds when the enforcers of  *)
(* the services and of the StatefulSets' spec share the blocking operation *)
(* with it; and the pods have the volumes they mount.                      *)
(***************************************************************************)
EXTENDS Kubegres, StatefulSetCountProofs

AllDiffs == SUBSET ({"image", "port", "config"} \X Nat)

(***************************************************************************)
(* What the other enforcers and the changes of the templates do to the     *)
(* instances and to the operation: they give no role to anybody, and the   *)
(* enforcer of the StatefulSets' spec replaces only its own operation.     *)
(***************************************************************************)
SetsAPod == sts' = sts \/ \E i \in DOMAIN sts, pod \in Pods : sts' = [sts EXCEPT ![i].pod = pod]

OwnOperation(op) == op = NoOperation \/ (op.id = StatefulSetSpec /\ op.step \in Steps)

\* The counters and the spec are those that were read.
Counted(m) == m.last = mem.last /\ m.enforced = mem.enforced /\ m.spec = mem.spec

SpecMem ==
  /\ mem' \in MemType(AllDiffs) /\ mem'.changed = TRUE
  /\ mem.active.id \in {"", StatefulSetSpec}
  /\ mem'.active = mem'.blocking /\ OwnOperation(mem'.blocking)
  /\ Counted(mem')

Aside ==
  /\ UNCHANGED <<spec, status, pvcs, lastPrimary, seen>>
  /\ SetsAPod
  /\ budget' = budget \/ \E kinds : Happens(kinds)
  /\ \/ UNCHANGED <<pc, mem, outdated>>
     \/ /\ UNCHANGED <<pc, mem>> /\ outdated' = (pc # "idle")
        /\ pc = "idle" \/ "editWhileReconciling" \in Disruptions
     \/ /\ pc \in {"services", "specs"} /\ pc' \in {"specs", "save"} /\ UNCHANGED outdated
        /\ mem' = mem \/ SpecMem

(***************************************************************************)
(* The type of the templates: what AllTypeOK says of them, and that a      *)
(* reconciliation has read a template.                                     *)
(***************************************************************************)
MountMap(m) == DOMAIN m \subseteq ConfigKeys /\ m \in [DOMAIN m -> Volumes]

PodsTyped ==
  /\ wanted \in Templates
  /\ DOMAIN mounts = DOMAIN sts /\ \A i \in DOMAIN sts : MountMap(mounts[i])
  /\ deployed \in [DOMAIN sts -> Templates] /\ running \in [DOMAIN sts -> Templates]
  /\ stuck \subseteq DOMAIN sts
  /\ services \in [Roles -> Nat]

ViewTyped == pc # "idle" =>
  view.wanted \in Templates /\ DOMAIN view.deployed = DOMAIN seen /\ DOMAIN view.running = DOMAIN seen

TemplatesTyped == PodsTyped /\ ViewTyped

AllPcTyped == pc \in {"idle", "primary", "replica", "services", "specs", "save"}

\* The differences of two templates are what an operation of the spec enforcer carries.
LEMMA DiffsFacts == {} \in AllDiffs /\ Operations = Operation(AllDiffs)
BY DEF AllDiffs, Operations

\* The type invariant in the form the proofs expand.
LEMMA AllTyped == Typed(AllDiffs) /\ TemplatesTyped /\ AllPcTyped => AllTypeOK
<1> SUFFICES ASSUME Typed(AllDiffs), TemplatesTyped, AllPcTyped PROVE AllTypeOK
  OBVIOUS
<1>1. /\ mem.spec \in Specs
      /\ {status.blocking, status.previousBlocking, mem.active, mem.previous, mem.blocking,
          mem.previousBlocking} \subseteq Operations
  BY DiffsFacts DEF Typed, StatusType, MemType
<1>2. spec \in Specs /\ IsStatefulSetMap(sts) /\ IsStatefulSetMap(seen)
  BY DEF Typed
<1> QED BY <1>1, <1>2 DEF AllTypeOK, TemplatesTyped, PodsTyped, MountMap, ViewTyped, AllPcTyped

\* A template has the three fields, and its differences from another are a diff.
LEMMA TemplateFacts ==
  ASSUME NEW t \in Templates
  PROVE  /\ t.port \in Nat /\ t.image \in Nat /\ t.config \in Nat
         /\ DOMAIN t = {"image", "port", "config"}
         /\ t.config = BaseConfig \/ t.config \in DOMAIN ConfigData
<1>1. t \in [image: Nat \ {0}, port: Nat \ {0}, config: {BaseConfig} \cup DOMAIN ConfigData]
  BY TemplateAssumption
<1>2. DOMAIN ConfigData \subseteq Nat
  BY ConfigAssumption
<1>3. BaseConfig \in Nat
  BY DEF BaseConfig
<1> QED BY <1>1, <1>2, <1>3

\* Comparing with a template gives differences of that kind.
LEMMA DifferencesType ==
  ASSUME NEW t, NEW w \in Templates PROVE CheckForSpecDifferences(t, w) \in AllDiffs
<1>1. /\ w.image \in Nat /\ w.port \in Nat /\ w.config \in Nat
      /\ DOMAIN w = {"image", "port", "config"}
  BY TemplateFacts
<1>2. \A f \in DOMAIN w : <<f, w[f]>> \in {"image", "port", "config"} \X Nat
  BY <1>1
<1> QED BY <1>2 DEF CheckForSpecDifferences, AllDiffs

-----------------------------------------------------------------------------
(***************************************************************************)
(* The steps of the whole reconciliation are those of the count of         *)
(* instances, and steps aside of them.                                     *)
(***************************************************************************)
\* An operation of the spec enforcer that is started, or removed again.
LEMMA SpecOperation ==
  ASSUME mem \in MemType(AllDiffs), NEW step \in {"SpecUpdating", "PodSpecUpdating", "WaitingOnStuckPod"},
         NEW i \in Nat, NEW diff \in AllDiffs
  PROVE  LET a == activateOperation(mem, step, i, diff)
             r == RemoveActiveOperation(a)
         IN /\ a \in MemType(AllDiffs) /\ a.changed = TRUE /\ a.active = a.blocking
            /\ OwnOperation(a.blocking) /\ Counted(a)
            /\ r \in MemType(AllDiffs) /\ r.changed = TRUE /\ r.active = r.blocking
            /\ OwnOperation(r.blocking) /\ Counted(r)
<1> DEFINE a == activateOperation(mem, step, i, diff)
           r == RemoveActiveOperation(a)
<1>1. step \in Steps /\ OperationIdOf[step] = StatefulSetSpec
  BY DEF Steps, OperationIdOf
<1>2. a.changed = TRUE
  BY ActivateChanges, Zenon
<1>3. /\ a \in MemType(AllDiffs) /\ a.active = a.blocking /\ a.blocking.id = StatefulSetSpec /\ a.blocking.step = step
      /\ Counted(a)
  BY <1>1, DiffsFacts, ActivateFacts DEF Counted
<1> HIDE DEF a
<1>4. /\ r \in MemType(AllDiffs) /\ r.changed = TRUE /\ r.active = NoOperation /\ r.blocking = NoOperation
      /\ Counted(r)
  BY <1>3, DiffsFacts, RemoveFacts, Zenon DEF RemoveActiveOperation, Counted
<1> HIDE DEF r
<1>5. /\ a \in MemType(AllDiffs) /\ a.changed = TRUE /\ a.active = a.blocking
      /\ OwnOperation(a.blocking) /\ Counted(a)
      /\ r \in MemType(AllDiffs) /\ r.changed = TRUE /\ r.active = r.blocking
      /\ OwnOperation(r.blocking) /\ Counted(r)
  BY <1>1, <1>2, <1>3, <1>4 DEF OwnOperation
<1> QED BY <1>5 DEF a, r

\* The removal of the active operation.
LEMMA SpecRemoval ==
  ASSUME mem \in MemType(AllDiffs)
  PROVE  LET r == RemoveActiveOperation(mem)
         IN /\ r \in MemType(AllDiffs) /\ r.changed = TRUE /\ r.active = r.blocking
            /\ OwnOperation(r.blocking) /\ Counted(r)
BY DiffsFacts, RemoveFacts, Zenon DEF RemoveActiveOperation, OwnOperation, Counted

\* Each outcome of the enforcer of the StatefulSets' spec is a step aside.
LEMMA SpecsAside ==
  ASSUME Typed(AllDiffs), TemplatesTyped, EnforceStatefulSetsSpec PROVE Aside
<1> DEFINE Fits(m) == m = mem \/ /\ m \in MemType(AllDiffs) /\ m.changed = TRUE
                                 /\ m.active = m.blocking /\ OwnOperation(m.blocking) /\ Counted(m)
           Spends == budget' = budget \/ \E kinds : Happens(kinds)
<1>0. /\ mem \in MemType(AllDiffs) /\ IsStatefulSetMap(seen)
      /\ pc # "idle" => view.wanted \in Templates
  BY DEF Typed, TemplatesTyped, ViewTyped
<1>1. ASSUME NEW m, NEW next \in {"specs", "save"}, SpecEnforced(m, next), Fits(m), pc = "specs",
             m = mem \/ mem.active.id \in {"", StatefulSetSpec}, SetsAPod, Spends
      PROVE  Aside
  BY <1>1 DEF Aside, SpecMem, SpecEnforced
<1>2. sts' = sts => SetsAPod
  BY DEF SetsAPod
<1>3. CASE SpecsUnchanged
  BY <1>1, <1>2, <1>3 DEF SpecsUnchanged
<1>4. ASSUME NEW i \in DOMAIN seen, EnforcesSpecOf(i)
      PROVE  pc = "specs" /\ mem.active.id \in {"", StatefulSetSpec} /\ i \in Nat /\ specDifferences(i) \in AllDiffs
  <2>1. pc = "specs" /\ mem.active.id \in {"", StatefulSetSpec}
    BY <1>4 DEF EnforcesSpecOf, EnforcesSpecs, IsActiveOperationIdDifferentOf, isThereActiveOperation
  <2>2. i \in Nat
    BY <1>0 DEF IsStatefulSetMap
  <2> QED BY <1>0, <2>1, <2>2, DifferencesType DEF specDifferences
<1>5. ASSUME NEW i \in DOMAIN seen, SpecEnforcementTimedOut(i) PROVE Aside
  <2>1. PICK m \in {mem, RemoveActiveOperation(mem)}, next \in {"specs", "save"} : SpecEnforced(m, next)
    BY <1>5 DEF SpecEnforcementTimedOut
  <2>2. Fits(m)
    BY <1>0, <2>1, SpecRemoval, Zenon
  <2>3. EnforcesSpecOf(i) /\ sts' = sts /\ budget' = budget
    BY <1>5 DEF SpecEnforcementTimedOut
  <2> QED BY <1>1, <1>2, <1>4, <2>1, <2>2, <2>3
<1>6. ASSUME NEW i \in DOMAIN seen, enforceSpec(i) PROVE Aside
  <2> DEFINE updating == activateOperation(mem, "SpecUpdating", i, specDifferences(i))
  <2>1. EnforcesSpecOf(i) /\ sts' = sts /\ Spends
    BY <1>6 DEF enforceSpec
  <2>2. PICK m \in {updating, RemoveActiveOperation(updating)} : SpecEnforced(m, "save")
    BY <1>6 DEF enforceSpec
  <2>3. /\ updating \in MemType(AllDiffs) /\ updating.changed = TRUE /\ updating.active = updating.blocking
        /\ OwnOperation(updating.blocking) /\ Counted(updating)
        /\ RemoveActiveOperation(updating) \in MemType(AllDiffs)
        /\ RemoveActiveOperation(updating).changed = TRUE
        /\ RemoveActiveOperation(updating).active = RemoveActiveOperation(updating).blocking
        /\ OwnOperation(RemoveActiveOperation(updating).blocking) /\ Counted(RemoveActiveOperation(updating))
    BY <1>0, <1>4, <2>1, SpecOperation
  <2> HIDE DEF updating
  <2>4. Fits(m)
    BY <2>2, <2>3
  <2> QED BY <1>1, <1>2, <1>4, <2>1, <2>2, <2>4
<1>7. ASSUME NEW i \in DOMAIN seen, handleWhenStuckPod(i) PROVE Aside
  <2> DEFINE waiting == activateOperation(mem, "WaitingOnStuckPod", i, {})
  <2>1. EnforcesSpecOf(i) /\ SetsAPod /\ Spends
    BY <1>7 DEF handleWhenStuckPod, verifiesPodOf, SetsAPod, Pods
  <2>2. PICK m \in {waiting, RemoveActiveOperation(waiting)} : SpecEnforced(m, "save")
    BY <1>7 DEF handleWhenStuckPod
  <2>3. /\ waiting \in MemType(AllDiffs) /\ waiting.changed = TRUE /\ waiting.active = waiting.blocking
        /\ OwnOperation(waiting.blocking) /\ Counted(waiting)
        /\ RemoveActiveOperation(waiting) \in MemType(AllDiffs)
        /\ RemoveActiveOperation(waiting).changed = TRUE
        /\ RemoveActiveOperation(waiting).active = RemoveActiveOperation(waiting).blocking
        /\ OwnOperation(RemoveActiveOperation(waiting).blocking) /\ Counted(RemoveActiveOperation(waiting))
    BY <1>0, <1>4, <2>1, DiffsFacts, SpecOperation
  <2> HIDE DEF waiting
  <2>4. Fits(m)
    BY <2>2, <2>3
  <2> QED BY <1>1, <1>4, <2>1, <2>2, <2>4
<1>8. ASSUME NEW i \in DOMAIN seen, handleWhenPodSpecNotUpToDateOrNotReady(i) PROVE Aside
  <2> DEFINE m == activateOperation(mem, "PodSpecUpdating", podInstanceIndex(i), {})
  <2>1. EnforcesSpecOf(i) /\ sts' = sts /\ budget' = budget /\ SpecEnforced(m, "save")
    BY <1>8 DEF handleWhenPodSpecNotUpToDateOrNotReady, verifiesPodOf
  <2>2. podInstanceIndex(i) \in Nat
    BY <1>4, <2>1 DEF podInstanceIndex
  <2>3. Fits(m)
    BY <1>0, <2>2, DiffsFacts, SpecOperation, Zenon
  <2> HIDE DEF m
  <2> QED BY <1>1, <1>2, <1>4, <2>1, <2>3
<1>9. ASSUME NEW i \in DOMAIN seen, OnSpecUpdatedSuccessfully(i) PROVE Aside
  <2>1. PICK next \in {"specs", "save"} : SpecEnforced(RemoveActiveOperation(mem), next)
    BY <1>9 DEF OnSpecUpdatedSuccessfully
  <2>2. EnforcesSpecOf(i) /\ sts' = sts /\ Spends
    BY <1>9 DEF OnSpecUpdatedSuccessfully, verifiesPodOf
  <2>3. Fits(RemoveActiveOperation(mem))
    BY <1>0, SpecRemoval, Zenon
  <2> QED BY <1>1, <1>2, <1>4, <2>1, <2>2, <2>3
<1> QED BY <1>3, <1>5, <1>6, <1>7, <1>8, <1>9 DEF EnforceStatefulSetsSpec

\* So is the deployment of the services.
LEMMA ServicesAside == EnforceServices => Aside
<1> SUFFICES ASSUME EnforceServices PROVE Aside
  OBVIOUS
<1>1. PICK created : \E next \in {"specs", "save"} : ServicesEnforced(created, next)
  BY Zenon DEF EnforceServices, deployServices, deployServicesFails
<1>2. pc = "services" /\ \E kinds : Happens(kinds)
  BY DEF EnforceServices, deployServices, deployServicesFails
<1> QED BY <1>1, <1>2 DEF ServicesEnforced, Aside, SetsAPod

\* So is what users and Kubernetes do to the templates, the pods and the services.
LEMMA TemplateChangesAside == TemplateChanges => Aside
<1> SUFFICES ASSUME TemplateChanges PROVE Aside
  OBVIOUS
<1>1. ASSUME NEW i \in DOMAIN sts, NEW pod \in Pods, SetPod(i, pod), \E kinds : Happens(kinds) PROVE Aside
  BY <1>1, Zenon DEF SetPod, reconcileVars, Aside, SetsAPod
<1>2. ASSUME NEW i \in DOMAIN sts, PodReplaced(i) \/ PodNotCreated(i) PROVE Aside
  BY <1>1, <1>2 DEF PodReplaced, PodNotCreated, Pods
<1>3. ASSUME NEW i \in DOMAIN sts, PodGetsStuck(i) PROVE Aside
  BY <1>3 DEF PodGetsStuck, reconcileVars, Aside, SetsAPod
<1>4. ASSUME NEW t \in Templates, UserChangesTemplate(t) PROVE Aside
  BY <1>4 DEF UserChangesTemplate, reconcileVars, Aside, SetsAPod
<1>5. ASSUME NEW r \in Roles, ServiceDeleted(r) PROVE Aside
  BY <1>5 DEF ServiceDeleted, reconcileVars, Aside, SetsAPod
<1> QED BY <1>2, <1>3, <1>4, <1>5 DEF TemplateChanges

CountStep == BeginsOrEnds \/ EnforcePrimaryDb \/ EnforceReplicaDb \/ Environment

\* No other step is there than those of the count of instances and those aside.
LEMMA AllNextCases ==
  ASSUME Typed(AllDiffs), TemplatesTyped, [NextAll]_allVars PROVE CountStep \/ Aside
<1>1. CASE ReconcileAll
  <2>1. CASE LoadAll
    BY <2>1 DEF LoadAll, CountStep, BeginsOrEnds
  <2>2. CASE LoadFails
    BY <2>2 DEF LoadFails, CountStep, BeginsOrEnds
  <2>3. CASE EnforceServices \/ EnforceStatefulSetsSpec
    BY <2>3, ServicesAside, SpecsAside
  <2>4. CASE EnforcePrimaryDb \/ EnforceReplicaDb \/ SaveStatus \/ SaveRefused
    BY <2>4 DEF CountStep, BeginsOrEnds
  <2> QED BY <1>1, <2>1, <2>2, <2>3, <2>4 DEF ReconcileAll
<1>2. CASE CrashAll
  BY <1>2 DEF CrashAll, CountStep, BeginsOrEnds
<1>3. CASE ClusterStep \/ TimePasses
  BY <1>3 DEF ClusterStep, TimePasses, CountStep, Environment
<1>4. CASE TemplateChanges
  BY <1>4, TemplateChangesAside
<1>5. CASE UNCHANGED allVars
  BY <1>5 DEF allVars, CountStep, BeginsOrEnds
<1> QED BY <1>1, <1>2, <1>3, <1>4, <1>5 DEF NextAll

-----------------------------------------------------------------------------
(***************************************************************************)
(* A step aside keeps what was proved of the count of instances.           *)
(***************************************************************************)
\* A step aside keeps the types.
LEMMA AsideTyped == Typed(AllDiffs) /\ Aside => Typed(AllDiffs)'
<1> SUFFICES ASSUME Typed(AllDiffs), Aside PROVE Typed(AllDiffs)'
  OBVIOUS
<1>1. IsStatefulSetMap(sts')
  <2>1. ASSUME NEW i \in DOMAIN sts, NEW pod \in Pods, sts' = [sts EXCEPT ![i].pod = pod]
        PROVE  IsStatefulSetMap(sts')
    <3>1. [sts[i] EXCEPT !.pod = pod] \in StatefulSets
      BY DEF Typed, IsStatefulSetMap, StatefulSets
    <3>2. sts' = [sts EXCEPT ![i] = [sts[i] EXCEPT !.pod = pod]]
      BY <2>1
    <3> QED BY <3>1, <3>2, StatefulSetFacts, Zenon DEF Typed
  <2> QED BY <2>1 DEF Aside, SetsAPod, Typed
<1>2. budget' \in 0..MaxDisruptions
  BY HappensType DEF Aside, Typed
<1>3. outdated' \in BOOLEAN
  BY Zenon DEF Aside, Typed
<1>4. mem' \in MemType(AllDiffs)
  BY DEF Aside, SpecMem, Typed
<1> QED BY <1>1, <1>2, <1>3, <1>4 DEF Aside, Typed

\* It creates and deletes no StatefulSet, and makes no primary.
LEMMA AsideShrinks == IsStatefulSetMap(sts) /\ Aside => Shrinks /\ DOMAIN sts' = DOMAIN sts
<1> SUFFICES ASSUME IsStatefulSetMap(sts), Aside PROVE Shrinks /\ DOMAIN sts' = DOMAIN sts
  OBVIOUS
<1>1. CASE sts' = sts
  BY <1>1 DEF Shrinks
<1>2. CASE \E i \in DOMAIN sts, pod \in Pods : sts' = [sts EXCEPT ![i].pod = pod]
  BY <1>2, SetPodShrinks, Zenon
<1> QED BY <1>1, <1>2 DEF Aside, SetsAPod

\* An operation of the spec enforcer is not one on the primary.
LEMMA OwnOperationFacts ==
  ASSUME NEW op, OwnOperation(op) PROVE ~Waits(op) /\ PrimaryStep(op) /\ Timed(op)
<1>1. CASE op = NoOperation
  BY <1>1, DiffsFacts, NoOperationFacts, TimedFacts
<1>2. CASE op.id = StatefulSetSpec /\ op.step \in Steps
  <2>1. op.id # PrimaryDbCount
    BY <1>2 DEF StatefulSetSpec, PrimaryDbCount
  <2> QED BY <1>2, <2>1, TimedFacts DEF Waits, PrimaryStep
<1> QED BY <1>1, <1>2 DEF OwnOperation

\* It keeps the invariant under which there is one primary.
LEMMA AsideOnePrimary ==
  ASSUME NothingIsLost, Typed(AllDiffs), OnePrimaryInv, Aside PROVE OnePrimaryInv'
<1>1. primaries(sts') \subseteq primaries(sts)
  BY AsideShrinks DEF Shrinks, Typed
<1>2. ~outdated'
  BY Zenon DEF Aside, OnePrimaryInv, NothingIsLost
<1>3. CASE UNCHANGED <<pc, mem>>
  BY <1>1, <1>2, <1>3, FewerPrimaries DEF Aside
<1>4. CASE pc \in {"services", "specs"} /\ pc' \in {"specs", "save"} /\ mem' = mem
  <2>1. NoPrimary => NoPrimary'
    BY <1>1 DEF NoPrimary
  <2> QED BY <1>1, <1>2, <1>4, <2>1 DEF Aside, OnePrimaryInv
<1>5. CASE pc' \in {"specs", "save"} /\ SpecMem
  <2>1. ~Waits(mem'.blocking) /\ PrimaryStep(mem'.blocking) /\ mem'.changed
    BY <1>5, OwnOperationFacts DEF SpecMem
  <2> QED BY <1>1, <1>2, <1>5, <2>1 DEF Aside, OnePrimaryInv
<1> QED BY <1>3, <1>4, <1>5 DEF Aside

\* It keeps the invariant about the wait before a fail-over.
LEMMA AsideWait ==
  ASSUME WaitInv, Aside PROVE WaitInv'
<1>1. CASE UNCHANGED <<pc, mem>>
  BY <1>1 DEF Aside, WaitInv, isWaitingBeforeStartingFailOver, IsActiveOperationInTransition
<1>2. CASE pc' \in {"specs", "save"} /\ (mem' = mem \/ SpecMem)
  BY <1>2, OwnOperationFacts DEF Aside, WaitInv, SpecMem
<1> QED BY <1>1, <1>2 DEF Aside

\* It promotes no replica and deletes no instance.
LEMMA AsidePromotesNobody ==
  ASSUME Typed(AllDiffs), Aside PROVE PromotesAfterWait /\ KeepsAReadyInstance
<1>1. primaries(sts') \subseteq primaries(sts) /\ DOMAIN sts' = DOMAIN sts
  BY AsideShrinks DEF Shrinks, Typed
<1> QED BY <1>1, OneRole DEF PromotesAfterWait, KeepsAReadyInstance, OperatorDeletes

-----------------------------------------------------------------------------
(***************************************************************************)
(* The templates, the mounts and the services keep their types.            *)
(***************************************************************************)
\* A file is mounted from one of the two volumes, whatever is done to its mount.
LEMMA MountFacts ==
  /\ wantedLocations \in [ConfigKeys -> Volumes]
  /\ \A r : MountMap(templateMounts(r))
  /\ \A m : MountMap(m) => MountMap(ConfigureStatefulSet(m))
  /\ \A m : MountMap(m) => MountMap(withPromotionScript(m, wantedLocations))
<1>1. wantedLocations \in [ConfigKeys -> Volumes]
  BY DEF wantedLocations, ConfigLocations, Volumes
<1>2. PromoteKey \in ConfigKeys
  BY DEF PromoteKey, ConfigKeys
<1>3. ASSUME NEW r PROVE MountMap(templateMounts(r))
  BY DEF templateMounts, MountMap, ConfigKeys, Volumes
<1> HIDE DEF wantedLocations
<1>4. ASSUME NEW m, MountMap(m) PROVE MountMap(ConfigureStatefulSet(m))
  BY <1>1, <1>4 DEF ConfigureStatefulSet, updateVolumeMountNameIfChanged, MountMap
<1>5. ASSUME NEW m, MountMap(m) PROVE MountMap(withPromotionScript(m, wantedLocations))
  BY <1>1, <1>2, <1>5 DEF withPromotionScript, MountMap
<1> QED BY <1>1, <1>3, <1>4, <1>5

\* Behind a step of the count of instances: the templates follow.
LEMMA FollowTyped ==
  ASSUME PodsTyped, ViewTyped, NEW restarted, TemplatesFollow(restarted),
         DOMAIN sts' \subseteq DOMAIN sts \/ pc # "idle"
  PROVE  PodsTyped'
<1>0. DOMAIN sts' \subseteq DOMAIN sts \/ view.wanted \in Templates
  BY DEF ViewTyped
<1>1. deployed' \in [DOMAIN sts' -> Templates]
  BY <1>0 DEF TemplatesFollow, PodsTyped
<1>2. running' \in [DOMAIN sts' -> Templates]
  <2>1. \A i \in DOMAIN sts' : podStays(i) => i \in DOMAIN sts
    BY DEF podStays
  <2> QED BY <1>1, <2>1 DEF TemplatesFollow, PodsTyped
<1>3. DOMAIN mounts' = DOMAIN sts' /\ \A i \in DOMAIN sts' : MountMap(mounts'[i])
  <2>1. DOMAIN mounts' = DOMAIN sts'
    BY DEF TemplatesFollow
  <2>2. ASSUME NEW i \in DOMAIN sts' PROVE MountMap(mounts'[i])
    <3>1. CASE i \notin DOMAIN sts
      <4>1. i \notin promoted
        BY <3>1 DEF promoted, replicas
      <4>2. mounts'[i] = ConfigureStatefulSet(templateMounts(sts'[i].role))
        BY <3>1, <4>1 DEF TemplatesFollow
      <4> QED BY <4>2, MountFacts
    <3>2. CASE i \in DOMAIN sts /\ i \in promoted
      <4>1. mounts'[i] = withPromotionScript(mounts[i], wantedLocations)
        BY <3>2 DEF TemplatesFollow
      <4> QED BY <3>2, <4>1, MountFacts DEF PodsTyped
    <3>3. CASE i \in DOMAIN sts /\ i \notin promoted
      <4>1. mounts'[i] = mounts[i]
        BY <3>3 DEF TemplatesFollow
      <4> QED BY <3>3, <4>1 DEF PodsTyped
    <3> QED BY <3>1, <3>2, <3>3
  <2> QED BY <2>1, <2>2
<1>4. stuck' \subseteq DOMAIN sts' /\ UNCHANGED <<wanted, services>>
  BY DEF TemplatesFollow
<1> QED BY <1>1, <1>2, <1>3, <1>4 DEF PodsTyped

\* The enforcer of the StatefulSets' spec gives templates, mounts and ports that are typed.
LEMMA SpecsKeepPodsTyped ==
  ASSUME Typed(AllDiffs), TemplatesTyped, EnforceStatefulSetsSpec PROVE PodsTyped'
<1>0. ASSUME sts' = sts, UNCHANGED <<wanted, deployed, mounts, running, stuck, services>> PROVE PodsTyped'
  BY <1>0 DEF TemplatesTyped, PodsTyped
<1>1. /\ pc = "specs" => view.wanted \in Templates
      /\ PodsTyped
  BY DEF TemplatesTyped, ViewTyped
<1>2. CASE SpecsUnchanged
  BY <1>0, <1>2 DEF SpecsUnchanged, SpecEnforced
<1>3. ASSUME NEW i \in DOMAIN seen, SpecEnforcementTimedOut(i) PROVE PodsTyped'
  BY <1>0, <1>3 DEF SpecEnforcementTimedOut, SpecEnforced
<1>4. ASSUME NEW i \in DOMAIN seen, handleWhenPodSpecNotUpToDateOrNotReady(i) PROVE PodsTyped'
  BY <1>0, <1>4 DEF handleWhenPodSpecNotUpToDateOrNotReady, SpecEnforced
<1>5. ASSUME NEW i \in DOMAIN seen, enforceSpec(i) PROVE PodsTyped'
  <2>1. UNCHANGED <<sts, stuck, services, wanted>> /\ pc = "specs"
    BY <1>5, Zenon DEF enforceSpec, SpecEnforced, EnforcesSpecOf, EnforcesSpecs
  <2>2. CASE UNCHANGED <<deployed, mounts, running>>
    BY <1>0, <2>1, <2>2
  <2>3. CASE /\ i \in DOMAIN sts
             /\ deployed' = [deployed EXCEPT ![i] = view.wanted]
             /\ mounts' = [mounts EXCEPT ![i] = ConfigureStatefulSet(@)]
             /\ running' = [running EXCEPT ![i] = IF sts[i].pod = "none" THEN view.wanted ELSE @]
    <3>1. deployed' \in [DOMAIN sts -> Templates]
      BY <1>1, <2>1, <2>3, SMTT(30) DEF PodsTyped
    <3>2. running' \in [DOMAIN sts -> Templates]
      BY <1>1, <2>1, <2>3, SMTT(30) DEF PodsTyped
    <3>3. DOMAIN mounts' = DOMAIN sts /\ \A j \in DOMAIN sts : MountMap(mounts'[j])
      <4>1. MountMap(ConfigureStatefulSet(mounts[i]))
        BY <1>1, <2>3, MountFacts DEF PodsTyped
      <4> QED BY <1>1, <2>3, <4>1, SMTT(30) DEF PodsTyped
    <3> QED BY <1>1, <2>1, <3>1, <3>2, <3>3, SMTT(30) DEF PodsTyped
  <2> QED BY <1>5, <2>2, <2>3, SMTT(30) DEF enforceSpec
<1>6. ASSUME NEW i \in DOMAIN seen, handleWhenStuckPod(i) PROVE PodsTyped'
  <2>1. UNCHANGED <<deployed, mounts, services, wanted>>
    BY <1>6 DEF handleWhenStuckPod, SpecEnforced
  <2>2. CASE UNCHANGED <<sts, running, stuck>>
    BY <1>0, <2>1, <2>2
  <2>3. CASE /\ i \in DOMAIN sts
             /\ sts' = [sts EXCEPT ![i].pod = "none"]
             /\ running' = [running EXCEPT ![i] = deployed[i]]
             /\ stuck' = stuck \ {i}
    <3>1. DOMAIN sts' = DOMAIN sts
      BY <2>3
    <3>2. running' \in [DOMAIN sts -> Templates]
      BY <1>1, <2>3, SMTT(30) DEF PodsTyped
    <3> QED BY <1>1, <2>1, <2>3, <3>1, <3>2 DEF PodsTyped
  <2> QED BY <1>6, <2>2, <2>3, SMTT(30) DEF handleWhenStuckPod
<1>7. ASSUME NEW i \in DOMAIN seen, OnSpecUpdatedSuccessfully(i) PROVE PodsTyped'
  <2>1. UNCHANGED <<sts, deployed, mounts, running, stuck, wanted>>
    BY <1>7, SMTT(30) DEF OnSpecUpdatedSuccessfully, SpecEnforced
  <2>2. services' = services \/ services' = [services EXCEPT ![seen[i].role] = 0]
    BY <1>7, Zenon DEF OnSpecUpdatedSuccessfully
  <2>3. services' \in [Roles -> Nat]
    BY <1>1, <2>2 DEF PodsTyped
  <2> QED BY <1>1, <2>1, <2>3, SMTT(30) DEF PodsTyped
<1> QED BY <1>2, <1>3, <1>4, <1>5, <1>6, <1>7 DEF EnforceStatefulSetsSpec

\* The templates, mounts and services keep their types in every step.
LEMMA NextPodsTyped ==
  ASSUME Typed(AllDiffs), TemplatesTyped, [NextAll]_allVars PROVE PodsTyped'
<1>0. PodsTyped /\ ViewTyped
  BY DEF TemplatesTyped
<1>1. ASSUME NEW restarted, TemplatesFollow(restarted), DOMAIN sts' \subseteq DOMAIN sts \/ pc # "idle"
      PROVE  PodsTyped'
  BY <1>0, <1>1, FollowTyped, SMTT(30)
<1>2. ASSUME sts' = sts, UNCHANGED <<wanted, deployed, mounts, running, stuck, services>> PROVE PodsTyped'
  BY <1>0, <1>2 DEF PodsTyped
<1>3. CASE ReconcileAll
  <2>1. CASE LoadAll
    BY <1>2, <2>1 DEF LoadAll, LoadWith
  <2>2. CASE LoadFails /\ UNCHANGED templateVars
    BY <1>2, <2>2 DEF LoadFails, clusterVars, templateVars
  <2>3. CASE (EnforcePrimaryDb \/ EnforceReplicaDb) /\ TemplatesFollow(promoted)
    <3>1. pc # "idle"
      BY <2>3, PrimaryOperation, ReplicaOperation, DiffsFacts, SMTT(30)
    <3> QED BY <1>1, <2>3, <3>1, SMTT(30)
  <2>4. CASE EnforceServices
    <3>1. PICK created : \E next : ServicesEnforced(created, next)
      BY <2>4, Zenon DEF EnforceServices, deployServices, deployServicesFails
    <3>2. view.wanted.port \in Nat
      BY <1>0, <2>4, TemplateFacts DEF EnforceServices, deployServices, deployServicesFails, ViewTyped
    <3>3. services' \in [Roles -> Nat]
      BY <1>0, <3>1, <3>2 DEF ServicesEnforced, PodsTyped
    <3> QED BY <1>0, <3>1, <3>3 DEF ServicesEnforced, PodsTyped
  <2>5. CASE EnforceStatefulSetsSpec
    BY <2>5, SpecsKeepPodsTyped
  <2>6. CASE pc = "save" /\ TemplatesFollow({})
    BY <1>1, <2>6
  <2> QED BY <1>3, <2>1, <2>2, <2>3, <2>4, <2>5, <2>6 DEF ReconcileAll
<1>4. CASE CrashAll
  BY <1>1, <1>4 DEF CrashAll, Crash
<1>5. CASE ClusterStep
  BY <1>1, <1>5, EnvironmentCreatesNone DEF ClusterStep, Environment
<1>6. CASE TimePasses
  BY <1>2, <1>6 DEF TimePasses, Tick, templateVars
<1>7. CASE TemplateChanges
  <2>1. ASSUME NEW i \in DOMAIN sts, PodReplaced(i) \/ PodNotCreated(i) PROVE PodsTyped'
    BY <1>1, <2>1 DEF PodReplaced, PodNotCreated, SetPod
  <2>2. ASSUME NEW i \in DOMAIN sts, PodGetsStuck(i) PROVE PodsTyped'
    BY <1>0, <2>2 DEF PodGetsStuck, PodsTyped
  <2>3. ASSUME NEW t \in Templates, UserChangesTemplate(t) PROVE PodsTyped'
    BY <1>0, <2>3 DEF UserChangesTemplate, PodsTyped
  <2>4. ASSUME NEW r \in Roles, ServiceDeleted(r) PROVE PodsTyped'
    <3>1. services' \in [Roles -> Nat]
      BY <1>0, <2>4 DEF ServiceDeleted, PodsTyped
    <3> QED BY <1>0, <2>4, <3>1 DEF ServiceDeleted, PodsTyped
  <2> QED BY <1>7, <2>1, <2>2, <2>3, <2>4 DEF TemplateChanges
<1>8. CASE UNCHANGED allVars
  BY <1>2, <1>8 DEF allVars, clusterVars, templateVars
<1> QED BY <1>3, <1>4, <1>5, <1>6, <1>7, <1>8 DEF NextAll

\* What a reconciliation has read stays what it has read until it ends.
ViewKept == pc' = "idle" \/ (pc # "idle" /\ UNCHANGED <<seen, view>>)

\* No step but the loading changes it.
LEMMA ReadOnce ==
  ASSUME Typed(AllDiffs), [NextAll]_allVars PROVE LoadAll \/ ViewKept
<1>1. ASSUME pc' = "idle" \/ (pc # "idle" /\ UNCHANGED <<seen, view>>) PROVE ViewKept
  BY <1>1 DEF ViewKept
<1>2. ASSUME UNCHANGED <<pc, seen, view>> PROVE ViewKept
  BY <1>2 DEF ViewKept
<1>3. CASE ReconcileAll
  <2>1. CASE LoadAll
    BY <2>1
  <2>2. CASE LoadFails /\ UNCHANGED templateVars
    BY <1>2, <2>2 DEF LoadFails, clusterVars, templateVars
  <2>3. CASE EnforcePrimaryDb /\ UNCHANGED view
    <3>1. pc # "idle"
      BY <2>3, PrimaryOperation, DiffsFacts, SMTT(30)
    <3>2. seen' = seen
      BY <2>3, Zenon DEF EnforcePrimaryDb, PrimaryUnchanged, FailOverRefused, waitBeforePromotingReplicaToPrimary,
             promoteReplicaToPrimary, deployNewPrimaryStatefulSet, PrimaryEnforced
    <3> QED BY <1>1, <2>3, <3>1, <3>2
  <2>4. CASE EnforceReplicaDb /\ UNCHANGED view
    <3>1. pc # "idle"
      BY <2>4, ReplicaOperation, DiffsFacts, SMTT(30)
    <3>2. seen' = seen
      BY <2>4, Zenon DEF EnforceReplicaDb, deployReplicaStatefulSet, undeployReplicaStatefulSets,
             ReplicasUnchanged, ReplicasSkipped, ReplicasEnforced
    <3> QED BY <1>1, <2>4, <3>1, <3>2
  <2>5. CASE EnforceServices
    BY <1>1, <2>5 DEF EnforceServices, deployServices, deployServicesFails, ServicesEnforced
  <2>6. CASE EnforceStatefulSetsSpec
    <3>1. pc = "specs" /\ \E m, next : SpecEnforced(m, next)
      BY <2>6, Zenon DEF EnforceStatefulSetsSpec, SpecsUnchanged, SpecEnforcementTimedOut, enforceSpec,
             handleWhenStuckPod, handleWhenPodSpecNotUpToDateOrNotReady, OnSpecUpdatedSuccessfully,
             verifiesPodOf, EnforcesSpecOf, EnforcesSpecs
    <3> QED BY <1>1, <3>1, SMTT(30) DEF SpecEnforced
  <2>7. CASE SaveStatus \/ SaveRefused
    BY <1>1, <2>7 DEF SaveStatus, SaveRefused, EndReconciliation
  <2> QED BY <1>3, <2>1, <2>2, <2>3, <2>4, <2>5, <2>6, <2>7 DEF ReconcileAll
<1>4. CASE CrashAll
  BY <1>1, <1>4 DEF CrashAll, Crash, EndReconciliation
<1>5. CASE ClusterStep \/ TimePasses
  BY <1>2, <1>5, EnvironmentPc, SMTT(30) DEF ClusterStep, TimePasses, Environment, templateVars
<1>6. CASE TemplateChanges
  BY <1>2, <1>6, Zenon DEF TemplateChanges, PodReplaced, PodNotCreated, PodGetsStuck, UserChangesTemplate,
     ServiceDeleted, SetPod, reconcileVars
<1>7. CASE UNCHANGED allVars
  BY <1>2, <1>7 DEF allVars, clusterVars, templateVars
<1> QED BY <1>3, <1>4, <1>5, <1>6, <1>7 DEF NextAll

\* So it has the type of what was there to be read.
LEMMA NextViewTyped ==
  ASSUME Typed(AllDiffs), TemplatesTyped, [NextAll]_allVars PROVE ViewTyped'
<1>1. CASE LoadAll
  BY <1>1, Zenon DEF LoadAll, LoadWith, TemplatesTyped, PodsTyped, ViewTyped
<1>2. CASE ViewKept
  BY <1>2 DEF ViewKept, TemplatesTyped, ViewTyped
<1> QED BY <1>1, <1>2, ReadOnce

\* Where the whole reconciliation is stays one of the places there are.
LEMMA NextAllPcTyped ==
  ASSUME Typed(AllDiffs), AllPcTyped, CountStep \/ Aside PROVE AllPcTyped'
<1> USE DEF AllPcTyped
<1>1. CASE BeginsOrEnds
  BY <1>1 DEF BeginsOrEnds, LoadWith, SaveStatus, SaveRefused, Crash, EndReconciliation, clusterVars
<1>2. CASE EnforcePrimaryDb
  BY <1>2, PrimaryOperation, DiffsFacts, SMTT(30)
<1>3. CASE EnforceReplicaDb
  BY <1>3, ReplicaOperation, DiffsFacts, Zenon
<1>4. CASE Environment
  BY <1>4, EnvironmentPc
<1>5. CASE Aside
  BY <1>5 DEF Aside
<1> QED BY <1>1, <1>2, <1>3, <1>4, <1>5, SMTT(30) DEF CountStep

AllTypedInv == Typed(AllDiffs) /\ TemplatesTyped /\ AllPcTyped

\* The type invariant holds when the Kubegres resource is created.
LEMMA InitAllTyped == Init /\ TemplatesInit => AllTypedInv
<1> SUFFICES ASSUME Init, TemplatesInit PROVE AllTypedInv
  OBVIOUS
<1>1. Typed(AllDiffs) /\ AllPcTyped
  BY InitTyped, DiffsFacts, Zenon DEF Init, AllPcTyped
<1>2. ViewTyped
  BY DEF Init, ViewTyped
<1>3. DOMAIN sts = {} /\ deployed = <<>> /\ mounts = <<>> /\ running = <<>> /\ stuck = {}
  BY DEF Init, NoStatefulSets, TemplatesInit
<1>4. services \in [Roles -> Nat] /\ wanted \in Templates
  BY DEF TemplatesInit, NoServices
<1>5. DOMAIN (<<>>) = {} /\ <<>> \in [{} -> Templates]
  OBVIOUS
<1>6. PodsTyped
  BY <1>3, <1>4, <1>5 DEF PodsTyped
<1> QED BY <1>1, <1>2, <1>6 DEF AllTypedInv, TemplatesTyped

\* Every step keeps the type invariant.
LEMMA NextAllTyped == AllTypedInv /\ [NextAll]_allVars => AllTypedInv'
<1> SUFFICES ASSUME AllTypedInv, [NextAll]_allVars PROVE AllTypedInv'
  OBVIOUS
<1>1. Typed(AllDiffs) /\ TemplatesTyped /\ AllPcTyped
  BY DEF AllTypedInv
<1>2. CountStep \/ Aside
  BY <1>1, AllNextCases
<1>3. Typed(AllDiffs)'
  BY <1>1, <1>2, DiffsFacts, BeginsOrEndsTyped, PrimaryTyped, ReplicaTyped, EnvironmentTyped, AsideTyped
     DEF CountStep
<1>4. PodsTyped' /\ ViewTyped'
  BY <1>1, NextPodsTyped, NextViewTyped
<1>5. AllPcTyped'
  BY <1>1, <1>2, NextAllPcTyped
<1> QED BY <1>3, <1>4, <1>5 DEF AllTypedInv, TemplatesTyped

\* So it always holds.
LEMMA SpecAllTyped == SpecAll => []AllTypedInv
BY InitAllTyped, NextAllTyped, PTL DEF SpecAll

\* Everything stored and everything a reconciliation holds in memory stays well
\* formed with all the enforcers, whatever fails: each StatefulSet has a template, its
\* pod runs one, each of its files is mounted from one of the two volumes, and the
\* operation is one that some enforcer started (Reconcile and all its enforcers).
THEOREM AllTypeCorrect == SpecAll => []AllTypeOK
<1>1. AllTypedInv => AllTypeOK
  BY AllTyped DEF AllTypedInv
<1> QED BY <1>1, SpecAllTyped, PTL

-----------------------------------------------------------------------------
(***************************************************************************)
(* The instances and the operation, with all the enforcers.                *)
(***************************************************************************)
\* The invariant about the wait always holds, with all the enforcers.
LEMMA SpecAllWait == SpecAll => [](AllTypedInv /\ WaitInv)
<1>1. AllTypedInv /\ WaitInv /\ [NextAll]_allVars => WaitInv'
  <2> SUFFICES ASSUME AllTypedInv, WaitInv, [NextAll]_allVars PROVE WaitInv'
    OBVIOUS
  <2>1. Typed(AllDiffs) /\ (CountStep \/ Aside)
    BY AllNextCases DEF AllTypedInv
  <2> QED BY <2>1, DiffsFacts, BeginsOrEndsWait, PrimaryWait, ReplicaWait, EnvironmentWait, AsideWait
         DEF CountStep
<1> QED BY <1>1, InitWait, SpecAllTyped, PTL DEF SpecAll

\* What no step does, of the count of instances or aside of it.
LEMMA NextAllPromotesAndKeeps ==
  AllTypedInv /\ WaitInv /\ [NextAll]_allVars => PromotesAfterWait /\ KeepsAReadyInstance
<1> SUFFICES ASSUME AllTypedInv, WaitInv, [NextAll]_allVars PROVE PromotesAfterWait /\ KeepsAReadyInstance
  OBVIOUS
<1>1. Typed(AllDiffs) /\ (CountStep \/ Aside)
  BY AllNextCases DEF AllTypedInv
<1> QED BY <1>1, DiffsFacts, PrimaryPromotesAndKeeps, ReplicaPromotesAndKeeps, OthersPromoteNobody,
           AsidePromotesNobody
       DEF CountStep

\* A replica only becomes the primary when the persisted operation is the wait before
\* the fail-over, timed out, although the enforcer of the StatefulSets' spec ends and
\* starts operations in the same status, in transitions of its own
\* (isWaitingBeforeStartingFailOver, AllStatefulSetsSpecEnforcer).
THEOREM PromotionFollowsTheWaitOfAll == SpecAll => PromotionFollowsWait
<1>1. AllTypedInv /\ WaitInv /\ [NextAll]_allVars =>
        \A i \in replicas(sts) \cap primaries(sts') :
          /\ status.blocking.id = PrimaryDbCount
          /\ status.blocking.left = 0
          /\ \/ status.blocking.step = "WaitingBeforeFailingOver"
             \/ /\ status.blocking.step = Transition
                /\ status.previousBlocking.step = "WaitingBeforeFailingOver"
  BY NextAllPromotesAndKeeps DEF PromotesAfterWait, EndsWait
<1> QED BY <1>1, SpecAllWait, PTL DEF SpecAll, PromotionFollowsWait

\* The whole reconciliation too deletes an instance only when one that is ready is left,
\* unless its list is out of date: the operations of the spec enforcement, which share
\* the status and the transitions, do not make the enforcers of the primary and of the
\* replicas delete more (deletePrimaryStatefulSet, undeployReplicaStatefulSets).
THEOREM AllKeepTheLastReadyUnlessStale == SpecAll => LastReadyIsKeptUnlessStale
<1>1. AllTypedInv /\ WaitInv /\ [NextAll]_allVars =>
        (OperatorDeletes /\ ~mem.spec.standby /\ ready(seen) \subseteq ready(sts) => ready(sts') # {})
  BY NextAllPromotesAndKeeps DEF KeepsAReadyInstance
<1> QED BY <1>1, SpecAllWait, PTL DEF SpecAll, LastReadyIsKeptUnlessStale

\* So does the one about the primary, if nothing is lost.
LEMMA SpecAllOnePrimary == ASSUME NothingIsLost PROVE SpecAll => [](AllTypedInv /\ OnePrimaryInv)
<1>1. AllTypedInv /\ OnePrimaryInv /\ [NextAll]_allVars => OnePrimaryInv'
  <2> SUFFICES ASSUME AllTypedInv, OnePrimaryInv, [NextAll]_allVars PROVE OnePrimaryInv'
    OBVIOUS
  <2>1. Typed(AllDiffs) /\ (CountStep \/ Aside)
    BY AllNextCases DEF AllTypedInv
  <2> QED BY <2>1, DiffsFacts, BeginsOrEndsOnePrimary, PrimaryOnePrimary, ReplicaOnePrimary,
             EnvironmentOnePrimary, AsideOnePrimary
         DEF CountStep
<1> QED BY <1>1, InitOnePrimary, SpecAllTyped, PTL DEF SpecAll

\* There is at most one primary at any time when the specs of the StatefulSets are
\* updated and the services deployed too, as long as no status update is lost, nobody
\* edits the resource during a reconciliation and the deletion of a failing primary
\* does not fail: the other enforcers neither make a primary, nor overwrite the end of
\* a wait with a status that is not saved (EnforceSpec of all the enforcers).
THEOREM AllOnlyOnePrimaryUnlessLost ==
  ASSUME NothingIsLost PROVE SpecAll => []OnlyOnePrimary
<1>1. OnePrimaryInv => OnlyOnePrimary
  BY DEF OnePrimaryInv, OnlyOnePrimary
<1> QED BY <1>1, SpecAllOnePrimary, PTL

\* The whole reconciliation implements InstanceRoles under the same conditions: the
\* templates, the services and their enforcers change no role, and a primary is still
\* made only when none is left (EnforceSpec of all the enforcers).
THEOREM AllImplementsInstanceRoles ==
  ASSUME NothingIsLost PROVE SpecAll => InstanceRolesAreKept
<1>1. Init => Abstract!RolesInit /\ SeenInv
  BY DEF Init, Abstract!RolesInit, primaries, replicas, NoStatefulSets, SeenInv
<1>2. AllTypedInv /\ SeenInv /\ [NextAll]_allVars => SeenInv'
  <2> SUFFICES ASSUME AllTypedInv, SeenInv, [NextAll]_allVars PROVE SeenInv'
    OBVIOUS
  <2>1. Typed(AllDiffs) /\ (CountStep \/ Aside) /\ IsStatefulSetMap(sts)
    BY AllNextCases DEF AllTypedInv, Typed
  <2>2. CASE CountStep
    BY <2>1, <2>2, StepSeen, SMTT(30) DEF CountStep
  <2>3. CASE Aside
    BY <2>1, <2>3, AsideShrinks, Zenon DEF Aside, Shrinks, SeenInv
  <2> QED BY <2>1, <2>2, <2>3
<1>3. AllTypedInv /\ OnePrimaryInv /\ SeenInv /\ [NextAll]_allVars => Abstract!RolesNext
  <2> SUFFICES ASSUME AllTypedInv, OnePrimaryInv, SeenInv, [NextAll]_allVars PROVE Abstract!RolesNext
    OBVIOUS
  <2>1. Typed(AllDiffs) /\ (CountStep \/ Aside)
    BY AllNextCases DEF AllTypedInv
  <2>2. CASE CountStep
    BY <2>1, <2>2, DiffsFacts, StepRoles DEF CountStep
  <2>3. CASE Aside
    BY <2>1, <2>3, AsideShrinks DEF Typed, Shrinks, Abstract!RolesNext, Abstract!Departure
  <2> QED BY <2>1, <2>2, <2>3
<1> QED BY <1>1, <1>2, <1>3, SpecAllOnePrimary, PTL DEF SpecAll, InstanceRolesAreKept, Abstract!RolesSpec

-----------------------------------------------------------------------------
(***************************************************************************)
(* The list of the StatefulSets, which the enforcers of one reconciliation *)
(* share.  It misses an instance, or its role, only after the enforcer of  *)
(* the primary or that of the replicas has created or promoted one, and    *)
(* then their operation is the active one.                                 *)
(***************************************************************************)
Listed == primaries(sts) \subseteq primaries(seen) /\ replicas(sts) \subseteq replicas(seen)

ListInv ==
  /\ pc = "primary" => Listed
  /\ pc = "replica" => Listed \/ mem.active.id = PrimaryDbCount
  /\ pc \in {"services", "specs"} => Listed \/ mem.active.id \in {PrimaryDbCount, ReplicaDbCount}

\* The activated operation is the active one.
LEMMA ActiveId ==
  ASSUME NEW m \in MemType(AllDiffs), NEW step, NEW i
  PROVE  LET a == activateOperation(m, step, i, {})
         IN "active" \in DOMAIN a /\ a.active.id = OperationIdOf[step]
<1> DEFINE op == [createOperationObj(step, i, {}) EXCEPT !.left = TimeOut[step]]
<1>1. op.id = OperationIdOf[step]
  BY DEF createOperationObj
<1>2. activateOperation(m, step, i, {}) = [m EXCEPT !.active = op, !.blocking = op, !.changed = TRUE]
  BY DEF activateOperation, SetBlockingOperation
<1> HIDE DEF op
<1> QED BY <1>1, <1>2, Zenon DEF MemType

\* Counting the instance that was created leaves it active.
LEMMA CountersKeepActive ==
  ASSUME NEW a, "active" \in DOMAIN a, NEW n, NEW i
  PROVE  [a EXCEPT !.enforced = n, !.last = i].active = a.active /\ replicaDeployed(a, i).active = a.active
BY DEF replicaDeployed

\* The primary enforcer gives no role to anybody, or its operation is active afterwards.
LEMMA PrimaryListed ==
  ASSUME Typed(AllDiffs), ListInv, EnforcePrimaryDb PROVE ListInv'
<1>1. pc = "primary" /\ pc' \in {"replica", "save"} /\ seen' = seen
  BY Zenon DEF EnforcePrimaryDb, PrimaryUnchanged, FailOverRefused, waitBeforePromotingReplicaToPrimary,
     promoteReplicaToPrimary, deployNewPrimaryStatefulSet, failsOver, deploysPrimary, EnforcesPrimary, PrimaryEnforced
<1>2. Shrinks => ListInv'
  BY <1>1 DEF ListInv, Listed, Shrinks
<1>3. mem'.active.id = PrimaryDbCount => ListInv'
  BY <1>1 DEF ListInv
<1>4. sts' = sts => Shrinks
  BY DEF Shrinks
<1>5. reEnabled \in MemType(AllDiffs)
  BY DiffsFacts, ReEnabledFacts DEF Typed
<1>6. CASE PrimaryUnchanged \/ FailOverRefused
  BY <1>2, <1>4, <1>6 DEF PrimaryUnchanged, FailOverRefused
<1>7. CASE waitBeforePromotingReplicaToPrimary
  <2>1. sts' = sts \/ sts' = [j \in DOMAIN sts \ primaries(seen) |-> sts[j]]
    BY <1>7 DEF waitBeforePromotingReplicaToPrimary, DeletePrimary
  <2> QED BY <1>2, <1>4, <2>1, RemovalShrinks
<1>8. CASE promoteReplicaToPrimary
  <2>1. PICK i : sts' = sts \/ mem' = activateOperation(reEnabled, "FailingOver", i, {})
    BY <1>8 DEF promoteReplicaToPrimary, PrimaryEnforced
  <2>2. activateOperation(reEnabled, "FailingOver", i, {}).active.id = PrimaryDbCount
    BY <1>5, ActiveId, StepIds
  <2> QED BY <1>2, <1>3, <1>4, <2>1, <2>2, SMTT(30)
<1>9. CASE deployNewPrimaryStatefulSet
  <2>1. PICK i : \/ sts' = sts
                 \/ LET a == activateOperation(reEnabled, "PrimaryDbDeploying", i, {})
                    IN mem' = [a EXCEPT !.enforced = @ + 1, !.last = IF @ = 0 THEN 1 ELSE @]
    BY <1>9, Zenon DEF deployNewPrimaryStatefulSet, PrimaryEnforced
  <2> DEFINE a == activateOperation(reEnabled, "PrimaryDbDeploying", i, {})
  <2>2. [a EXCEPT !.enforced = @ + 1, !.last = IF @ = 0 THEN 1 ELSE @]
          = [a EXCEPT !.enforced = a.enforced + 1, !.last = IF a.last = 0 THEN 1 ELSE a.last]
    OBVIOUS
  <2>3. "active" \in DOMAIN a /\ a.active.id = PrimaryDbCount
    BY <1>5, ActiveId, StepIds
  <2>4. [a EXCEPT !.enforced = @ + 1, !.last = IF @ = 0 THEN 1 ELSE @].active = a.active
    BY <2>2, <2>3, CountersKeepActive
  <2> HIDE DEF a
  <2> QED BY <1>2, <1>3, <1>4, <2>1, <2>3, <2>4, Zenon DEF a
<1> QED BY <1>6, <1>7, <1>8, <1>9 DEF EnforcePrimaryDb

\* The replica enforcer acts on a complete list only: with the operation of the primary
\* enforcer it returns early.
LEMMA ReplicasOnCompleteList ==
  ASSUME ListInv, EnforcesReplicas PROVE Listed
BY StepIds DEF ListInv, EnforcesReplicas, IsActiveOperationIdDifferentOf, isThereActiveOperation

\* It creates a replica with its operation active, or gives no role to anybody.
LEMMA ReplicaListed ==
  ASSUME Typed(AllDiffs), ListInv, EnforceReplicaDb PROVE ListInv'
<1>1. pc = "replica" /\ pc' \in {"services", "save"} /\ seen' = seen
  BY Zenon DEF EnforceReplicaDb, deployReplicaStatefulSet, undeployReplicaStatefulSets, ReplicasUnchanged, ReplicasSkipped,
     EnforcesReplicas, ReplicasEnforced
<1>2. Listed /\ Shrinks => ListInv'
  BY <1>1 DEF ListInv, Listed, Shrinks
<1>3. mem'.active.id \in {PrimaryDbCount, ReplicaDbCount} => ListInv'
  BY <1>1, SMTT(30) DEF ListInv
<1>4. sts' = sts => Shrinks
  BY DEF Shrinks
<1>5. CASE deployReplicaStatefulSet
  <2>1. EnforcesReplicas
    BY <1>5, Zenon DEF deployReplicaStatefulSet
  <2>2. PICK r \in ResetOutcome(fixedReplica) :
          \/ sts' = sts
          \/ LET i == r.mem.last + 1
             IN mem' = replicaDeployed(activateOperation(r.mem, "ReplicaDbDeploying", i, {}), i)
    BY <1>5, ZenonT(30) DEF deployReplicaStatefulSet, ReplicasEnforced
  <2>3. r.mem \in MemType(AllDiffs)
    <3>1. fixedReplica \in MemType(AllDiffs)
      BY DiffsFacts, RemoveFacts, ZenonT(30) DEF fixedReplica, RemoveActiveOperation, Typed
    <3> QED BY <3>1, DiffsFacts, ResetFacts DEF Typed
  <2>4. ASSUME NEW i
        PROVE  replicaDeployed(activateOperation(r.mem, "ReplicaDbDeploying", i, {}), i).active.id = ReplicaDbCount
    <3> DEFINE a == activateOperation(r.mem, "ReplicaDbDeploying", i, {})
    <3>1. "active" \in DOMAIN a /\ a.active.id = ReplicaDbCount
      BY <2>3, ActiveId, StepIds
    <3> HIDE DEF a
    <3>2. replicaDeployed(a, i).active = a.active
      BY <3>1, CountersKeepActive
    <3> QED BY <3>1, <3>2, SMTT(30) DEF a
  <2> QED BY <1>2, <1>3, <1>4, <2>1, <2>2, <2>4, ReplicasOnCompleteList, SMTT(30)
<1>6. CASE undeployReplicaStatefulSets
  <2>1. EnforcesReplicas /\ (sts' = sts \/ \E i : sts' = [j \in DOMAIN sts \ {i} |-> sts[j]])
    BY <1>6, Zenon DEF undeployReplicaStatefulSets, Deleted
  <2> QED BY <1>2, <1>4, <2>1, RemovalShrinks, ReplicasOnCompleteList, Zenon
<1>7. CASE ReplicasUnchanged
  BY <1>2, <1>4, <1>7, ReplicasOnCompleteList DEF ReplicasUnchanged
<1>8. CASE ReplicasSkipped
  <2>1. sts' = sts
    BY <1>8, SMTT(30) DEF ReplicasSkipped
  <2>2. mem.active.id = PrimaryDbCount => mem' = mem
    BY <1>8, StepIds DEF ReplicasSkipped, ReplicasEnforced, hasLastReplicaAttemptTimedOut, HasActiveOperationIdTimedOut
  <2> QED BY <1>1, <1>2, <1>3, <1>4, <2>1, <2>2 DEF ListInv
<1> QED BY <1>5, <1>6, <1>7, <1>8 DEF EnforceReplicaDb

\* The enforcer of the StatefulSets' spec acts on a complete list only: with the operation
\* of another enforcer it returns early.
LEMMA SpecsOnCompleteList ==
  ASSUME ListInv, EnforcesSpecs PROVE Listed
<1>1. mem.active.id \in {"", StatefulSetSpec} /\ pc = "specs"
  BY DEF EnforcesSpecs, IsActiveOperationIdDifferentOf, isThereActiveOperation
<1> QED BY <1>1 DEF ListInv, PrimaryDbCount, ReplicaDbCount, StatefulSetSpec

\* A step aside keeps the invariant.
LEMMA AsideListed ==
  ASSUME Typed(AllDiffs), ListInv, Aside PROVE ListInv'
<1>1. Shrinks /\ seen' = seen
  BY AsideShrinks DEF Aside, Typed
<1>2. Listed => Listed'
  BY <1>1 DEF Listed, Shrinks
<1>3. CASE UNCHANGED <<pc, mem>>
  BY <1>2, <1>3 DEF ListInv
<1>4. CASE pc \in {"services", "specs"} /\ pc' \in {"specs", "save"} /\ mem' = mem
  BY <1>2, <1>4 DEF ListInv
<1>5. CASE pc \in {"services", "specs"} /\ pc' \in {"specs", "save"} /\ SpecMem
  <2>1. Listed
    BY <1>5 DEF SpecMem, ListInv, PrimaryDbCount, ReplicaDbCount, StatefulSetSpec
  <2> QED BY <1>2, <1>5, <2>1 DEF ListInv
<1> QED BY <1>3, <1>4, <1>5, SMTT(30) DEF Aside

\* So do the two ends of a reconciliation, the environment and time.
LEMMA OthersListed ==
  ASSUME Typed(AllDiffs), ListInv, BeginsOrEnds \/ Environment PROVE ListInv'
<1>1. ASSUME NEW reached, LoadWith(reached) PROVE ListInv'
  BY <1>1, SMTT(30) DEF LoadWith, ListInv, Listed
<1>2. CASE SaveStatus \/ SaveRefused \/ Crash
  BY <1>2, Zenon DEF SaveStatus, SaveRefused, Crash, EndReconciliation, ListInv
<1>3. CASE UNCHANGED clusterVars
  BY <1>3 DEF clusterVars, ListInv, Listed
<1>4. CASE Environment
  <2>1. Shrinks /\ UNCHANGED <<pc, seen>>
    BY <1>4, EnvironmentShrinks DEF Typed
  <2>2. mem'.active.id = mem.active.id
    <3>1. CASE ClusterChanges
      BY <3>1, Zenon DEF ClusterChanges, PodProgress, PodStarts, PodBecomesReady, PodFails, PodLost, SetPod,
         StatefulSetDeleted, PvcDeleted, UserChangesSpec, UserEdits, reconcileVars
    <3>2. CASE Tick
      <4>1. mem.active \in Operation(AllDiffs) /\ mem \in MemType(AllDiffs)
        BY DEF Typed, MemType
      <4>2. mem'.active = Elapse(mem.active)
        BY <3>2, <4>1 DEF Tick, MemType
      <4> QED BY <4>1, <4>2 DEF Elapse, Operation
    <3> QED BY <1>4, <3>1, <3>2 DEF Environment
  <2>3. Listed => Listed'
    BY <2>1 DEF Listed, Shrinks
  <2> QED BY <2>1, <2>2, <2>3 DEF ListInv
<1> QED BY <1>1, <1>2, <1>3, <1>4, SMTT(30) DEF BeginsOrEnds

\* Whatever the spec enforcement does to a StatefulSet or to a pod, its list is complete.
LEMMA AsideOnCompleteList ==
  ASSUME ListInv, EnforceServices \/ EnforceStatefulSetsSpec, operatorChanges PROVE Listed
<1>1. CASE EnforceServices
  BY <1>1 DEF EnforceServices, deployServices, deployServicesFails, ServicesEnforced, operatorChanges
<1>2. CASE SpecsUnchanged
  BY <1>2 DEF SpecsUnchanged, operatorChanges
<1>3. ASSUME NEW i, SpecEnforcementTimedOut(i) \/ enforceSpec(i) \/ handleWhenStuckPod(i)
                    \/ handleWhenPodSpecNotUpToDateOrNotReady(i) \/ OnSpecUpdatedSuccessfully(i)
      PROVE  EnforcesSpecs
  BY <1>3 DEF SpecEnforcementTimedOut, enforceSpec, handleWhenStuckPod, verifiesPodOf,
     handleWhenPodSpecNotUpToDateOrNotReady, OnSpecUpdatedSuccessfully, EnforcesSpecOf
<1> QED BY <1>1, <1>2, <1>3, SpecsOnCompleteList, SMTT(30) DEF EnforceStatefulSetsSpec

\* So it is when an instance is created, promoted or deleted.
LEMMA CountOnCompleteList ==
  ASSUME PodsTyped, ListInv, EnforcePrimaryDb \/ EnforceReplicaDb, TemplatesFollow(promoted), operatorChanges
  PROVE  Listed
<1>1. CASE EnforcePrimaryDb
  <2>1. pc = "primary"
    BY <1>1, Zenon DEF EnforcePrimaryDb, PrimaryUnchanged, FailOverRefused, waitBeforePromotingReplicaToPrimary,
       promoteReplicaToPrimary, deployNewPrimaryStatefulSet, failsOver, deploysPrimary, EnforcesPrimary
  <2> QED BY <2>1, SMTT(30) DEF ListInv
<1>2. CASE ReplicasSkipped
  <2>1. sts' = sts
    BY <1>2 DEF ReplicasSkipped
  <2>2. deployed' = deployed
    BY <2>1 DEF TemplatesFollow, PodsTyped
  <2> QED BY <2>1, <2>2 DEF operatorChanges
<1>3. CASE EnforceReplicaDb /\ ~ReplicasSkipped
  BY <1>3, ReplicasOnCompleteList DEF EnforceReplicaDb, deployReplicaStatefulSet, undeployReplicaStatefulSets,
     ReplicasUnchanged
<1> QED BY <1>1, <1>2, <1>3

\* The enforcers change instances only on a list that has every instance there is, in its
\* role, for any time-outs, any templates and any disruptions: with the operation of
\* another enforcer active each of them returns early, and the one who has created or
\* promoted an instance leaves its own active (activateOperation, EnforceSpec of the
\* primary, of the replicas and of the StatefulSets' spec).
THEOREM ChangesAlwaysRestOnACompleteList == SpecAll => ChangesRestOnACompleteList
<1>1. Init => ListInv
  BY DEF Init, ListInv
<1>2. AllTypedInv /\ ListInv /\ [NextAll]_allVars => ListInv'
  <2> SUFFICES ASSUME AllTypedInv, ListInv, [NextAll]_allVars PROVE ListInv'
    OBVIOUS
  <2>1. Typed(AllDiffs) /\ (CountStep \/ Aside)
    BY AllNextCases DEF AllTypedInv
  <2> QED BY <2>1, PrimaryListed, ReplicaListed, OthersListed, AsideListed DEF CountStep
<1>3. AllTypedInv /\ ListInv /\ [NextAll]_allVars =>
        (operatorChanges =>
           primaries(sts) \subseteq primaries(seen) /\ replicas(sts) \subseteq replicas(seen))
  <2> SUFFICES ASSUME AllTypedInv, ListInv, [NextAll]_allVars, operatorChanges PROVE Listed
    BY DEF Listed
  <2>1. pc # "idle" /\ pc' # pc /\ pc' # "idle"
    BY DEF operatorChanges
  <2>2. CASE ReconcileAll
    <3>1. ~LoadAll /\ ~LoadFails
      BY <2>1 DEF LoadAll, LoadWith, LoadFails
    <3>2. ~SaveStatus /\ ~SaveRefused
      BY <2>1 DEF SaveStatus, SaveRefused, EndReconciliation
    <3> QED BY <2>2, <3>1, <3>2, AsideOnCompleteList, CountOnCompleteList, SMTT(30)
            DEF ReconcileAll, AllTypedInv, TemplatesTyped
  <2>3. CASE CrashAll
    BY <2>1, <2>3 DEF CrashAll, Crash, EndReconciliation
  <2>4. CASE ClusterStep \/ TimePasses
    BY <2>1, <2>4, EnvironmentPc DEF ClusterStep, TimePasses, Environment
  <2>5. CASE TemplateChanges
    BY <2>1, <2>5, Zenon DEF TemplateChanges, PodReplaced, PodNotCreated, PodGetsStuck, SetPod,
       UserChangesTemplate, ServiceDeleted, reconcileVars
  <2>6. CASE UNCHANGED allVars
    BY <2>1, <2>6 DEF allVars, clusterVars
  <2> QED BY <2>2, <2>3, <2>4, <2>5, <2>6 DEF NextAll
<1> QED BY <1>1, <1>2, <1>3, SpecAllTyped, PTL DEF SpecAll, ChangesRestOnACompleteList

-----------------------------------------------------------------------------
(***************************************************************************)
(* The mounts and their volumes.  updateVolumeMountNameIfChanged does not  *)
(* touch the mount of the promotion script, which a promotion adds: if a   *)
(* custom config map had that script, the mount would keep naming its      *)
(* volume after the spec is set back to the base config map.  So it is     *)
(* assumed that none has, and the invariant says that the script is always *)
(* mounted from the base config map.                                       *)
(***************************************************************************)
NoCustomPromotion == \A c \in DOMAIN ConfigData : PromoteKey \notin ConfigData[c]

VolumesOf(m, t) ==
  /\ \A k \in DOMAIN m : m[k] = "custom-config" => t.config # BaseConfig
  /\ PromoteKey \in DOMAIN m => m[PromoteKey] = "base-config"

MountsInv == \A i \in DOMAIN sts : VolumesOf(mounts[i], deployed[i])

\* The mounts of a created, an updated and a promoted StatefulSet.
LEMMA VolumeFacts ==
  ASSUME NoCustomPromotion
  PROVE  /\ \A r : VolumesOf(ConfigureStatefulSet(templateMounts(r)), view.wanted)
         /\ \A m, t : MountMap(m) /\ VolumesOf(m, t) => VolumesOf(ConfigureStatefulSet(m), view.wanted)
         /\ \A m, t : VolumesOf(m, t) => VolumesOf(withPromotionScript(m, wantedLocations), t)
<1>1. /\ \A k \in ConfigKeys : wantedLocations[k] = "custom-config" => view.wanted.config # BaseConfig
      /\ wantedLocations[PromoteKey] = "base-config"
  <2>1. PromoteKey \in ConfigKeys
    BY DEF PromoteKey, ConfigKeys
  <2> QED BY <2>1 DEF wantedLocations, ConfigLocations, IsCustomConfigDeployed, NoCustomPromotion
<1> HIDE DEF wantedLocations
<1>2. ASSUME NEW r PROVE VolumesOf(ConfigureStatefulSet(templateMounts(r)), view.wanted)
  <2> DEFINE m == templateMounts(r)
  <2>1. DOMAIN m \subseteq ConfigKeys /\ PromoteKey \notin DOMAIN m
    BY DEF templateMounts, ConfigKeys, PromoteKey
  <2> HIDE DEF m
  <2>2. VolumesOf(ConfigureStatefulSet(m), view.wanted)
    BY <1>1, <2>1 DEF VolumesOf, ConfigureStatefulSet, updateVolumeMountNameIfChanged
  <2> QED BY <2>2 DEF m
<1>3. ASSUME NEW m, NEW t, MountMap(m), VolumesOf(m, t)
      PROVE  VolumesOf(ConfigureStatefulSet(m), view.wanted)
  BY <1>1, <1>3, SMTT(30) DEF MountMap, VolumesOf, ConfigureStatefulSet, updateVolumeMountNameIfChanged
<1>4. ASSUME NEW m, NEW t, VolumesOf(m, t) PROVE VolumesOf(withPromotionScript(m, wantedLocations), t)
  BY <1>1, <1>4 DEF VolumesOf, withPromotionScript
<1> QED BY <1>2, <1>3, <1>4

\* Behind a step of the count of instances.
LEMMA FollowMounts ==
  ASSUME NoCustomPromotion, MountsInv, NEW restarted, TemplatesFollow(restarted) PROVE MountsInv'
<1> SUFFICES ASSUME NEW i \in DOMAIN sts' PROVE VolumesOf(mounts'[i], deployed'[i])
  BY SMTT(30) DEF MountsInv
<1>1. CASE i \notin DOMAIN sts
  <2>1. i \notin promoted
    BY <1>1 DEF promoted, replicas
  <2>2. mounts'[i] = ConfigureStatefulSet(templateMounts(sts'[i].role)) /\ deployed'[i] = view.wanted
    BY <1>1, <2>1, SMTT(30) DEF TemplatesFollow
  <2> QED BY <2>2, VolumeFacts, Zenon
<1>2. CASE i \in DOMAIN sts /\ i \in promoted
  <2>1. mounts'[i] = withPromotionScript(mounts[i], wantedLocations) /\ deployed'[i] = deployed[i]
    BY <1>2, SMTT(30) DEF TemplatesFollow
  <2> QED BY <1>2, <2>1, VolumeFacts, Zenon DEF MountsInv
<1>3. CASE i \in DOMAIN sts /\ i \notin promoted
  <2>1. mounts'[i] = mounts[i] /\ deployed'[i] = deployed[i]
    BY <1>3 DEF TemplatesFollow
  <2> QED BY <1>3, <2>1 DEF MountsInv
<1> QED BY <1>1, <1>2, <1>3

\* Every step keeps the mounts in the volumes of their templates.
LEMMA NextMounts ==
  ASSUME NoCustomPromotion, PodsTyped, MountsInv, [NextAll]_allVars PROVE MountsInv'
<1>1. ASSUME \E restarted : TemplatesFollow(restarted) PROVE MountsInv'
  BY <1>1, FollowMounts
<1>2. ASSUME DOMAIN sts' = DOMAIN sts, UNCHANGED <<deployed, mounts>> PROVE MountsInv'
  BY <1>2 DEF MountsInv
<1>3. CASE ReconcileAll
  <2>1. CASE LoadAll
    BY <1>2, <2>1 DEF LoadAll, LoadWith
  <2>2. CASE LoadFails /\ UNCHANGED templateVars
    BY <1>2, <2>2 DEF LoadFails, clusterVars, templateVars
  <2>3. CASE \E restarted : TemplatesFollow(restarted)
    BY <1>1, <2>3, SMTT(30)
  <2>4. CASE EnforceServices
    BY <1>2, <2>4, Zenon DEF EnforceServices, deployServices, deployServicesFails, ServicesEnforced
  <2>5. CASE EnforceStatefulSetsSpec
    <3>1. ASSUME NEW i \in DOMAIN seen, enforceSpec(i) PROVE MountsInv'
      <4>1. sts' = sts
        BY <3>1, Zenon DEF enforceSpec
      <4>2. CASE UNCHANGED <<deployed, mounts>>
        BY <1>2, <4>1, <4>2, SMTT(30)
      <4>3. CASE /\ i \in DOMAIN sts
                 /\ deployed' = [deployed EXCEPT ![i] = view.wanted]
                 /\ mounts' = [mounts EXCEPT ![i] = ConfigureStatefulSet(@)]
        <5>1. VolumesOf(ConfigureStatefulSet(mounts[i]), view.wanted)
          BY <4>3, VolumeFacts, Zenon DEF MountsInv, PodsTyped
        <5> QED BY <4>1, <4>3, <5>1, SMTT(30) DEF MountsInv, PodsTyped
      <4> QED BY <3>1, <4>2, <4>3, Zenon DEF enforceSpec
    <3>2. ASSUME NEW i \in DOMAIN seen, handleWhenStuckPod(i) PROVE MountsInv'
      BY <1>2, <3>2 DEF handleWhenStuckPod
    <3>3. CASE SpecsUnchanged
      BY <1>2, <3>3, SMTT(30) DEF SpecsUnchanged
    <3>4. ASSUME NEW i \in DOMAIN seen,
                 \/ SpecEnforcementTimedOut(i) \/ handleWhenPodSpecNotUpToDateOrNotReady(i)
                 \/ OnSpecUpdatedSuccessfully(i)
          PROVE  MountsInv'
      BY <1>2, <3>4, Zenon DEF SpecEnforcementTimedOut, handleWhenPodSpecNotUpToDateOrNotReady,
         OnSpecUpdatedSuccessfully
    <3> QED BY <2>5, <3>1, <3>2, <3>3, <3>4, SMTT(30) DEF EnforceStatefulSetsSpec
  <2> QED BY <1>3, <2>1, <2>2, <2>3, <2>4, <2>5, SMTT(30) DEF ReconcileAll
<1>4. CASE CrashAll \/ ClusterStep
  BY <1>1, <1>4 DEF CrashAll, ClusterStep
<1>5. CASE TimePasses
  BY <1>2, <1>5, SMTT(30) DEF TimePasses, Tick, templateVars
<1>6. CASE TemplateChanges
  BY <1>1, <1>2, <1>6, Zenon DEF TemplateChanges, PodReplaced, PodNotCreated, PodGetsStuck,
     UserChangesTemplate, ServiceDeleted
<1>7. CASE UNCHANGED allVars
  BY <1>2, <1>7 DEF allVars, clusterVars, templateVars
<1> QED BY <1>3, <1>4, <1>5, <1>6, <1>7 DEF NextAll

\* Whatever the custom config maps hold, unless one holds the promotion script, and
\* however often the spec names another one, a StatefulSet has the volumes that its pod
\* mounts (CustomConfigSpecHelper.ConfigureStatefulSet, promoteReplicaToPrimary): no pod is
\* left waiting for a volume that its template lacks.
THEOREM MountsAlwaysHaveVolumes ==
  ASSUME NoCustomPromotion PROVE SpecAll => []MountsHaveVolumes
<1>1. Init => MountsInv
  BY DEF Init, NoStatefulSets, MountsInv
<1>2. AllTypedInv /\ MountsInv /\ [NextAll]_allVars => MountsInv'
  BY NextMounts DEF AllTypedInv, TemplatesTyped
<1>3. MountsInv => MountsHaveVolumes
  BY DEF MountsInv, MountsHaveVolumes, volumesExist, VolumesOf
<1> QED BY <1>1, <1>2, <1>3, SpecAllTyped, PTL DEF SpecAll

-----------------------------------------------------------------------------
(***************************************************************************)
(* The order of the updates.  A reconciliation decides with the templates  *)
(* it has read, while StatefulSets are deleted and created: those that are *)
(* still there have the template that was read or the wanted one.          *)
(***************************************************************************)
OrderInv == pc # "idle" =>
  /\ view.deployed \in [DOMAIN seen -> Templates]
  /\ \A j \in DOMAIN sts \cap DOMAIN seen : deployed[j] \in {view.deployed[j], view.wanted}

\* A template without differences from the wanted one is the wanted one.
LEMMA NoDifference ==
  ASSUME NEW t \in Templates, NEW w \in Templates, CheckForSpecDifferences(t, w) = {} PROVE t = w
<1>1. \A f \in DOMAIN w : t[f] = w[f]
  BY Zenon DEF CheckForSpecDifferences
<1>2. t.image = w.image /\ t.port = w.port /\ t.config = w.config
  BY <1>1, TemplateFacts
<1>3. t \in [image: Nat \ {0}, port: Nat \ {0}, config: {BaseConfig} \cup DOMAIN ConfigData]
  BY TemplateAssumption
<1>4. w \in [image: Nat \ {0}, port: Nat \ {0}, config: {BaseConfig} \cup DOMAIN ConfigData]
  BY TemplateAssumption
<1> QED BY <1>2, <1>3, <1>4

\* A StatefulSet keeps its template, or it gets the wanted one: when it is created, and
\* when the enforcer of the StatefulSets' spec updates it.
KeepsTemplate(i) == i \in DOMAIN sts /\ deployed'[i] = deployed[i]
GetsTemplate(i) ==
  /\ deployed'[i] = view.wanted
  /\ i \notin DOMAIN sts \/ (i \in DOMAIN seen /\ enforceSpec(i))

\* No step does anything else to a template.
LEMMA TemplateSteps ==
  ASSUME PodsTyped, [NextAll]_allVars, NEW i \in DOMAIN sts' PROVE KeepsTemplate(i) \/ GetsTemplate(i)
<1>1. ASSUME \E restarted : TemplatesFollow(restarted) PROVE KeepsTemplate(i) \/ GetsTemplate(i)
  BY <1>1 DEF TemplatesFollow, KeepsTemplate, GetsTemplate
<1>2. ASSUME DOMAIN sts' = DOMAIN sts, UNCHANGED deployed PROVE KeepsTemplate(i)
  BY <1>2 DEF KeepsTemplate
<1>3. CASE ReconcileAll
  <2>1. CASE LoadAll
    BY <1>2, <2>1 DEF LoadAll, LoadWith
  <2>2. CASE LoadFails /\ UNCHANGED templateVars
    BY <1>2, <2>2 DEF LoadFails, clusterVars, templateVars
  <2>3. CASE \E restarted : TemplatesFollow(restarted)
    BY <1>1, <2>3, SMTT(30)
  <2>4. CASE EnforceServices
    BY <1>2, <2>4, Zenon DEF EnforceServices, deployServices, deployServicesFails, ServicesEnforced
  <2>5. CASE EnforceStatefulSetsSpec
    <3>1. ASSUME NEW k \in DOMAIN seen, enforceSpec(k) PROVE KeepsTemplate(i) \/ GetsTemplate(i)
      <4>1. sts' = sts
        BY <3>1, ZenonT(30) DEF enforceSpec
      <4>2. deployed' = deployed \/ deployed' = [deployed EXCEPT ![k] = view.wanted]
        BY <3>1, Zenon DEF enforceSpec
      <4> QED BY <3>1, <4>1, <4>2, SMTT(30) DEF PodsTyped, KeepsTemplate, GetsTemplate
    <3>2. ASSUME NEW k \in DOMAIN seen, handleWhenStuckPod(k) PROVE KeepsTemplate(i)
      BY <1>2, <3>2 DEF handleWhenStuckPod
    <3>3. CASE SpecsUnchanged
      BY <1>2, <3>3, SMTT(30) DEF SpecsUnchanged
    <3>4. ASSUME NEW k \in DOMAIN seen,
                 \/ SpecEnforcementTimedOut(k) \/ handleWhenPodSpecNotUpToDateOrNotReady(k)
                 \/ OnSpecUpdatedSuccessfully(k)
          PROVE  KeepsTemplate(i)
      BY <1>2, <3>4, Zenon DEF SpecEnforcementTimedOut, handleWhenPodSpecNotUpToDateOrNotReady,
         OnSpecUpdatedSuccessfully
    <3> QED BY <2>5, <3>1, <3>2, <3>3, <3>4, SMTT(30) DEF EnforceStatefulSetsSpec
  <2> QED BY <1>3, <2>1, <2>2, <2>3, <2>4, <2>5, SMTT(30) DEF ReconcileAll
<1>4. CASE CrashAll \/ ClusterStep
  BY <1>1, <1>4 DEF CrashAll, ClusterStep
<1>5. CASE TimePasses
  BY <1>2, <1>5, SMTT(30) DEF TimePasses, Tick, templateVars
<1>6. CASE TemplateChanges
  BY <1>1, <1>2, <1>6, Zenon DEF TemplateChanges, PodReplaced, PodNotCreated, PodGetsStuck,
     UserChangesTemplate, ServiceDeleted
<1>7. CASE UNCHANGED allVars
  BY <1>2, <1>7 DEF allVars, clusterVars, templateVars
<1> QED BY <1>3, <1>4, <1>5, <1>6, <1>7 DEF NextAll

\* What was read stays close to what is there.
LEMMA NextOrder ==
  ASSUME Typed(AllDiffs), PodsTyped, OrderInv, [NextAll]_allVars PROVE OrderInv'
<1>1. CASE LoadAll
  BY <1>1, Zenon DEF LoadAll, LoadWith, PodsTyped, OrderInv
<1>2. CASE ViewKept
  <2>1. CASE pc' = "idle"
    BY <2>1, SMTT(30) DEF OrderInv
  <2>2. CASE pc # "idle" /\ UNCHANGED <<seen, view>>
    <3>1. ASSUME NEW j \in DOMAIN sts' \cap DOMAIN seen PROVE deployed'[j] \in {view.deployed[j], view.wanted}
      BY <2>2, TemplateSteps, Zenon DEF KeepsTemplate, GetsTemplate, OrderInv
    <3> QED BY <2>2, <3>1, SMTT(30) DEF OrderInv
  <2> QED BY <1>2, <2>1, <2>2 DEF ViewKept
<1> QED BY <1>1, <1>2, ReadOnce, SMTT(30)

\* Where EnforceSpec is, it has not stopped at those before.
LEMMA NothingStopsBefore ==
  ASSUME Typed(AllDiffs), NEW i \in DOMAIN seen, EnforcesSpecOf(i), NEW j \in DOMAIN seen, comesBefore(j, i)
  PROVE  j \in getAllReverseSortedByInstanceIndex /\ ~stopsAt(j)
<1>1. i \in Nat /\ j \in Nat
  BY DEF Typed, IsStatefulSetMap
<1>2. j # i /\ ~comesBefore(i, j)
  <2>1. CASE seen[j].role = "replica" /\ seen[i].role = "primary"
    <3>1. seen[i].role # seen[j].role /\ seen[i].role # "replica"
      BY <2>1, SMTT(30)
    <3> QED BY <3>1 DEF comesBefore
  <2>2. CASE seen[j].role = seen[i].role /\ j > i
    <3>1. j # i /\ ~(i > j)
      BY <1>1, <2>2
    <3>2. ~(seen[i].role = "replica" /\ seen[j].role = "primary")
      BY <2>2, SMTT(30)
    <3> QED BY <3>1, <3>2 DEF comesBefore
  <2> QED BY <2>1, <2>2 DEF comesBefore
<1>3. j \in getAllReverseSortedByInstanceIndex
  BY DEF EnforcesSpecOf, getAllReverseSortedByInstanceIndex, comesBefore, replicas
<1> QED BY <1>2, <1>3 DEF EnforcesSpecOf

\* Where it updates a StatefulSet, those before have the wanted template.
LEMMA UpdateIsInOrder ==
  ASSUME Typed(AllDiffs), TemplatesTyped, OrderInv, NEW i \in DOMAIN seen, enforceSpec(i),
         NEW j \in DOMAIN seen, comesBefore(j, i)
  PROVE  ~stopsAt(j) /\ view.deployed[j] = view.wanted /\ (j \in DOMAIN sts => deployed[j] = view.wanted)
<1>1. EnforcesSpecOf(i) /\ pc = "specs"
  BY Zenon DEF enforceSpec, EnforcesSpecOf, EnforcesSpecs
<1>2. ~stopsAt(j)
  BY <1>1, NothingStopsBefore, SMTT(30)
<1>3. view.deployed[j] = view.wanted
  <2>1. view.deployed[j] \in Templates /\ view.wanted \in Templates
    BY <1>1, Zenon DEF OrderInv, TemplatesTyped, ViewTyped
  <2> QED BY <1>2, <2>1, NoDifference, SMTT(30) DEF stopsAt, specDifferences
<1> QED BY <1>1, <1>2, <1>3, SMTT(30) DEF OrderInv

\* A changed spec reaches the StatefulSets in the order of
\* GetAllReverseSortedByInstanceIndex, the primary last: when EnforceSpec updates one,
\* each of those before it that still exists has the new template, for any number of
\* instances, whatever fails and whatever is deleted and created while it decides.
THEOREM TemplatesAlwaysFollowTheOrder == SpecAll => TemplatesFollowTheOrder
<1>1. Init => OrderInv
  BY DEF Init, OrderInv
<1>2. AllTypedInv /\ OrderInv /\ [NextAll]_allVars => OrderInv'
  BY NextOrder, SMTT(30) DEF AllTypedInv, TemplatesTyped
<1>3. AllTypedInv /\ OrderInv /\ [NextAll]_allVars =>
        \A i \in DOMAIN sts : operatorUpdates(i) =>
          \A j \in DOMAIN sts \cap DOMAIN seen : comesBefore(j, i) => deployed[j] = view.wanted
  <2> SUFFICES ASSUME AllTypedInv, OrderInv, [NextAll]_allVars, NEW i \in DOMAIN sts, operatorUpdates(i),
                      NEW j \in DOMAIN sts \cap DOMAIN seen, comesBefore(j, i)
               PROVE  deployed[j] = view.wanted
    OBVIOUS
  <2>1. Typed(AllDiffs) /\ TemplatesTyped /\ PodsTyped
    BY SMTT(30) DEF AllTypedInv, TemplatesTyped
  <2>2. i \in DOMAIN seen /\ enforceSpec(i)
    BY <2>1, TemplateSteps, Zenon DEF operatorUpdates, KeepsTemplate, GetsTemplate
  <2> QED BY <2>1, <2>2, UpdateIsInOrder, SMTT(30)
<1> QED BY <1>1, <1>2, <1>3, SpecAllTyped, PTL DEF SpecAll, TemplatesFollowTheOrder
=============================================================================
