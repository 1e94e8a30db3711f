---------------------------- MODULE PodUpdatesProofs --------------------------
(***************************************************************************)
(* How far a changed spec gets, for any time-outs, any numbers of replicas,*)
(* any templates and any number of disruptions.  This depends on the one   *)
(* operation in the status, which must say which replica is not settled: a *)
(* replica is held back, and as long as it is, the operation is about it.  *)
(* B is the set of the images that hold a replica back whatever its pod    *)
(* runs: none for the order of the updates, the broken ones for what stops *)
(* at the replicas.                                                        *)
(*                                                                         *)
(* Here: the invariant, and the steps that hold no further replica back,   *)
(* those of Kubernetes, of the pods, of the users and of time.             *)
(***************************************************************************)
EXTENDS KubegresProofs

\* A replica has the wanted template and its pod does not run it, or cannot.
unsettled(B, d, r, w) == d = w /\ (w.image \in B \/ r.image # w.image \/ r.port # w.port)

HeldBack(B, s, d, r, w) ==
  {i \in replicas(s) : unsettled(B, d[i], r[i], w) \/ (B # {} /\ s[i].pod = "none")}

held(B) == HeldBack(B, sts, deployed, running, wanted)
heldWhenRead(B) == HeldBack(B, seen, view.deployed, view.running, view.wanted)

\* The operation of the spec enforcer is about i and will not end before its pod is verified.
Verifies(op, prev, i) ==
  /\ op.id = StatefulSetSpec
  /\ \/ op.step = "SpecUpdating" /\ op.idx = i /\ op.left > 0
     \/ op.step = "PodSpecUpdating" /\ op.idx = i /\ op.diff = {}
     \/ op.step = Transition /\ prev.idx = i /\ ~op.timedOut

\* The replicas before i have the template: EnforceSpec does not stop before i.
IsLast(s, d, w, i) == s[i].pod # "none" /\ \A k \in replicas(s) : k > i => d[k] = w

HeldBy(op, prev, s, d, r, w, i) ==
  \/ Deploys(op, i) /\ r[i] = d[i]
  \/ Verifies(op, prev, i) /\ IsLast(s, d, w, i)

\* What makes EnforceSpec stop at i: the attempt timed out, or the operation is in transition.
Checks(m, i) ==
  /\ m.active.id = StatefulSetSpec /\ m.blocking.id = StatefulSetSpec
  /\ \/ /\ m.active.step = "PodSpecUpdating" /\ m.active.timedOut
        /\ m.active.idx = i /\ m.active.diff = {}
     \/ m.active.step = Transition /\ ~m.active.timedOut /\ m.previous.idx = i

(***************************************************************************)
(* The inductive invariant: what is true of the pods and of what was read, *)
(* that the operation is about the replica that is held back (in memory    *)
(* and, until the status is changed, in the status), and that a            *)
(* reconciliation that gets to the enforcers has read it so.               *)
(***************************************************************************)
PodsInv ==
  /\ \A i \in DOMAIN sts : sts[i].pod = "none" => running[i] = deployed[i]
  /\ \A i \in replicas(sts) \cap ready(sts) : running[i].image \notin BrokenImages

ReadInv == pc # "idle" =>
  /\ view.wanted = wanted
  /\ \A k \in replicas(sts) : k \in replicas(seen) \/ deployed[k] = view.wanted
  /\ \A i \in replicas(seen) \cap ready(seen) : view.running[i].image \notin BrokenImages
  /\ \A i, j \in primaries(seen) : i = j

StuckInv(B) == B # {} => stuck = {} /\ (pc # "idle" => view.stuck = {})

ReplicaMounts(m, t) ==
  PromoteKey \notin DOMAIN m /\ \A k \in DOMAIN m : m[k] = "custom-config" => t.config # BaseConfig

ReplicaMountsInv == \A i \in replicas(sts) : ReplicaMounts(mounts[i], deployed[i])

HeldInv(B) == \A i \in held(B) :
  /\ pc # "idle" =>
       HeldBy(mem.blocking, mem.previousBlocking, sts, deployed, running, wanted, i)
  /\ pc = "idle" \/ ~mem.changed =>
       HeldBy(status.blocking, status.previousBlocking, sts, deployed, running, wanted, i)

Decides == {"primary", "replica", "services", "specs"}

DecidesInv(B) == pc \in Decides =>
  /\ \A i \in held(B) : i \in heldWhenRead(B) \/ (pc \in {"services", "specs"} /\ Deploys(mem.active, i))
  /\ \A i \in heldWhenRead(B) :
       \/ Deploys(mem.active, i) /\ mem.active.timedOut /\ i \notin ready(seen)
       \/ Checks(mem, i) /\ IsLast(seen, view.deployed, view.wanted, i)

(***************************************************************************)
(* The conditions.  Pods are not slow: a spec operation times out only     *)
(* when no pod has anything left to do, and the update of a StatefulSet is *)
(* noticed before its time is over.  For the order of the updates the      *)
(* deletion of a stuck pod must not fail; for the broken images, no pod    *)
(* may be missing and none gets stuck, which both end the verification.    *)
(***************************************************************************)
PodsAreInTime == "slowPods" \notin Disruptions /\ SpecSettle < TimeOut["SpecUpdating"]

PodsStay(B) ==
  /\ B = {} => "deletePodFails" \notin Disruptions
  /\ B # {} => {"podLost", "podMissing", "podGetsStuck"} \cap Disruptions = {}

\* A user does not return to a template with which a replica has not settled.
NoEarlyReturn(B) ==
  wanted' # wanted => \A i \in replicas(sts) : ~unsettled(B, deployed[i], running[i], wanted')

-----------------------------------------------------------------------------
(***************************************************************************)
(* The replicas, their templates and their pods in each step.              *)
(***************************************************************************)
\* A pod changes: roles and other pods do not.
LEMMA PodChange ==
  ASSUME IsStatefulSetMap(sts), NEW i \in DOMAIN sts, NEW pod, sts' = [sts EXCEPT ![i].pod = pod]
  PROVE  /\ DOMAIN sts' = DOMAIN sts /\ replicas(sts') = replicas(sts)
         /\ sts'[i].pod = pod /\ \A j \in DOMAIN sts \ {i} : sts'[j] = sts[j]
<1>1. sts' = [sts EXCEPT ![i] = [sts[i] EXCEPT !.pod = pod]]
  OBVIOUS
<1>2. sts[i] \in StatefulSets
  BY DEF IsStatefulSetMap
<1>3. [sts[i] EXCEPT !.pod = pod].role = sts[i].role /\ [sts[i] EXCEPT !.pod = pod].pod = pod
  BY <1>2 DEF StatefulSets
<1>4. DOMAIN sts' = DOMAIN sts /\ \A j \in DOMAIN sts : sts'[j].role = sts[j].role
  BY <1>1, <1>3 DEF IsStatefulSetMap
<1> QED BY <1>1, <1>3, <1>4, Zenon DEF IsStatefulSetMap, replicas

\* The primary enforcer makes no replica and does nothing to one but promote it.
LEMMA PrimaryKeepsReplicas ==
  ASSUME IsStatefulSetMap(sts), EnforcePrimaryDb, NEW i \in replicas(sts')
  PROVE  i \in replicas(sts) /\ sts'[i] = sts[i]
<1>1. i \in DOMAIN sts' /\ sts'[i].role = "replica"
  BY DEF replicas
<1>2. ASSUME i \in DOMAIN sts, sts'[i] = sts[i] PROVE i \in replicas(sts) /\ sts'[i] = sts[i]
  BY <1>1, <1>2 DEF replicas
<1>3. CASE sts' = sts
  BY <1>1, <1>2, <1>3
<1>4. CASE \E S : sts' = [j \in DOMAIN sts \ S |-> sts[j]]
  BY <1>1, <1>2, <1>4
<1>5. CASE \E k \in DOMAIN sts : \E pod : sts' = [sts EXCEPT ![k] = [role |-> "primary", pod |-> pod]]
  BY <1>1, <1>2, <1>5 DEF IsStatefulSetMap
<1>6. CASE \E k : sts' = Created(k, "primary")
  BY <1>1, <1>2, <1>6 DEF Created
<1>7. CASE PrimaryUnchanged \/ FailOverRefused
  BY <1>3, <1>7 DEF PrimaryUnchanged, FailOverRefused
<1>8. CASE waitBeforePromotingReplicaToPrimary
  BY <1>3, <1>4, <1>8, Zenon DEF waitBeforePromotingReplicaToPrimary, DeletePrimary
<1>9. CASE promoteReplicaToPrimary
  BY <1>3, <1>5, <1>9 DEF promoteReplicaToPrimary
<1>10. CASE deployNewPrimaryStatefulSet
  BY <1>3, <1>6, <1>10 DEF deployNewPrimaryStatefulSet
<1> QED BY <1>7, <1>8, <1>9, <1>10 DEF EnforcePrimaryDb

\* The replica enforcer leaves the replicas that it keeps as they are.
LEMMA ReplicaKeepsReplicas ==
  ASSUME EnforceReplicaDb, NEW i \in replicas(sts'), i \in DOMAIN sts
  PROVE  i \in replicas(sts) /\ sts'[i] = sts[i]
<1>1. i \in DOMAIN sts' /\ sts'[i].role = "replica"
  BY DEF replicas
<1>2. ASSUME sts'[i] = sts[i] PROVE i \in replicas(sts) /\ sts'[i] = sts[i]
  BY <1>1, <1>2 DEF replicas
<1>3. CASE deployReplicaStatefulSet
  <2>1. sts' = sts \/ \E k : k \notin DOMAIN sts /\ sts' = Created(k, "replica")
    BY <1>3 DEF deployReplicaStatefulSet
  <2> QED BY <1>1, <1>2, <2>1, Zenon DEF Created
<1>4. CASE undeployReplicaStatefulSets
  <2>1. sts' = sts \/ \E k : sts' = Deleted(k)
    BY <1>4 DEF undeployReplicaStatefulSets
  <2> QED BY <1>1, <1>2, <2>1, Zenon DEF Deleted
<1>5. CASE ReplicasUnchanged \/ ReplicasSkipped
  BY <1>2, <1>5 DEF ReplicasUnchanged, ReplicasSkipped
<1> QED BY <1>3, <1>4, <1>5 DEF EnforceReplicaDb

\* No primary becomes a replica: what is a replica was one, or was just created.
LEMMA ReplicasAreOld ==
  ASSUME Typed(AllDiffs), TemplatesTyped, [NextAll]_allVars, NEW i \in replicas(sts'), i \in DOMAIN sts
  PROVE  i \in replicas(sts)
<1>1. IsStatefulSetMap(sts) /\ (CountStep \/ Aside)
  BY AllNextCases DEF Typed
<1>2. CASE EnforcePrimaryDb
  BY <1>1, <1>2, PrimaryKeepsReplicas
<1>3. CASE EnforceReplicaDb
  BY <1>3, ReplicaKeepsReplicas
<1>4. CASE BeginsOrEnds
  BY <1>4, BeginsOrEndsKeeps
<1>5. CASE Environment
  BY <1>1, <1>5, EnvironmentShrinks DEF Shrinks
<1>6. CASE Aside
  BY <1>1, <1>6, AsideShrinks DEF Shrinks
<1> QED BY <1>1, <1>2, <1>3, <1>4, <1>5, <1>6 DEF CountStep

\* Behind a step of the count of instances.
LEMMA FollowPods ==
  ASSUME PodsInv, NEW restarted, TemplatesFollow(restarted),
         \A i \in replicas(sts') \cap ready(sts') :
           /\ i \in replicas(sts) /\ i \notin restarted
           /\ i \in ready(sts) \/ (sts[i].pod = "unready" /\ running[i].image \notin BrokenImages)
  PROVE  PodsInv'
<1>1. ASSUME NEW i \in DOMAIN sts', sts'[i].pod = "none" PROVE running'[i] = deployed'[i]
  BY <1>1 DEF TemplatesFollow, podStays
<1>2. ASSUME NEW i \in replicas(sts') \cap ready(sts') PROVE running'[i].image \notin BrokenImages
  <2>1. i \in DOMAIN sts' /\ i \in DOMAIN sts /\ sts'[i].pod # "none" /\ sts[i].pod # "none"
    BY DEF replicas, ready
  <2>2. running'[i] = running[i]
    BY <2>1 DEF TemplatesFollow, podStays
  <2> QED BY <2>2 DEF PodsInv
<1> QED BY <1>1, <1>2 DEF PodsInv

\* The same when no pod of a replica becomes ready.
LEMMA FollowSamePods ==
  ASSUME PodsInv, NEW restarted, TemplatesFollow(restarted),
         \A i \in replicas(sts') \cap ready(sts') : i \in replicas(sts) \cap ready(sts) /\ i \notin restarted
  PROVE  PodsInv'
BY FollowPods

\* A pod goes down.
LEMMA FollowPodDown ==
  ASSUME IsStatefulSetMap(sts), PodsInv, NEW i \in DOMAIN sts, NEW pod \in {"none", "unready"},
         sts' = [sts EXCEPT ![i].pod = pod], NEW restarted \in {{}, {i}}, TemplatesFollow(restarted)
  PROVE  PodsInv'
<1>1. /\ DOMAIN sts' = DOMAIN sts /\ replicas(sts') = replicas(sts)
      /\ sts'[i].pod = pod /\ \A j \in DOMAIN sts \ {i} : sts'[j] = sts[j]
  BY PodChange, Zenon
<1>2. ASSUME NEW k \in replicas(sts') \cap ready(sts')
      PROVE  k \in replicas(sts) \cap ready(sts) /\ k \notin restarted
  BY <1>1 DEF ready
<1> QED BY <1>2, FollowSamePods, Zenon

\* Users and nodes make no pod ready that cannot be.
LEMMA ClusterStepPods ==
  ASSUME IsStatefulSetMap(sts), PodsInv, ClusterStep PROVE PodsInv'
<1>1. ClusterChanges /\ PodsAreTrue /\ TemplatesFollow({})
  BY DEF ClusterStep
<1>2. ASSUME NEW i \in DOMAIN sts, NEW pod \in {"none", "unready"}, sts' = [sts EXCEPT ![i].pod = pod]
      PROVE  PodsInv'
  BY <1>1, <1>2, FollowPodDown, Zenon
<1>3. ASSUME NEW i \in DOMAIN sts, PodBecomesReady(i) PROVE PodsInv'
  <2>1. sts[i].pod = "unready" /\ sts' = [sts EXCEPT ![i].pod = "ready"]
    BY <1>3 DEF PodBecomesReady, SetPod
  <2>2. /\ DOMAIN sts' = DOMAIN sts /\ replicas(sts') = replicas(sts)
        /\ sts'[i].pod = "ready" /\ \A j \in DOMAIN sts \ {i} : sts'[j] = sts[j]
    BY <2>1, PodChange, Zenon
  <2>3. running[i].image \notin BrokenImages
    BY <1>1, <2>1, <2>2 DEF PodsAreTrue, mayGetReady
  <2> QED BY <1>1, <2>1, <2>2, <2>3, FollowPods, Zenon DEF ready
<1>4. ASSUME NEW i \in DOMAIN sts, PodStarts(i) \/ PodFails(i) \/ PodLost(i) PROVE PodsInv'
  BY <1>2, <1>4 DEF PodStarts, PodFails, PodLost, SetPod
<1>5. ASSUME NEW i \in DOMAIN sts, StatefulSetDeleted(i) PROVE PodsInv'
  BY <1>1, <1>5, FollowSamePods DEF StatefulSetDeleted, replicas, ready
<1>6. CASE sts' = sts
  BY <1>1, <1>6, FollowSamePods
<1>7. CASE UserChangesSpec \/ \E i \in pvcs : PvcDeleted(i)
  BY <1>6, <1>7 DEF UserChangesSpec, UserEdits, PvcDeleted
<1> QED BY <1>1, <1>3, <1>4, <1>5, <1>7 DEF ClusterChanges, PodProgress

\* A pod that a broken image or a missing volume keeps from running is not ready.
LEMMA NextPods ==
  ASSUME Typed(AllDiffs), TemplatesTyped, PodsInv, [NextAll]_allVars PROVE PodsInv'
<1>0. IsStatefulSetMap(sts) /\ PodsTyped
  BY DEF Typed, TemplatesTyped
<1>1. ASSUME UNCHANGED <<sts, deployed, running>> PROVE PodsInv'
  BY <1>1 DEF PodsInv
<1>2. ASSUME sts' = sts, TemplatesFollow({}) PROVE PodsInv'
  BY <1>2, FollowSamePods
<1>3. CASE EnforcePrimaryDb /\ TemplatesFollow(promoted)
  <2>1. ASSUME NEW i \in replicas(sts') \cap ready(sts')
        PROVE  i \in replicas(sts) \cap ready(sts) /\ i \notin promoted
    BY <1>0, <1>3, PrimaryKeepsReplicas, OneRole DEF promoted, ready, replicas
  <2> QED BY <1>3, <2>1, FollowSamePods
<1>4. CASE EnforceReplicaDb /\ TemplatesFollow(promoted)
  <2>1. ASSUME NEW i \in replicas(sts') \cap ready(sts')
        PROVE  i \in replicas(sts) \cap ready(sts) /\ i \notin promoted
    <3>1. i \in DOMAIN sts
      <4>1. i \in DOMAIN sts' /\ sts'[i].pod = "ready"
        BY DEF ready
      <4>2. CASE deployReplicaStatefulSet
        BY <4>1, <4>2 DEF deployReplicaStatefulSet, Created
      <4>3. CASE undeployReplicaStatefulSets
        BY <4>1, <4>3 DEF undeployReplicaStatefulSets, Deleted
      <4>4. CASE ReplicasUnchanged \/ ReplicasSkipped
        BY <4>1, <4>4 DEF ReplicasUnchanged, ReplicasSkipped
      <4> QED BY <1>4, <4>2, <4>3, <4>4 DEF EnforceReplicaDb
    <3> QED BY <1>4, <3>1, ReplicaKeepsReplicas, OneRole DEF promoted, ready, replicas
  <2> QED BY <1>4, <2>1, FollowSamePods
<1>5. CASE EnforceStatefulSetsSpec
  <2>1. ASSUME NEW i \in DOMAIN seen, enforceSpec(i) PROVE PodsInv'
    <3>1. sts' = sts
      BY <2>1, Zenon DEF enforceSpec
    <3>2. CASE UNCHANGED <<deployed, running>>
      BY <1>1, <3>1, <3>2
    <3>3. CASE /\ i \in DOMAIN sts
               /\ deployed' = [deployed EXCEPT ![i] = view.wanted]
               /\ running' = [running EXCEPT ![i] = IF sts[i].pod = "none" THEN view.wanted ELSE @]
      <4>1. \A j \in DOMAIN sts \ {i} : deployed'[j] = deployed[j] /\ running'[j] = running[j]
        BY <1>0, <3>3 DEF PodsTyped
      <4>2. /\ sts[i].pod = "none" => running'[i] = deployed'[i]
            /\ sts[i].pod # "none" => running'[i] = running[i]
        BY <1>0, <3>3 DEF PodsTyped
      <4> QED BY <3>1, <3>3, <4>1, <4>2 DEF PodsInv, ready, replicas
    <3> QED BY <2>1, <3>2, <3>3, Zenon DEF enforceSpec
  <2>2. ASSUME NEW i \in DOMAIN seen, handleWhenStuckPod(i) PROVE PodsInv'
    <3>1. deployed' = deployed
      BY <2>2 DEF handleWhenStuckPod
    <3>2. CASE UNCHANGED <<sts, running>>
      BY <1>1, <3>1, <3>2
    <3>3. CASE /\ i \in DOMAIN sts
               /\ sts' = [sts EXCEPT ![i].pod = "none"]
               /\ running' = [running EXCEPT ![i] = deployed[i]]
      <4>1. /\ DOMAIN sts' = DOMAIN sts /\ replicas(sts') = replicas(sts)
            /\ sts'[i].pod = "none" /\ \A j \in DOMAIN sts \ {i} : sts'[j] = sts[j]
        BY <1>0, <3>3, PodChange, Zenon
      <4>2. running'[i] = deployed[i] /\ \A j \in DOMAIN sts \ {i} : running'[j] = running[j]
        BY <1>0, <3>3 DEF PodsTyped
      <4> QED BY <3>1, <4>1, <4>2 DEF PodsInv, ready, replicas
    <3> QED BY <2>2, <3>2, <3>3 DEF handleWhenStuckPod
  <2>3. CASE SpecsUnchanged
    BY <1>1, <2>3 DEF SpecsUnchanged
  <2>4. ASSUME NEW i \in DOMAIN seen,
               \/ SpecEnforcementTimedOut(i) \/ handleWhenPodSpecNotUpToDateOrNotReady(i)
               \/ OnSpecUpdatedSuccessfully(i)
        PROVE  PodsInv'
    BY <1>1, <2>4, Zenon DEF SpecEnforcementTimedOut, handleWhenPodSpecNotUpToDateOrNotReady,
       OnSpecUpdatedSuccessfully
  <2> QED BY <1>5, <2>1, <2>2, <2>3, <2>4 DEF EnforceStatefulSetsSpec
<1>6. CASE EnforceServices
  BY <1>1, <1>6 DEF EnforceServices, deployServices, deployServicesFails, ServicesEnforced
<1>7. CASE LoadAll \/ (LoadFails /\ UNCHANGED templateVars)
  BY <1>1, <1>7 DEF LoadAll, LoadWith, LoadFails, clusterVars, templateVars
<1>8. CASE (SaveStatus \/ SaveRefused) /\ TemplatesFollow({})
  BY <1>2, <1>8 DEF SaveStatus, SaveRefused, EndReconciliation
<1>9. CASE CrashAll
  BY <1>2, <1>9 DEF CrashAll, Crash, EndReconciliation
<1>10. CASE ClusterStep
  BY <1>0, <1>10, ClusterStepPods
<1>11. CASE TimePasses \/ UNCHANGED allVars
  BY <1>1, <1>11 DEF TimePasses, Tick, templateVars, allVars, clusterVars
<1>12. CASE TemplateChanges
  <2>1. ASSUME NEW i \in DOMAIN sts, PodReplaced(i) PROVE PodsInv'
    <3>1. PICK pod \in {"none", "unready"} : sts' = [sts EXCEPT ![i].pod = pod]
      BY <2>1 DEF PodReplaced, SetPod
    <3>2. TemplatesFollow({i})
      BY <2>1 DEF PodReplaced
    <3> QED BY <1>0, <3>1, <3>2, FollowPodDown, Zenon
  <2>2. ASSUME NEW i \in DOMAIN sts, PodNotCreated(i) PROVE PodsInv'
    <3>1. sts' = [sts EXCEPT ![i].pod = "none"] /\ TemplatesFollow({})
      BY <2>2 DEF PodNotCreated, SetPod
    <3> QED BY <1>0, <3>1, FollowPodDown, Zenon
  <2>3. ASSUME NEW i \in DOMAIN sts, PodGetsStuck(i) PROVE PodsInv'
    BY <1>1, <2>3 DEF PodGetsStuck
  <2>4. ASSUME NEW t \in Templates, UserChangesTemplate(t) PROVE PodsInv'
    BY <1>1, <2>4 DEF UserChangesTemplate
  <2>5. ASSUME NEW r \in Roles, ServiceDeleted(r) PROVE PodsInv'
    BY <1>1, <2>5 DEF ServiceDeleted
  <2> QED BY <1>12, <2>1, <2>2, <2>3, <2>4, <2>5 DEF TemplateChanges
<1> QED BY <1>3, <1>4, <1>5, <1>6, <1>7, <1>8, <1>9, <1>10, <1>11, <1>12 DEF NextAll, ReconcileAll

-----------------------------------------------------------------------------
(***************************************************************************)
(* What was read, the stuck pods, and the volumes of the replicas.         *)
(***************************************************************************)
\* The resource is not edited during a reconciliation.
LEMMA WantedKept ==
  ASSUME "editWhileReconciling" \notin Disruptions, [NextAll]_allVars, pc # "idle" PROVE wanted' = wanted
<1>1. CASE ReconcileAll
  <2>1. CASE EnforceStatefulSetsSpec
    BY <2>1, Zenon DEF EnforceStatefulSetsSpec, SpecsUnchanged, SpecEnforcementTimedOut, enforceSpec,
       handleWhenStuckPod, handleWhenPodSpecNotUpToDateOrNotReady, OnSpecUpdatedSuccessfully, SpecEnforced
  <2>2. CASE EnforceServices
    BY <2>2, Zenon DEF EnforceServices, deployServices, deployServicesFails, ServicesEnforced
  <2>3. CASE LoadAll \/ UNCHANGED templateVars \/ \E restarted : TemplatesFollow(restarted)
    BY <2>3 DEF LoadAll, templateVars, TemplatesFollow
  <2> QED BY <1>1, <2>1, <2>2, <2>3 DEF ReconcileAll
<1>2. CASE CrashAll \/ ClusterStep
  BY <1>2 DEF CrashAll, ClusterStep, TemplatesFollow
<1>3. CASE TemplateChanges
  BY <1>3 DEF TemplateChanges, PodReplaced, PodNotCreated, PodGetsStuck, UserChangesTemplate,
     ServiceDeleted, TemplatesFollow
<1>4. CASE TimePasses \/ UNCHANGED allVars
  BY <1>4 DEF TimePasses, templateVars, allVars
<1> QED BY <1>1, <1>2, <1>3, <1>4 DEF NextAll

\* What a reconciliation has read stays true of the replicas.
LEMMA NextRead ==
  ASSUME StatusIsSaved, Typed(AllDiffs), TemplatesTyped, PodsInv, ReadInv, [NextAll]_allVars,
         Cardinality(primaries(sts)) <= 1 => \A i, j \in primaries(sts) : i = j
  PROVE  ReadInv'
<1>1. CASE LoadAll
  <2>1. /\ seen' = sts /\ sts' = sts /\ UNCHANGED <<wanted, deployed>>
        /\ view'.wanted = wanted /\ view'.running = running
        /\ Cardinality(primaries(sts)) <= 1
    BY <1>1, Zenon DEF LoadAll, LoadWith
  <2>2. \A i, j \in primaries(sts) : i = j
    BY <2>1
  <2> QED BY <2>1, <2>2, Zenon DEF ReadInv, PodsInv
<1>2. CASE pc' = "idle"
  BY <1>2 DEF ReadInv
<1>3. CASE pc # "idle" /\ UNCHANGED <<seen, view>>
  <2>1. wanted' = wanted
    BY <1>3, WantedKept DEF StatusIsSaved
  <2>2. ASSUME NEW k \in replicas(sts') PROVE k \in replicas(seen) \/ deployed'[k] = view.wanted
    <3>1. k \in DOMAIN sts'
      BY DEF replicas
    <3>2. CASE KeepsTemplate(k)
      BY <1>3, <3>2, ReplicasAreOld, Zenon DEF KeepsTemplate, ReadInv
    <3>3. CASE GetsTemplate(k)
      BY <3>3 DEF GetsTemplate
    <3> QED BY <3>1, <3>2, <3>3, TemplateSteps DEF TemplatesTyped
  <2> QED BY <1>3, <2>1, <2>2, Zenon DEF ReadInv
<1> QED BY <1>1, <1>2, <1>3, ReadOnce DEF ViewKept

\* No pod is stuck if none gets stuck.
LEMMA NextStuck ==
  ASSUME NEW B, PodsStay(B), Typed(AllDiffs), StuckInv(B), [NextAll]_allVars PROVE StuckInv(B)'
<1> SUFFICES ASSUME B # {} PROVE stuck' = {} /\ (pc' # "idle" => view'.stuck = {})
  BY DEF StuckInv
<1>0. stuck = {} /\ (pc # "idle" => view.stuck = {}) /\ "podGetsStuck" \notin Disruptions
  BY DEF StuckInv, PodsStay
<1>1. stuck' = {}
  <2>1. ASSUME \E restarted : TemplatesFollow(restarted) PROVE stuck' = {}
    BY <1>0, <2>1 DEF TemplatesFollow
  <2>2. CASE ReconcileAll
    <3>1. CASE EnforceStatefulSetsSpec
      BY <1>0, <3>1, Zenon DEF EnforceStatefulSetsSpec, SpecsUnchanged, SpecEnforcementTimedOut, enforceSpec,
         handleWhenStuckPod, handleWhenPodSpecNotUpToDateOrNotReady, OnSpecUpdatedSuccessfully
    <3>2. CASE EnforceServices
      BY <1>0, <3>2, Zenon DEF EnforceServices, deployServices, deployServicesFails, ServicesEnforced
    <3>3. CASE LoadAll \/ UNCHANGED templateVars
      BY <1>0, <3>3 DEF LoadAll, templateVars
    <3> QED BY <2>1, <2>2, <3>1, <3>2, <3>3 DEF ReconcileAll
  <2>3. CASE CrashAll \/ ClusterStep
    BY <2>1, <2>3 DEF CrashAll, ClusterStep
  <2>4. CASE TemplateChanges
    BY <1>0, <2>1, <2>4, Zenon DEF TemplateChanges, PodReplaced, PodNotCreated, PodGetsStuck,
       UserChangesTemplate, ServiceDeleted, Happens
  <2>5. CASE TimePasses \/ UNCHANGED allVars
    BY <1>0, <2>5 DEF TimePasses, templateVars, allVars
  <2> QED BY <2>2, <2>3, <2>4, <2>5 DEF NextAll
<1>2. CASE LoadAll
  BY <1>0, <1>1, <1>2 DEF LoadAll
<1>3. CASE ViewKept
  BY <1>0, <1>1, <1>3 DEF ViewKept
<1> QED BY <1>2, <1>3, ReadOnce

\* The mounts of a replica that is created or updated.
LEMMA ReplicaMountFacts ==
  /\ ReplicaMounts(ConfigureStatefulSet(templateMounts("replica")), view.wanted)
  /\ \A m, t : MountMap(m) /\ ReplicaMounts(m, t) => ReplicaMounts(ConfigureStatefulSet(m), view.wanted)
<1>1. \A k \in ConfigKeys : wantedLocations[k] = "custom-config" => view.wanted.config # BaseConfig
  BY DEF wantedLocations, ConfigLocations, IsCustomConfigDeployed
<1> HIDE DEF wantedLocations
<1>2. ASSUME NEW m, DOMAIN m \subseteq ConfigKeys, PromoteKey \notin DOMAIN m
      PROVE  ReplicaMounts(ConfigureStatefulSet(m), view.wanted)
  BY <1>1, <1>2 DEF ReplicaMounts, ConfigureStatefulSet, updateVolumeMountNameIfChanged
<1>3. DOMAIN templateMounts("replica") \subseteq ConfigKeys /\ PromoteKey \notin DOMAIN templateMounts("replica")
  BY DEF templateMounts, ConfigKeys, PromoteKey
<1> QED BY <1>2, <1>3 DEF MountMap, ReplicaMounts

\* Behind a step of the count of instances.
LEMMA FollowReplicaMounts ==
  ASSUME ReplicaMountsInv, NEW restarted, TemplatesFollow(restarted),
         \A i \in replicas(sts') : i \in DOMAIN sts => i \in replicas(sts)
  PROVE  ReplicaMountsInv'
<1> SUFFICES ASSUME NEW i \in replicas(sts') PROVE ReplicaMounts(mounts'[i], deployed'[i])
  BY DEF ReplicaMountsInv
<1>0. i \in DOMAIN sts' /\ sts'[i].role = "replica" /\ i \notin promoted
  BY OneRole DEF replicas, promoted
<1>1. CASE i \notin DOMAIN sts
  <2>1. mounts'[i] = ConfigureStatefulSet(templateMounts("replica")) /\ deployed'[i] = view.wanted
    BY <1>0, <1>1 DEF TemplatesFollow
  <2> QED BY <2>1, ReplicaMountFacts
<1>2. CASE i \in DOMAIN sts
  <2>1. mounts'[i] = mounts[i] /\ deployed'[i] = deployed[i]
    BY <1>0, <1>2 DEF TemplatesFollow
  <2> QED BY <1>2, <2>1 DEF ReplicaMountsInv
<1> QED BY <1>1, <1>2

\* A replica has the volumes that it mounts, whatever the custom config maps hold: the
\* promotion script is mounted by primaries only.
LEMMA NextReplicaMounts ==
  ASSUME Typed(AllDiffs), TemplatesTyped, ReplicaMountsInv, [NextAll]_allVars PROVE ReplicaMountsInv'
<1>0. \A i \in replicas(sts') : i \in DOMAIN sts => i \in replicas(sts)
  BY ReplicasAreOld
<1>1. ASSUME \E restarted : TemplatesFollow(restarted) PROVE ReplicaMountsInv'
  BY <1>0, <1>1, FollowReplicaMounts
<1>2. ASSUME DOMAIN sts' = DOMAIN sts, UNCHANGED <<deployed, mounts>> PROVE ReplicaMountsInv'
  BY <1>0, <1>2 DEF ReplicaMountsInv, replicas
<1>3. CASE ReconcileAll
  <2>1. CASE LoadAll
    BY <1>2, <2>1 DEF LoadAll, LoadWith
  <2>2. CASE LoadFails /\ UNCHANGED templateVars
    BY <1>2, <2>2 DEF LoadFails, clusterVars, templateVars
  <2>3. CASE \E restarted : TemplatesFollow(restarted)
    BY <1>1, <2>3
  <2>4. CASE EnforceServices
    BY <1>2, <2>4, SMTT(30) DEF EnforceServices, deployServices, deployServicesFails, ServicesEnforced
  <2>5. CASE EnforceStatefulSetsSpec
    <3>1. ASSUME NEW i \in DOMAIN seen, enforceSpec(i) PROVE ReplicaMountsInv'
      <4>1. sts' = sts
        BY <3>1 DEF enforceSpec
      <4>2. CASE UNCHANGED <<deployed, mounts>>
        BY <1>2, <4>1, <4>2
      <4>3. CASE /\ i \in DOMAIN sts
                 /\ deployed' = [deployed EXCEPT ![i] = view.wanted]
                 /\ mounts' = [mounts EXCEPT ![i] = ConfigureStatefulSet(@)]
        <5>1. i \in replicas(sts) => ReplicaMounts(ConfigureStatefulSet(mounts[i]), view.wanted)
          BY <4>3, ReplicaMountFacts DEF ReplicaMountsInv, TemplatesTyped, PodsTyped
        <5> QED BY <4>1, <4>3, <5>1 DEF ReplicaMountsInv, TemplatesTyped, PodsTyped, replicas
      <4> QED BY <3>1, <4>2, <4>3, SMTT(30) DEF enforceSpec
    <3>2. ASSUME NEW i \in DOMAIN seen, handleWhenStuckPod(i) PROVE ReplicaMountsInv'
      BY <1>2, <3>2 DEF handleWhenStuckPod
    <3>3. CASE SpecsUnchanged
      BY <1>2, <3>3 DEF SpecsUnchanged
    <3>4. ASSUME NEW i \in DOMAIN seen,
                 \/ SpecEnforcementTimedOut(i) \/ handleWhenPodSpecNotUpToDateOrNotReady(i)
                 \/ OnSpecUpdatedSuccessfully(i)
          PROVE  ReplicaMountsInv'
      BY <1>2, <3>4, Zenon DEF SpecEnforcementTimedOut, handleWhenPodSpecNotUpToDateOrNotReady,
         OnSpecUpdatedSuccessfully
    <3> QED BY <2>5, <3>1, <3>2, <3>3, <3>4 DEF EnforceStatefulSetsSpec
  <2> QED BY <1>3, <2>1, <2>2, <2>3, <2>4, <2>5 DEF ReconcileAll
<1>4. CASE CrashAll \/ ClusterStep
  BY <1>1, <1>4 DEF CrashAll, ClusterStep
<1>5. CASE TimePasses \/ UNCHANGED allVars
  BY <1>2, <1>5 DEF TimePasses, Tick, templateVars, allVars, clusterVars
<1>6. CASE TemplateChanges
  BY <1>1, <1>2, <1>6, Zenon DEF TemplateChanges, PodReplaced, PodNotCreated, PodGetsStuck,
     UserChangesTemplate, ServiceDeleted
<1> QED BY <1>3, <1>4, <1>5, <1>6 DEF NextAll

-----------------------------------------------------------------------------
(***************************************************************************)
(* Steps that hold no further replica back: no template changes, and a pod *)
(* runs what it ran or what its StatefulSet says.                          *)
(***************************************************************************)
SettlesOne(B, i) ==
  /\ i \in replicas(sts) /\ deployed'[i] = deployed[i] /\ running'[i] \in {running[i], deployed[i]}
  /\ sts'[i].pod = "none" => IF B = {} THEN running'[i] = deployed[i] ELSE sts[i].pod = "none"

Settles(B) == wanted' = wanted /\ \A i \in replicas(sts') : SettlesOne(B, i)

\* A replica that is held back after such a step was held back, by the same operations.
LEMMA SettlesHeld ==
  ASSUME NEW B, Settles(B), NEW i \in held(B)'
  PROVE  /\ i \in held(B)
         /\ \A op, prev : HeldBy(op, prev, sts, deployed, running, wanted, i) =>
                            HeldBy(op, prev, sts, deployed, running, wanted, i)'
<1>1. /\ i \in replicas(sts')
      /\ unsettled(B, deployed'[i], running'[i], wanted') \/ (B # {} /\ sts'[i].pod = "none")
  BY DEF held, HeldBack
<1>2. SettlesOne(B, i) /\ wanted' = wanted
  BY <1>1 DEF Settles
<1>3. i \in held(B)
  BY <1>1, <1>2, SMTT(30) DEF SettlesOne, held, HeldBack, unsettled
<1>4. ASSUME NEW op, NEW prev, HeldBy(op, prev, sts, deployed, running, wanted, i)
      PROVE  HeldBy(op, prev, sts', deployed', running', wanted', i)
  <2>1. CASE Deploys(op, i) /\ running[i] = deployed[i]
    BY <1>2, <2>1 DEF SettlesOne, HeldBy
  <2>2. CASE Verifies(op, prev, i) /\ IsLast(sts, deployed, wanted, i)
    <3>1. sts'[i].pod # "none"
      BY <1>1, <1>2, <2>2 DEF SettlesOne, IsLast, unsettled
    <3>2. ASSUME NEW k \in replicas(sts'), k > i PROVE deployed'[k] = wanted'
      BY <1>2, <2>2, <3>2 DEF Settles, SettlesOne, IsLast
    <3> QED BY <2>2, <3>1, <3>2, SMTT(30) DEF IsLast, HeldBy
  <2> QED BY <1>4, <2>1, <2>2, SMTT(30) DEF HeldBy
<1> QED BY <1>3, <1>4

\* Nothing at all settles, or nothing but what follows a step on other instances.
LEMMA UnchangedSettles ==
  ASSUME NEW B, PodsInv, UNCHANGED <<sts, deployed, running, wanted>> PROVE Settles(B)
BY DEF Settles, SettlesOne, PodsInv, replicas

LEMMA FollowSettles ==
  ASSUME NEW B, PodsInv, NEW restarted, TemplatesFollow(restarted),
         \A i \in replicas(sts') : i \in replicas(sts) /\ (B # {} /\ sts'[i].pod = "none" => sts[i].pod = "none")
  PROVE  Settles(B)
<1>1. ASSUME NEW i \in replicas(sts') PROVE SettlesOne(B, i)
  <2>1. i \in DOMAIN sts' /\ i \in DOMAIN sts /\ i \in replicas(sts)
    BY DEF replicas
  <2>2. deployed'[i] = deployed[i]
    BY <2>1 DEF TemplatesFollow
  <2>3. running'[i] = IF podStays(i) /\ i \notin restarted THEN running[i] ELSE deployed[i]
    BY <2>1, <2>2 DEF TemplatesFollow
  <2>4. sts'[i].pod = "none" => ~podStays(i)
    BY DEF podStays
  <2> QED BY <2>1, <2>2, <2>3, <2>4 DEF SettlesOne
<1> QED BY <1>1 DEF Settles, TemplatesFollow

-----------------------------------------------------------------------------
(***************************************************************************)
(* The operation is about the replica that is held back, in each step.     *)
(***************************************************************************)
SameOperations ==
  /\ mem'.active = mem.active /\ mem'.previous = mem.previous
  /\ mem'.blocking = mem.blocking /\ mem'.previousBlocking = mem.previousBlocking
  /\ mem.changed => mem'.changed

GoesOn ==
  \/ pc' = pc
  \/ pc # "idle" /\ pc' = "save"
  \/ pc = "primary" /\ pc' = "replica"
  \/ pc = "replica" /\ pc' = "services"
  \/ pc = "services" /\ pc' = "specs"

\* A step that settles and leaves the operation alone.
LEMMA QuietStep ==
  ASSUME NEW B, HeldInv(B), DecidesInv(B), Settles(B), SameOperations, GoesOn, UNCHANGED <<status, seen, view>>
  PROVE  HeldInv(B)' /\ DecidesInv(B)'
<1>1. ASSUME NEW i \in held(B)'
      PROVE  /\ i \in held(B)
             /\ \A op, prev : HeldBy(op, prev, sts, deployed, running, wanted, i) =>
                                HeldBy(op, prev, sts, deployed, running, wanted, i)'
  BY <1>1, SettlesHeld
<1>2. (pc = "idle" <=> pc' = "idle") /\ (pc' = "idle" \/ ~mem'.changed => pc = "idle" \/ ~mem.changed)
  BY DEF GoesOn, SameOperations
<1>3. HeldInv(B)'
  <2> SUFFICES ASSUME NEW i \in held(B)'
               PROVE  /\ pc' # "idle" =>
                           HeldBy(mem.blocking, mem.previousBlocking, sts, deployed, running, wanted, i)'
                      /\ pc' = "idle" \/ ~mem'.changed =>
                           HeldBy(status.blocking, status.previousBlocking, sts, deployed, running, wanted, i)'
    BY DEF HeldInv
  <2>1. mem'.blocking = mem.blocking /\ mem'.previousBlocking = mem.previousBlocking /\ status' = status
    BY DEF SameOperations
  <2>2. i \in held(B)
    BY <1>1, SMTT(30)
  <2>3. pc' # "idle" =>
          HeldBy(mem.blocking, mem.previousBlocking, sts', deployed', running', wanted', i)
    BY <1>1, <1>2, <2>2, SMTT(30) DEF HeldInv
  <2>4. pc' = "idle" \/ ~mem'.changed =>
          HeldBy(status.blocking, status.previousBlocking, sts', deployed', running', wanted', i)
    BY <1>1, <1>2, <2>2 DEF HeldInv
  <2> QED BY <2>1, <2>3, <2>4, SMTT(30)
<1>4. DecidesInv(B)'
  <2> SUFFICES ASSUME pc' \in Decides PROVE DecidesInv(B)'
    BY DEF DecidesInv
  <2>1. pc \in Decides /\ (pc \in {"services", "specs"} => pc' \in {"services", "specs"})
    BY DEF GoesOn, Decides
  <2>2. heldWhenRead(B)' = heldWhenRead(B)
    BY DEF heldWhenRead
  <2>3. \A i : Checks(mem, i) => Checks(mem', i)
    BY DEF SameOperations, Checks
  <2>4. ASSUME NEW i \in held(B)'
        PROVE  i \in heldWhenRead(B) \/ (pc' \in {"services", "specs"} /\ Deploys(mem'.active, i))
    BY <1>1, <2>1, <2>4, Zenon DEF DecidesInv, SameOperations
  <2>5. ASSUME NEW i \in heldWhenRead(B)
        PROVE  \/ Deploys(mem'.active, i) /\ mem'.active.timedOut /\ i \notin ready(seen)
               \/ Checks(mem', i) /\ IsLast(seen, view.deployed, view.wanted, i)
    BY <2>1, <2>3, <2>5, SMTT(30) DEF DecidesInv, SameOperations
  <2> QED BY <2>2, <2>4, <2>5 DEF DecidesInv
<1> QED BY <1>3, <1>4

\* With no replica held back there is nothing for the operation to be about.
LEMMA NothingHeld ==
  ASSUME NEW B, held(B)' = {}, pc' \in Decides => heldWhenRead(B)' = {}
  PROVE  HeldInv(B)' /\ DecidesInv(B)'
BY DEF HeldInv, DecidesInv

\* Time changes nothing of an operation but the time left.
LEMMA ElapseKeeps ==
  ASSUME NEW op \in Operation(AllDiffs)
  PROVE  /\ Elapse(op).id = op.id /\ Elapse(op).step = op.step /\ Elapse(op).idx = op.idx
         /\ Elapse(op).diff = op.diff /\ Elapse(op).timedOut = op.timedOut
         /\ op.left > 1 => Elapse(op).left > 0
<1> DEFINE left == IF op.left > 0 THEN op.left - 1 ELSE 0
<1>0. op.left \in Nat
  BY DEF Operation
<1>1. op.left > 1 => left > 0
  BY <1>0
<1>2. Elapse(op) = [op EXCEPT !.left = left]
  BY SMTT(30) DEF Elapse
<1> HIDE DEF left
<1> QED BY <1>1, <1>2 DEF Operation

\* The time of an update is not over before it is noticed that the StatefulSet has its
\* template.
LEMMA ElapseHeld ==
  ASSUME PodsAreInTime, NEW B, NEW op \in Operation(AllDiffs), NEW prev, NEW i \in held(B),
         ~mayStillComplete(op), HeldBy(op, prev, sts, deployed, running, wanted, i)
  PROVE  HeldBy(Elapse(op), prev, sts, deployed, running, wanted, i)
<1>1. /\ Elapse(op).id = op.id /\ Elapse(op).step = op.step /\ Elapse(op).idx = op.idx
      /\ Elapse(op).diff = op.diff /\ Elapse(op).timedOut = op.timedOut
      /\ op.left > 1 => Elapse(op).left > 0
  BY ElapseKeeps
<1>2. CASE Deploys(op, i) /\ running[i] = deployed[i]
  BY <1>1, <1>2 DEF HeldBy, Deploys
<1>3. CASE Verifies(op, prev, i) /\ IsLast(sts, deployed, wanted, i)
  <2>1. deployed[i] = wanted /\ i \in DOMAIN sts
    BY <1>3 DEF IsLast, held, HeldBack, unsettled, replicas
  <2>2. CheckForSpecDifferences(deployed[i], wanted) = {}
    BY <2>1 DEF CheckForSpecDifferences
  <2>3. ASSUME op.step = "SpecUpdating", op.idx = i, op.left > 0 PROVE Elapse(op).left > 0
    <3>1. op.left \in Nat /\ SpecSettle \in Nat /\ TimeOut["SpecUpdating"] \in Nat
      <4>1. "SpecUpdating" \in Steps
        BY DEF Steps, OperationIdOf
      <4> QED BY <4>1, TimeOutAssumption, TemplateAssumption DEF Operation
    <3>2. isCompleted(op) = isStatefulSetSpecUpdated(op)
      BY <2>3 DEF isCompleted
    <3>3. op.left = 1 => TimeOut[op.step] - op.left >= SpecSettle
      BY <2>3, <3>1, SMTT(30) DEF PodsAreInTime
    <3>4. op.left = 1 => isCompleted(op)
      BY <2>1, <2>2, <2>3, <3>2, <3>3, SMTT(30) DEF isStatefulSetSpecUpdated, GetNbreSecondsSinceOperationHasStarted
    <3>5. op.left # 1
      BY <1>3, <3>4 DEF mayStillComplete, Verifies
    <3>6. op.left > 1
      BY <2>3, <3>1, <3>5, SMTT(30)
    <3> QED BY <1>1, <3>6
  <2>4. Verifies(Elapse(op), prev, i)
    BY <1>1, <1>3, <2>3 DEF Verifies
  <2> QED BY <1>3, <2>4, SMTT(30) DEF HeldBy
<1> QED BY <1>2, <1>3, SMTT(30) DEF HeldBy

\* A pod that changes settles, unless it is the pod of a replica that disappears.
LEMMA PodSettles ==
  ASSUME IsStatefulSetMap(sts), NEW B, PodsInv, NEW i \in DOMAIN sts, NEW pod,
         sts' = [sts EXCEPT ![i].pod = pod], i \notin replicas(sts) \/ pod # "none" \/ B = {},
         NEW restarted, TemplatesFollow(restarted)
  PROVE  Settles(B)
<1>1. /\ DOMAIN sts' = DOMAIN sts /\ replicas(sts') = replicas(sts)
      /\ sts'[i].pod = pod /\ \A j \in DOMAIN sts \ {i} : sts'[j] = sts[j]
  BY PodChange, Zenon
<1>2. ASSUME NEW k \in replicas(sts')
      PROVE  k \in replicas(sts) /\ (B # {} /\ sts'[k].pod = "none" => sts[k].pod = "none")
  BY <1>1 DEF replicas
<1> QED BY <1>2, FollowSettles, Zenon

\* Users and nodes hold no further replica back.
LEMMA ClusterStepSettles ==
  ASSUME NEW B, PodsStay(B), IsStatefulSetMap(sts), PodsInv, ClusterStep
  PROVE  Settles(B) /\ UNCHANGED <<status, seen, view, pc, mem>>
<1>1. ClusterChanges /\ TemplatesFollow({}) /\ UNCHANGED view
  BY DEF ClusterStep
<1>2. UNCHANGED <<status, seen, pc, mem>>
  BY <1>1, Zenon DEF ClusterChanges, PodProgress, PodStarts, PodBecomesReady, PodFails, PodLost, SetPod,
     StatefulSetDeleted, PvcDeleted, UserChangesSpec, UserEdits, reconcileVars
<1>3. ASSUME NEW i \in DOMAIN sts, PodProgress(i) \/ PodFails(i) PROVE Settles(B)
  <2>1. PICK pod \in {"unready", "ready"} : sts' = [sts EXCEPT ![i].pod = pod]
    BY <1>3 DEF PodProgress, PodStarts, PodBecomesReady, PodFails, SetPod
  <2>2. pod # "none"
    OBVIOUS
  <2> QED BY <1>1, <2>1, <2>2, PodSettles, Zenon
<1>4. ASSUME NEW i \in DOMAIN sts, PodLost(i) PROVE Settles(B)
  <2>1. sts' = [sts EXCEPT ![i].pod = "none"] /\ "podLost" \in Disruptions
    BY <1>4 DEF PodLost, SetPod, Happens
  <2>2. B = {}
    BY <2>1 DEF PodsStay
  <2> QED BY <1>1, <2>1, <2>2, PodSettles, Zenon
<1>5. ASSUME NEW i \in DOMAIN sts, StatefulSetDeleted(i) PROVE Settles(B)
  <2>1. sts' = [j \in DOMAIN sts \ {i} |-> sts[j]]
    BY <1>5 DEF StatefulSetDeleted
  <2>2. \A k \in replicas(sts') : k \in replicas(sts) /\ sts'[k] = sts[k]
    BY <2>1 DEF replicas
  <2> QED BY <1>1, <2>2, FollowSettles
<1>6. ASSUME sts' = sts PROVE Settles(B)
  BY <1>1, <1>6, FollowSettles
<1>7. ASSUME UserChangesSpec \/ \E i \in pvcs : PvcDeleted(i) PROVE Settles(B)
  BY <1>6, <1>7 DEF UserChangesSpec, UserEdits, PvcDeleted
<1> QED BY <1>1, <1>2, <1>3, <1>4, <1>5, <1>7 DEF ClusterChanges

\* Nor does Kubernetes when it replaces the pod of an updated StatefulSet.
LEMMA TemplateChangesSettle ==
  ASSUME NEW B, PodsStay(B), IsStatefulSetMap(sts), PodsInv, ReplicaMountsInv, TemplateChanges,
         ~\E t \in Templates : UserChangesTemplate(t)
  PROVE  Settles(B) /\ UNCHANGED <<status, seen, view, pc, mem>>
<1>1. ASSUME NEW i \in DOMAIN sts, PodReplaced(i)
      PROVE  Settles(B) /\ UNCHANGED <<status, seen, view, pc, mem>>
  <2>1. UNCHANGED <<status, seen, view, pc, mem>> /\ TemplatesFollow({i})
    BY <1>1 DEF PodReplaced, SetPod, reconcileVars
  <2>2. CASE sts' = [sts EXCEPT ![i].pod = "unready"]
    BY <2>1, <2>2, PodSettles, Zenon
  <2>3. CASE sts' = [sts EXCEPT ![i].pod = "none"] /\ "podMissing" \in Disruptions
    <3>1. B = {}
      BY <2>3 DEF PodsStay
    <3> QED BY <2>1, <2>3, <3>1, PodSettles, Zenon
  <2> QED BY <1>1, <2>2, <2>3 DEF PodReplaced, SetPod, Happens
<1>2. ASSUME NEW i \in DOMAIN sts, PodNotCreated(i)
      PROVE  Settles(B) /\ UNCHANGED <<status, seen, view, pc, mem>>
  <2>1. /\ UNCHANGED <<status, seen, view, pc, mem>> /\ TemplatesFollow({})
        /\ sts' = [sts EXCEPT ![i].pod = "none"] /\ ~volumesExist(i)
    BY <1>2 DEF PodNotCreated, SetPod, reconcileVars, terminates
  <2>2. i \notin replicas(sts)
    BY <2>1 DEF ReplicaMountsInv, ReplicaMounts, volumesExist
  <2> QED BY <2>1, <2>2, PodSettles, Zenon
<1>3. ASSUME (\E i \in DOMAIN sts : PodGetsStuck(i)) \/ \E r \in Roles : ServiceDeleted(r)
      PROVE  Settles(B) /\ UNCHANGED <<status, seen, view, pc, mem>>
  <2>1. UNCHANGED <<status, seen, view, pc, mem>> /\ UNCHANGED <<sts, deployed, running, wanted>>
    BY <1>3, SMTT(30) DEF PodGetsStuck, ServiceDeleted, reconcileVars
  <2> QED BY <2>1, UnchangedSettles
<1> QED BY <1>1, <1>2, <1>3 DEF TemplateChanges

\* A user who changes the template does not return to one with which a replica has not
\* settled: only a replica without a pod is held back with it.
LEMMA UserChangesTemplateHeld ==
  ASSUME NEW B, "editWhileReconciling" \notin Disruptions, NoEarlyReturn(B), HeldInv(B),
         NEW t \in Templates, UserChangesTemplate(t)
  PROVE  HeldInv(B)' /\ DecidesInv(B)'
<1>1. /\ pc = "idle" /\ pc' = "idle" /\ wanted' # wanted
      /\ UNCHANGED <<status, sts, deployed, running>>
  BY DEF UserChangesTemplate, reconcileVars
<1>2. ASSUME NEW i \in held(B)'
      PROVE  HeldBy(status.blocking, status.previousBlocking, sts, deployed, running, wanted', i)
  <2>1. i \in replicas(sts) /\ ~unsettled(B, deployed[i], running[i], wanted')
    BY <1>1 DEF held, HeldBack, NoEarlyReturn
  <2>2. B # {} /\ sts[i].pod = "none"
    BY <1>1, <2>1 DEF held, HeldBack
  <2>3. i \in held(B)
    BY <2>1, <2>2 DEF held, HeldBack
  <2>4. HeldBy(status.blocking, status.previousBlocking, sts, deployed, running, wanted, i)
    BY <1>1, <2>3 DEF HeldInv
  <2> QED BY <2>2, <2>4 DEF HeldBy, IsLast
<1>3. DecidesInv(B)'
  BY <1>1 DEF DecidesInv, Decides
<1> QED BY <1>1, <1>2, <1>3 DEF HeldInv

\* While time passes, the operation stays the one about the replica.
LEMMA TimePassesHeld ==
  ASSUME NEW B, PodsAreInTime, Typed(AllDiffs), HeldInv(B), DecidesInv(B), TimePasses
  PROVE  HeldInv(B)' /\ DecidesInv(B)'
<1>1. /\ UNCHANGED <<sts, seen, pc>> /\ UNCHANGED templateVars
      /\ ~mayStillComplete(status.blocking) /\ ~mayStillComplete(mem.blocking)
      /\ status' = [status EXCEPT !.blocking = Elapse(@)]
      /\ mem' = [mem EXCEPT !.active = Elapse(@), !.blocking = Elapse(@)]
  BY DEF TimePasses, Tick, PodsAreInTime
<1>2. held(B)' = held(B) /\ heldWhenRead(B)' = heldWhenRead(B)
  BY <1>1 DEF held, heldWhenRead, templateVars
<1>3. /\ status.blocking \in Operation(AllDiffs) /\ mem.blocking \in Operation(AllDiffs)
      /\ mem.active \in Operation(AllDiffs)
  BY DEF Typed, StatusType, MemType
<1>4. /\ status'.blocking = Elapse(status.blocking) /\ status'.previousBlocking = status.previousBlocking
      /\ mem'.blocking = Elapse(mem.blocking) /\ mem'.previousBlocking = mem.previousBlocking
      /\ mem'.active = Elapse(mem.active) /\ mem'.previous = mem.previous /\ mem'.changed = mem.changed
  BY <1>1 DEF Typed, StatusType, MemType
<1>5. HeldInv(B)'
  <2> SUFFICES ASSUME NEW i \in held(B)
               PROVE  /\ pc # "idle" =>
                           HeldBy(mem'.blocking, mem'.previousBlocking, sts, deployed, running, wanted, i)
                      /\ pc = "idle" \/ ~mem'.changed =>
                           HeldBy(status'.blocking, status'.previousBlocking, sts, deployed, running, wanted, i)
    BY <1>1, <1>2, SMTT(30) DEF HeldInv, templateVars
  <2>1. pc # "idle" => HeldBy(mem.blocking, mem.previousBlocking, sts, deployed, running, wanted, i)
    BY DEF HeldInv
  <2>2. pc = "idle" \/ ~mem.changed =>
          HeldBy(status.blocking, status.previousBlocking, sts, deployed, running, wanted, i)
    BY DEF HeldInv
  <2> QED BY <1>1, <1>3, <1>4, <2>1, <2>2, ElapseHeld
<1>6. DecidesInv(B)'
  <2>1. \A i : /\ Deploys(mem.active, i) => Deploys(mem'.active, i)
               /\ mem.active.timedOut => mem'.active.timedOut
    BY <1>3, <1>4, ElapseKeeps, SMTT(30) DEF Deploys
  <2>2. \A i : Checks(mem, i) => Checks(mem', i)
    BY <1>3, <1>4, ElapseKeeps DEF Checks
  <2> QED BY <1>1, <1>2, <2>1, <2>2, SMTT(30) DEF DecidesInv, templateVars
<1> QED BY <1>5, <1>6
=============================================================================
