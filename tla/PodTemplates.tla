----------------------------- MODULE PodTemplates -----------------------------
(***************************************************************************)
(* What the operator gives to the pods: the pod template of each           *)
(* StatefulSet, the one its pod actually runs, and the two services with   *)
(* the port they were created with.                                        *)
(*                                                                         *)
(* The rest of the spec is "wanted": the image, the port and the custom    *)
(* config map, which stands for all the other fields of a StatefulSet that *)
(* are not compared with those of its pod.  Kubernetes replaces a ready    *)
(* pod whose StatefulSet has another template; it does not touch a pod     *)
(* that is not ready.                                                      *)
(***************************************************************************)
EXTENDS StatefulSetCount, ConfigStates

CONSTANTS
  Templates,    \* what users ask for: records [image, port, config] of numbers
  BrokenImages, \* images with which a pod never gets ready
  SpecSettle    \* the 10 seconds of isStatefulSetSpecUpdated, in ticks

ASSUME TemplateAssumption ==
  /\ Templates \subseteq [image: Nat \ {0}, port: Nat \ {0}, config: {BaseConfig} \cup DOMAIN ConfigData]
  /\ SpecSettle \in Nat

VARIABLES
  wanted,   \* the fields of Kubegres.Spec that go into the pods
  deployed, \* the template of each StatefulSet
  mounts,   \* the volume from which it mounts each of its config files
  running,  \* the template its pod was created from (the next one if there is no pod)
  stuck,    \* the instances whose pod is stuck (PodsStates.isPodStuck)
  services, \* the port of the service of each role, 0 if it is not deployed
  view      \* what this reconciliation has read of all these

templateVars == <<wanted, deployed, mounts, running, stuck, services, view>>
allVars == <<clusterVars, templateVars>>

NoTemplate == [image |-> 0, port |-> 0, config |-> 0]
NoServices == [r \in Roles |-> 0]
NoView ==
  [wanted |-> NoTemplate, deployed |-> <<>>, running |-> <<>>, stuck |-> {}, services |-> NoServices]

TemplatesInit ==
  /\ wanted \in {t \in Templates : t.image \notin BrokenImages}
  /\ deployed = <<>> /\ mounts = <<>> /\ running = <<>>
  /\ stuck = {}
  /\ services = NoServices
  /\ view = NoView

-----------------------------------------------------------------------------
(***************************************************************************)
(* The templates and pods behind a step of StatefulSetCount: a StatefulSet *)
(* is created with the template this reconciliation has read; a pod that   *)
(* starts, and one that "restarted", runs the template of its StatefulSet. *)
(***************************************************************************)
wantedLocations == ConfigLocations(view.wanted.config, DOMAIN ConfigData)

\* The mounts of a StatefulSet that is created or updated.
ConfigureStatefulSet(m) == updateVolumeMountNameIfChanged(m, wantedLocations)

\* A promotion restarts the pod: the StatefulSet becomes a primary's.
promoted == replicas(sts) \cap primaries(sts')

podStays(i) == i \in DOMAIN sts /\ sts[i].pod # "none" /\ sts'[i].pod # "none"

TemplatesFollow(restarted) ==
  /\ deployed' = [i \in DOMAIN sts' |-> IF i \in DOMAIN sts THEN deployed[i] ELSE view.wanted]
  /\ mounts' = [i \in DOMAIN sts' |->
                  CASE i \notin DOMAIN sts -> ConfigureStatefulSet(templateMounts(sts'[i].role))
                    [] i \in promoted -> withPromotionScript(mounts[i], wantedLocations)
                    [] OTHER -> mounts[i]]
  /\ running' = [i \in DOMAIN sts' |->
                   IF podStays(i) /\ i \notin restarted THEN running[i] ELSE deployed'[i]]
  /\ stuck' = {i \in stuck \cap DOMAIN sts' : sts'[i].pod = "unready" /\ i \notin restarted}
  /\ UNCHANGED <<wanted, services>>

\* A mount names a volume of the pod template.
volumesExist(i) ==
  \A k \in DOMAIN mounts[i] : mounts[i][k] = "custom-config" => deployed[i].config # BaseConfig

\* External: a pod with a broken image does not get ready, and one whose mounts name
\* a volume it does not have is not created (until then the former one terminates).
mayGetReady(i) ==
  running[i].image \notin BrokenImages /\ (running[i] = deployed[i] => volumesExist(i))

PodsAreTrue ==
  \A i \in DOMAIN sts \cap DOMAIN sts' :
    /\ sts[i].pod = "unready" /\ sts'[i].pod = "ready" => mayGetReady(i)
    /\ sts[i].pod = "none" /\ sts'[i].pod # "none" => volumesExist(i)

terminates(i) == sts[i].pod # "none" /\ running[i] = deployed[i] /\ ~volumesExist(i)

PodNotCreated(i) ==
  /\ terminates(i)
  /\ SetPod(i, "none") /\ Happens({})
  /\ TemplatesFollow({}) /\ UNCHANGED view

ClusterStep == ClusterChanges /\ PodsAreTrue /\ TemplatesFollow({}) /\ UNCHANGED view

\* External: the StatefulSet controller replaces the ready pod of an updated
\* StatefulSet. The pod may be missing for a long time (no node for it).
PodReplaced(i) ==
  /\ sts[i].pod = "ready" /\ running[i] # deployed[i]
  /\ \/ SetPod(i, "unready") /\ Happens({})
     \/ SetPod(i, "none") /\ Happens({"podMissing"})
  /\ TemplatesFollow({i}) /\ UNCHANGED view

PodGetsStuck(i) ==
  /\ sts[i].pod = "unready" /\ running[i].image \in BrokenImages
  /\ stuck' = stuck \cup {i}
  /\ stuck' # stuck
  /\ Happens({"podGetsStuck"})
  /\ UNCHANGED <<spec, status, sts, pvcs, lastPrimary, outdated>> /\ UNCHANGED reconcileVars
  /\ UNCHANGED <<wanted, deployed, mounts, running, services, view>>

UserChangesTemplate(t) ==
  /\ t # wanted
  /\ pc = "idle" \/ "editWhileReconciling" \in Disruptions
  /\ wanted' = t
  /\ outdated' = (pc # "idle")
  /\ Happens({"changeTemplate"})
  /\ UNCHANGED <<spec, status, sts, pvcs, lastPrimary>> /\ UNCHANGED reconcileVars
  /\ UNCHANGED <<deployed, mounts, running, stuck, services, view>>

ServiceDeleted(r) ==
  /\ services[r] # 0
  /\ services' = [services EXCEPT ![r] = 0]
  /\ Happens({"deleteService"})
  /\ UNCHANGED <<spec, status, sts, pvcs, lastPrimary, outdated>> /\ UNCHANGED reconcileVars
  /\ UNCHANGED <<wanted, deployed, mounts, running, stuck, view>>

TemplateChanges ==
  \/ \E i \in DOMAIN sts : PodReplaced(i) \/ PodNotCreated(i) \/ PodGetsStuck(i)
  \/ \E t \in Templates : UserChangesTemplate(t)
  \/ \E r \in Roles : ServiceDeleted(r)

-----------------------------------------------------------------------------
(***************************************************************************)
(* The completion checkers of the steps about the spec of a StatefulSet.   *)
(***************************************************************************)
\* StatefulSetSpecDifferences: the fields that differ, with the expected value.
CheckForSpecDifferences(t, w) == {<<f, w[f]>> : f \in {g \in DOMAIN w : t[g] # w[g]}}

\* PodSpecComparator.IsSpecUpToDate compares the image and the port only, and is
\* false when there is no pod.
IsSpecUpToDate(s, r, w, i) == s[i].pod # "none" /\ r[i].image = w.image /\ r[i].port = w.port

isStatefulSetSpecUpdated(op) ==
  /\ GetNbreSecondsSinceOperationHasStarted(op) >= SpecSettle
  /\ op.idx \in DOMAIN sts
  /\ CheckForSpecDifferences(deployed[op.idx], wanted) = {}

isStatefulSetPodSpecUpdated(op) ==
  op.idx \in ready(sts) /\ IsSpecUpToDate(sts, running, wanted, op.idx)

isStatefulSetPodNotStuck(op) == op.idx \in DOMAIN sts \ stuck

isCompleted(op) ==
  CASE op.step = "SpecUpdating" -> isStatefulSetSpecUpdated(op)
    [] op.step = "PodSpecUpdating" -> isStatefulSetPodSpecUpdated(op)
    [] op.step = "WaitingOnStuckPod" -> isStatefulSetPodNotStuck(op)
    [] OTHER -> CompletionChecker(op, sts)

LoadAll ==
  /\ LoadWith(isCompleted(status.blocking))
  /\ view' = [wanted |-> wanted, deployed |-> deployed, running |-> running,
              stuck |-> stuck, services |-> services]
  /\ UNCHANGED <<wanted, deployed, mounts, running, stuck, services>>

(***************************************************************************)
(* Time. A spec operation takes 300 seconds: unless pods are slow, it only *)
(* times out when no pod has anything left to do and the completion of the *)
(* operation has been noticed.                                             *)
(***************************************************************************)
podIsBusy(i) ==
  \/ sts[i].pod = "none" /\ volumesExist(i)
  \/ sts[i].pod = "unready" /\ mayGetReady(i)
  \/ sts[i].pod = "ready" /\ running[i] # deployed[i]
  \/ terminates(i)

mayStillComplete(op) ==
  /\ op.id = StatefulSetSpec /\ op.left = 1
  /\ (\E i \in DOMAIN sts : podIsBusy(i)) \/ isCompleted(op)

TimePasses ==
  /\ Tick
  /\ "slowPods" \notin Disruptions => ~mayStillComplete(status.blocking) /\ ~mayStillComplete(mem.blocking)
  /\ UNCHANGED templateVars
=============================================================================
