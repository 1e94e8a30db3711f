--------------------------- MODULE KubegresCluster ---------------------------
(***************************************************************************)
(* What the operator works on and what changes it from outside: the        *)
(* Kubegres resource (spec and status), the StatefulSets it owns with      *)
(* their pod, the volume claims they leave behind, the user, Kubernetes    *)
(* and the passing of time.                                                *)
(*                                                                         *)
(* The module also has the two ends of a reconciliation that every         *)
(* enforcer shares: loading the resources, and saving the status.          *)
(*                                                                         *)
(* A reconciliation decides on what it has read ("seen", "mem") while the  *)
(* cluster goes on changing.  The Kubegres resource is only updated if     *)
(* nobody changed it since it was read ("outdated").                       *)
(***************************************************************************)
EXTENDS BlockingOperation, FiniteSets

CONSTANTS
  Replicas,        \* the values a user gives to spec.replicas
  Disruptions,     \* the kinds of disruption that may happen, see AllDisruptions
  MaxDisruptions,  \* bound: how many of them happen in a behaviour
  FailOverSettle   \* the 40 seconds of isFailOverCompleted, in ticks

(***************************************************************************)
(* Disruptions of the cluster by users and nodes, and failures of the      *)
(* operator and of its calls to the API server.                            *)
(***************************************************************************)
UserDisruptions ==
  {"podFails", "podLost", "deleteStatefulSet", "deletePvc",
   "scale", "toggleFailover", "promotePod", "toggleStandby"}
Failures ==
  {"createFails", "promoteFails", "deletePrimaryFails", "deleteReplicaFails",
   "getPvcFails", "updateSpecFails", "saveFails", "crash", "editWhileReconciling"}
TemplateDisruptions == \* of the pod templates and the services
  {"changeTemplate", "deleteService", "podGetsStuck", "podMissing", "slowPods",
   "updateStatefulSetFails", "deletePodFails", "createServiceFails", "deleteServiceFails"}
ResourceDisruptions == \* of the config maps, the storage and the back-up
  {"changeConfig", "changeStorage", "changeBackUp", "baseConfig", "customConfig", "storageClass",
   "backUpPvc", "deleteCronJob", "createConfigFails", "createCronJobFails", "deleteCronJobFails",
   "rollbackFails"}
AllDisruptions == UserDisruptions \cup Failures \cup TemplateDisruptions \cup ResourceDisruptions

ASSUME ClusterAssumption ==
  /\ Replicas \subseteq Nat
  /\ Disruptions \subseteq AllDisruptions
  /\ MaxDisruptions \in Nat
  /\ FailOverSettle \in Nat

VARIABLES
  spec,        \* Kubegres.Spec in the API server
  status,      \* Kubegres.Status in the API server
  sts,         \* the owned StatefulSets, by instance index
  pvcs,        \* indexes of the instances whose volume claim exists
  lastPrimary, \* history: the instance that was last given the primary role
  pc,          \* where the reconciliation is
  mem,         \* the Kubegres object and BlockingOperation held in memory
  seen,        \* the StatefulSets as this reconciliation listed them
  outdated,    \* the Kubegres resource changed since this reconciliation read it
  budget       \* the disruptions that may still happen

clusterVars == <<spec, status, sts, pvcs, lastPrimary, pc, mem, seen, outdated, budget>>

Roles == {"primary", "replica"}
Pods == {"none", "unready", "ready"} \* a StatefulSet has ready replicas iff its pod is ready

primaries(s) == {i \in DOMAIN s : s[i].role = "primary"}
replicas(s) == {i \in DOMAIN s : s[i].role = "replica"}
ready(s) == {i \in DOMAIN s : s[i].pod = "ready"}

\* The instances are listed by index: the first and the last of a set of them.
first(S) == {i \in S : \A j \in S : i <= j}
last(S) == {i \in S : \A j \in S : j <= i}

NoStatefulSets == [i \in {} |-> [role |-> "replica", pod |-> "none"]]

NoMem ==
  [ active |-> NoOperation, previous |-> NoOperation, blocking |-> NoOperation,
    previousBlocking |-> NoOperation, changed |-> FALSE, last |-> 0, enforced |-> 0,
    spec |-> [replicas |-> 0, failoverDisabled |-> FALSE, promotePod |-> 0, standby |-> FALSE] ]

\* A Kubegres resource was just created.
Init ==
  /\ spec \in [replicas: Replicas, failoverDisabled: {FALSE}, promotePod: {0}, standby: BOOLEAN]
  /\ spec.standby => "toggleStandby" \in Disruptions
  /\ status = [blocking |-> NoOperation, previousBlocking |-> NoOperation, last |-> 0, enforced |-> 0]
  /\ sts = NoStatefulSets
  /\ pvcs = {}
  /\ lastPrimary = 0
  /\ pc = "idle"
  /\ mem = NoMem
  /\ seen = NoStatefulSets
  /\ outdated = FALSE
  /\ budget = MaxDisruptions

\* The disruptions that happen in a step.
Happens(kinds) ==
  /\ kinds \subseteq Disruptions
  /\ Cardinality(kinds) \in 0..budget
  /\ budget' = budget - Cardinality(kinds)

-----------------------------------------------------------------------------
(***************************************************************************)
(* Kubernetes, the user and time.                                          *)
(***************************************************************************)
reconcileVars == <<pc, mem, seen>>

SetPod(i, pod) ==
  /\ sts' = [sts EXCEPT ![i].pod = pod]
  /\ UNCHANGED <<spec, status, pvcs, lastPrimary, outdated>> /\ UNCHANGED reconcileVars

PodStarts(i) == sts[i].pod = "none" /\ SetPod(i, "unready") /\ Happens({})
PodBecomesReady(i) == sts[i].pod = "unready" /\ SetPod(i, "ready") /\ Happens({})
PodFails(i) == sts[i].pod = "ready" /\ SetPod(i, "unready") /\ Happens({"podFails"})
PodLost(i) == sts[i].pod # "none" /\ SetPod(i, "none") /\ Happens({"podLost"})

StatefulSetDeleted(i) ==
  /\ sts' = [j \in DOMAIN sts \ {i} |-> sts[j]]
  /\ Happens({"deleteStatefulSet"})
  /\ UNCHANGED <<spec, status, pvcs, lastPrimary, outdated>> /\ UNCHANGED reconcileVars

\* A claim that a pod uses is only removed with the pod.
PvcDeleted(i) ==
  /\ i \notin DOMAIN sts
  /\ pvcs' = pvcs \ {i}
  /\ Happens({"deletePvc"})
  /\ UNCHANGED <<spec, status, sts, lastPrimary, outdated>> /\ UNCHANGED reconcileVars

\* The user applies a changed spec. While a reconciliation runs, this makes its
\* copy of the resource outdated.
UserEdits(kind, edited) ==
  /\ edited # spec
  /\ pc = "idle" \/ "editWhileReconciling" \in Disruptions
  /\ spec' = edited
  /\ outdated' = (pc # "idle")
  /\ Happens({kind})
  /\ UNCHANGED <<status, sts, pvcs, lastPrimary>> /\ UNCHANGED reconcileVars

UserChangesSpec ==
  \/ \E n \in Replicas : UserEdits("scale", [spec EXCEPT !.replicas = n])
  \/ UserEdits("toggleFailover", [spec EXCEPT !.failoverDisabled = ~@])
  \/ UserEdits("toggleStandby", [spec EXCEPT !.standby = ~@])
  \/ \E i \in DOMAIN sts \cup {status.last + 1} :
       UserEdits("promotePod", [spec EXCEPT !.promotePod = i])

Tick ==
  /\ status.blocking.left > 0 \/ mem.active.left > 0 \/ mem.blocking.left > 0
  /\ status' = [status EXCEPT !.blocking = Elapse(@)]
  /\ mem' = [mem EXCEPT !.active = Elapse(@), !.blocking = Elapse(@)]
  /\ UNCHANGED <<spec, sts, pvcs, lastPrimary, pc, seen, outdated, budget>>

PodProgress(i) == i \in DOMAIN sts /\ (PodStarts(i) \/ PodBecomesReady(i))

ClusterChanges ==
  \/ \E i \in DOMAIN sts : PodProgress(i) \/ PodFails(i) \/ PodLost(i) \/ StatefulSetDeleted(i)
  \/ \E i \in pvcs : PvcDeleted(i)
  \/ UserChangesSpec

Environment == ClusterChanges \/ Tick

-----------------------------------------------------------------------------
(***************************************************************************)
(* The completion checkers of the steps about instances.                   *)
(***************************************************************************)
isPrimaryDbReady(s) == primaries(s) \cap ready(s) # {}

isFailOverCompleted(op, s) ==
  GetNbreSecondsSinceOperationHasStarted(op) >= FailOverSettle /\ isPrimaryDbReady(s)

isReplicaDbReady(op, s) == op.idx \in replicas(s) \cap ready(s)
isReplicaDbUndeployed(op, s) == op.idx \notin replicas(s)

CompletionChecker(op, s) ==
  CASE op.step = "PrimaryDbDeploying" -> isPrimaryDbReady(s)
    [] op.step = "FailingOver" -> isFailOverCompleted(op, s)
    [] op.step = "ReplicaDbDeploying" -> isReplicaDbReady(op, s)
    [] op.step = "ReplicaDbUndeploying" -> isReplicaDbUndeployed(op, s)
    [] OTHER -> FALSE

(***************************************************************************)
(* Reconcile, up to the enforcers: the Kubegres resource and the resources *)
(* are read and the active operation is loaded.  Two primaries make        *)
(* loadStates fail: the reconciliation ends with nothing done.  Nothing is *)
(* enforced while the operation has time left, nor for a spec without      *)
(* replicas.                                                               *)
(***************************************************************************)
fetched ==
  [NoMem EXCEPT !.blocking = status.blocking, !.previousBlocking = status.previousBlocking,
                !.last = status.last, !.enforced = status.enforced, !.spec = spec]

LoadWith(reached) ==
  /\ pc = "idle"
  /\ Cardinality(primaries(sts)) <= 1
  /\ mem' = LoadActiveOperation(fetched, reached)
  /\ seen' = sts
  /\ pc' = IF mustWaitForTimeOut(mem') \/ spec.replicas = 0 THEN "save" ELSE "primary"
  /\ UNCHANGED <<spec, status, sts, pvcs, lastPrimary, outdated, budget>>

Load == LoadWith(CompletionChecker(status.blocking, sts))

\* The reconciliation ends with an error and is tried again.
LoadFails ==
  /\ pc = "idle"
  /\ Cardinality(primaries(sts)) > 1
  /\ UNCHANGED clusterVars

EndReconciliation ==
  /\ pc' = "idle"
  /\ mem' = NoMem
  /\ seen' = NoStatefulSets
  /\ outdated' = FALSE
  /\ UNCHANGED <<spec, sts, pvcs, lastPrimary>>

\* Enforcers that follow those of the StatefulSets' count start at "services".
instancesEnforced == pc \in {"services", "save"}

\* returnn and UpdateStatusIfChanged. The API server refuses the update of a
\* resource that changed meanwhile.
SaveStatus ==
  /\ instancesEnforced
  /\ ~outdated \/ ~mem.changed
  /\ status' = IF mem.changed
                 THEN [blocking |-> mem.blocking, previousBlocking |-> mem.previousBlocking,
                       last |-> mem.last, enforced |-> mem.enforced]
                 ELSE status
  /\ EndReconciliation /\ Happens({})

SaveRefused ==
  /\ instancesEnforced
  /\ mem.changed
  /\ (outdated /\ Happens({})) \/ (~outdated /\ Happens({"saveFails"}))
  /\ EndReconciliation /\ UNCHANGED status

\* The operator stops: nothing of the reconciliation is left but what it did to
\* the StatefulSets.
Crash ==
  /\ pc # "idle"
  /\ Happens({"crash"})
  /\ EndReconciliation /\ UNCHANGED status

(***************************************************************************)
(* Calls on StatefulSets.                                                  *)
(***************************************************************************)
Created(i, role) ==
  [j \in DOMAIN sts \cup {i} |-> IF j = i THEN [role |-> role, pod |-> "none"] ELSE sts[j]]

Deleted(i) == [j \in DOMAIN sts \ {i} |-> sts[j]]
=============================================================================
