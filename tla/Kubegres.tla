------------------------------- MODULE Kubegres -------------------------------
(***************************************************************************)
(* The whole reconciliation: the enforcers of the primary, of the replicas,*)
(* of the services and of the StatefulSets' spec, one after the other,     *)
(* with the one blocking operation they share.                             *)
(***************************************************************************)
EXTENDS StatefulSetsSpec

viewKept == view' = IF pc' = "idle" THEN NoView ELSE view

ReconcileAll ==
  \/ LoadAll
  \/ LoadFails /\ UNCHANGED templateVars
  \/ (EnforcePrimaryDb \/ EnforceReplicaDb) /\ TemplatesFollow(promoted) /\ UNCHANGED view
  \/ EnforceServices
  \/ EnforceStatefulSetsSpec
  \/ pc = "save" /\ (SaveStatus \/ SaveRefused) /\ TemplatesFollow({}) /\ viewKept

CrashAll == Crash /\ TemplatesFollow({}) /\ viewKept

NextAll ==
  \/ ReconcileAll
  \/ CrashAll
  \/ ClusterStep
  \/ TemplateChanges
  \/ TimePasses

PodsProgress ==
  \E i \in DOMAIN sts :
    \/ PodProgress(i) /\ PodsAreTrue /\ TemplatesFollow({}) /\ UNCHANGED view
    \/ PodReplaced(i)
    \/ PodNotCreated(i)

SpecAll == Init /\ TemplatesInit /\ [][NextAll]_allVars

FairSpecAll ==
  /\ SpecAll
  /\ WF_allVars(ReconcileAll)
  /\ WF_allVars(TimePasses)
  /\ WF_allVars(PodsProgress)

-----------------------------------------------------------------------------
Operations == Operation(SUBSET ({"image", "port", "config"} \X Nat))

\* Everything stored and everything held in memory is well formed.
AllTypeOK ==
  /\ spec \in Specs /\ mem.spec \in Specs
  /\ {status.blocking, status.previousBlocking, mem.active, mem.previous, mem.blocking,
      mem.previousBlocking} \subseteq Operations
  /\ IsStatefulSetMap(sts) /\ IsStatefulSetMap(seen)
  /\ pc \in {"idle", "primary", "replica", "services", "specs", "save"}
  /\ wanted \in Templates
  /\ DOMAIN mounts = DOMAIN sts
  /\ \A i \in DOMAIN sts : DOMAIN mounts[i] \subseteq ConfigKeys /\ mounts[i] \in [DOMAIN mounts[i] -> Volumes]
  /\ deployed \in [DOMAIN sts -> Templates] /\ running \in [DOMAIN sts -> Templates]
  /\ stuck \subseteq DOMAIN sts
  /\ services \in [Roles -> Nat]
  /\ pc # "idle" => DOMAIN view.deployed = DOMAIN seen /\ DOMAIN view.running = DOMAIN seen

\* The enforcers of one reconciliation share one list of the StatefulSets.  When one of
\* them changes an instance (creates, promotes, deletes or updates it, or deletes its
\* pod), every instance there is is on that list, in its role: no enforcer acts after
\* another one of the same reconciliation created or promoted an instance, whatever
\* failed, because the operation in memory keeps the others out
\* (IsActiveOperationIdDifferentOf in EnforceSpec of each).
operatorChanges == pc # "idle" /\ pc' \notin {pc, "idle"} /\ (sts' # sts \/ deployed' # deployed)
ChangesRestOnACompleteList ==
  [][ operatorChanges =>
        primaries(sts) \subseteq primaries(seen) /\ replicas(sts) \subseteq replicas(seen) ]_allVars

operatorUpdates(i) == pc = "specs" /\ i \in DOMAIN sts \cap DOMAIN sts' /\ deployed'[i] # deployed[i]

\* A template never reaches a StatefulSet before those that come before it: when one is
\* updated, the others that this reconciliation listed and that still exist have the
\* new template, whatever calls or status updates failed and whatever was deleted and
\* created meanwhile (GetAllReverseSortedByInstanceIndex, EnforceSpec).
TemplatesFollowTheOrder ==
  [][ \A i \in DOMAIN sts : operatorUpdates(i) =>
        \A j \in DOMAIN sts \cap DOMAIN seen : comesBefore(j, i) => deployed[j] = view.wanted ]_allVars

\* Instances are updated in order, the primary last: when a StatefulSet is updated,
\* those before it that this reconciliation has seen have the new template, and no
\* pod of theirs runs another image or port (EnforceSpec stops at a StatefulSet until
\* its pod is verified).  A user who returns to a spec that was still being enforced can
\* make the enforcer skip the pod, which takes at least three changes of the spec.
UpdatesFollowTheOrder ==
  [][ \A i \in DOMAIN sts : operatorUpdates(i) =>
        \A j \in DOMAIN seen : comesBefore(j, i) =>
          /\ view.deployed[j] = view.wanted
          /\ view.running[j].image = view.wanted.image
          /\ view.running[j].port = view.wanted.port ]_allVars

\* An image with which no pod gets ready does not reach the primary as long as there
\* is a replica to fail with it: the update of the replica times out and nothing
\* else is updated (logSpecEnforcementTimedOut).  Here too, a user who takes the image
\* back and asks for it again within the time-out makes the enforcer go on.
BrokenImageStopsAtReplicas ==
  [][ \A i \in primaries(sts) :
        operatorUpdates(i) /\ replicas(seen) # {} => view.wanted.image \notin BrokenImages ]_allVars

\* Whatever the config maps named in the spec, a StatefulSet has the volumes that its
\* pod mounts: ConfigureStatefulSet updates mounts and volumes together, and a
\* promotion adds a mount.
MountsHaveVolumes == \A i \in DOMAIN sts : volumesExist(i)

\* A changed spec eventually reaches every StatefulSet and every pod, and the
\* operation that enforces it ends, unless an image was asked for that does not work
\* (AllStatefulSetsSpecEnforcer).
Applied ==
  /\ \A i \in DOMAIN sts : deployed[i] = wanted /\ running[i] = wanted
  /\ status.blocking.id # StatefulSetSpec
SpecIsApplied == <>[]Applied \/ <>(wanted.image \in BrokenImages)

\* A role with a ready instance ends up with its service, although services are
\* deleted when the port changes and their creation may fail (ServicesCountSpecEnforcer).
ReadyRolesAreServed ==
  <>[](\A r \in Roles : (\E i \in ready(sts) : sts[i].role = r) => services[r] # 0)
=============================================================================
