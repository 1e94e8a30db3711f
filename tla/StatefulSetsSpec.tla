--------------------------- MODULE StatefulSetsSpec ---------------------------
(***************************************************************************)
(* AllStatefulSetsSpecEnforcer with the enforcers of the single fields:    *)
(* the StatefulSets are brought to the wanted template one at a time, the  *)
(* replicas from the highest index down and then the primary.  A           *)
(* StatefulSet is updated (SpecUpdating), then its pod is waited for       *)
(* (PodSpecUpdating, WaitingOnStuckPod) before the next one is looked at.  *)
(*                                                                         *)
(* The loop of EnforceSpec has no variable here: what makes it stop at a   *)
(* StatefulSet does not appear behind it, so it is always at the first one *)
(* where there is something to do.                                         *)
(***************************************************************************)
EXTENDS ServicesCount

getAllReverseSortedByInstanceIndex == IF mem.spec.standby THEN replicas(seen) ELSE DOMAIN seen

comesBefore(i, j) ==
  \/ seen[i].role = "replica" /\ seen[j].role = "primary"
  \/ seen[i].role = seen[j].role /\ i > j

specDifferences(i) == CheckForSpecDifferences(view.deployed[i], view.wanted)

hasLastSpecUpdateAttemptTimedOut(i) ==
  HasActiveOperationIdTimedOut(mem, StatefulSetSpec) /\ mem.active.idx = i

areNewSpecChangesSameAsFailingSpecChanges_Always(i) == TRUE \* Mutation

areNewSpecChangesSameAsFailingSpecChanges(i) == mem.active.diff = specDifferences(i)

isStatefulSetSpecUpdating_Never(i) == FALSE \* Mutation: the pod is not verified.

isStatefulSetSpecUpdating(i) ==
  IsActiveOperationInTransition(mem, StatefulSetSpec) /\ mem.previous.idx = i

stopsAt(i) ==
  specDifferences(i) # {} \/ hasLastSpecUpdateAttemptTimedOut(i) \/ isStatefulSetSpecUpdating(i)

EnforcesSpecs ==
  /\ pc = "specs"
  /\ mem.spec.standby \/ isPrimaryDbReady(seen)
  /\ ~IsActiveOperationIdDifferentOf(mem, StatefulSetSpec)

EnforcesSpecOf_AnyOrder(i) == \* Mutation: the StatefulSets are not sorted.
  EnforcesSpecs /\ i \in getAllReverseSortedByInstanceIndex /\ stopsAt(i)

\* The StatefulSet the loop is at.
EnforcesSpecOf(i) ==
  /\ EnforcesSpecs
  /\ i \in getAllReverseSortedByInstanceIndex
  /\ stopsAt(i)
  /\ \A j \in getAllReverseSortedByInstanceIndex \ {i} : stopsAt(j) => comesBefore(i, j)

SpecEnforced(m, next) ==
  /\ mem' = m
  /\ pc' = next
  /\ UNCHANGED <<spec, status, pvcs, lastPrimary, seen, outdated, wanted, view>>

\* Nothing is left to do, the primary is not ready or another operation is active.
SpecsUnchanged ==
  /\ pc = "specs"
  /\ EnforcesSpecs => \A i \in getAllReverseSortedByInstanceIndex : ~stopsAt(i)
  /\ SpecEnforced(mem, "save")
  /\ UNCHANGED <<sts, deployed, mounts, running, stuck, services, budget>>

\* The last attempt timed out: it is not tried again with the same differences.
SpecEnforcementTimedOut(i) ==
  /\ EnforcesSpecOf(i) /\ hasLastSpecUpdateAttemptTimedOut(i)
  /\ SpecEnforced(IF areNewSpecChangesSameAsFailingSpecChanges(i) THEN mem ELSE RemoveActiveOperation(mem),
                  IF areNewSpecChangesSameAsFailingSpecChanges(i) THEN "save" ELSE "specs")
  /\ UNCHANGED <<sts, deployed, mounts, running, stuck, services, budget>>

\* The update is refused if the StatefulSet changed since it was listed.
enforceSpec(i) ==
  /\ EnforcesSpecOf(i) /\ ~hasLastSpecUpdateAttemptTimedOut(i)
  /\ specDifferences(i) # {}
  /\ LET updating == activateOperation(mem, "SpecUpdating", i, specDifferences(i))
         listed == i \in DOMAIN sts /\ sts[i] = seen[i]
     IN \/ /\ listed
           /\ deployed' = [deployed EXCEPT ![i] = view.wanted]
           /\ mounts' = [mounts EXCEPT ![i] = ConfigureStatefulSet(@)]
           /\ running' = [running EXCEPT ![i] = IF sts[i].pod = "none" THEN view.wanted ELSE @]
           /\ SpecEnforced(updating, "save")
           /\ Happens({})
        \/ /\ Happens(IF listed THEN {"updateStatefulSetFails"} ELSE {})
           /\ SpecEnforced(RemoveActiveOperation(updating), "save")
           /\ UNCHANGED <<deployed, mounts, running>>
  /\ UNCHANGED <<sts, stuck, services>>

\* The StatefulSet has the wanted template: its pod is verified.
verifiesPodOf(i) ==
  /\ EnforcesSpecOf(i) /\ ~hasLastSpecUpdateAttemptTimedOut(i)
  /\ specDifferences(i) = {}

podIsUpToDateAndReady_Unready(i) == IsSpecUpToDate(seen, view.running, view.wanted, i) \* Mutation

podIsUpToDateAndReady(i) == i \in ready(seen) /\ IsSpecUpToDate(seen, view.running, view.wanted, i)

\* The stuck pod is deleted for Kubernetes to create another one.
handleWhenStuckPod(i) ==
  /\ verifiesPodOf(i) /\ i \in view.stuck
  /\ LET waiting == activateOperation(mem, "WaitingOnStuckPod", i, {})
         exists == i \in DOMAIN sts /\ sts[i].pod # "none"
     IN \/ /\ exists
           /\ sts' = [sts EXCEPT ![i].pod = "none"]
           /\ running' = [running EXCEPT ![i] = deployed[i]]
           /\ stuck' = stuck \ {i}
           /\ SpecEnforced(waiting, "save")
           /\ Happens({})
        \/ /\ Happens(IF exists THEN {"deletePodFails"} ELSE {})
           /\ SpecEnforced(RemoveActiveOperation(waiting), "save")
           /\ UNCHANGED <<sts, running, stuck>>
  /\ UNCHANGED <<deployed, mounts, services>>

\* The index is read from the pod: without a pod it is 0.
podInstanceIndex(i) == IF seen[i].pod = "none" THEN 0 ELSE i

handleWhenPodSpecNotUpToDateOrNotReady(i) ==
  /\ verifiesPodOf(i) /\ i \notin view.stuck
  /\ ~podIsUpToDateAndReady(i)
  /\ SpecEnforced(activateOperation(mem, "PodSpecUpdating", podInstanceIndex(i), {}), "save")
  /\ UNCHANGED <<sts, deployed, mounts, running, stuck, services, budget>>

\* OnSpecEnforcedSuccessfully of the port: the service of the instance's role is
\* deleted if its port is another one, to be created again.
serviceIsOutOfDate(i) == view.services[seen[i].role] \notin {0, view.wanted.port}

OnSpecUpdatedSuccessfully(i) ==
  /\ verifiesPodOf(i) /\ i \notin view.stuck
  /\ podIsUpToDateAndReady(i)
  /\ LET r == seen[i].role
     IN \/ /\ serviceIsOutOfDate(i) => services[r] # 0
           /\ services' = IF serviceIsOutOfDate(i) THEN [services EXCEPT ![r] = 0] ELSE services
           /\ SpecEnforced(RemoveActiveOperation(mem), "specs")
           /\ Happens({})
        \/ /\ serviceIsOutOfDate(i)
           /\ Happens(IF services[r] # 0 THEN {"deleteServiceFails"} ELSE {})
           /\ SpecEnforced(RemoveActiveOperation(mem), "save")
           /\ UNCHANGED services
  /\ UNCHANGED <<sts, deployed, mounts, running, stuck>>

EnforceStatefulSetsSpec ==
  \/ SpecsUnchanged
  \/ \E i \in DOMAIN seen :
       \/ SpecEnforcementTimedOut(i)
       \/ enforceSpec(i)
       \/ handleWhenStuckPod(i)
       \/ handleWhenPodSpecNotUpToDateOrNotReady(i)
       \/ OnSpecUpdatedSuccessfully(i)
=============================================================================
