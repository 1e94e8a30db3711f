--------------------------- MODULE SpecUpdatesProofs --------------------------
(***************************************************************************)
(* The counters of the status and the updates of the spec in the whole     *)
(* reconciliation, for any time-outs, any numbers of replicas, any         *)
(* templates and any number of disruptions: the counters agree with the    *)
(* StatefulSets when the enforcer of the spec saves the same status; the   *)
(* operator does not turn to the next instance while the pod of a replica  *)
(* that it has updated is not verified; and a broken image stops at the    *)
(* replicas.                                                               *)
(***************************************************************************)
EXTENDS HeldReplicaProofs, StatusCountersProofs

\* A step aside counts nothing.
LEMMA AsideCover ==
  ASSUME StatusIsSaved, Typed(AllDiffs), CoverInv, Aside PROVE CoverInv'
<1>1. DOMAIN sts' = DOMAIN sts /\ UNCHANGED <<status, seen>>
  BY AsideShrinks DEF Aside, Typed
<1>2. ~outdated'
  BY Zenon DEF Aside, CoverInv, StatusIsSaved
<1>3. CASE UNCHANGED <<pc, mem>>
  BY <1>1, <1>2, <1>3 DEF CoverInv, Counts
<1>4. CASE pc \in {"services", "specs"} /\ pc' \in {"specs", "save"} /\ (mem' = mem \/ SpecMem)
  BY <1>1, <1>2, <1>4 DEF CoverInv, Counts, SpecMem, Counted
<1> QED BY <1>3, <1>4, SMTT(30) DEF Aside

\* It gives no index to anybody.
LEMMA AsideFresh ==
  ASSUME Typed(AllDiffs), FreshInv, Aside PROVE FreshInv'
<1>1. DOMAIN sts' = DOMAIN sts /\ UNCHANGED <<spec, status, pvcs>>
  BY AsideShrinks DEF Aside, Typed
<1>2. CASE UNCHANGED <<pc, mem>>
  BY <1>1, <1>2, SMTT(30) DEF FreshInv, Fresh
<1>3. CASE pc \in {"services", "specs"} /\ pc' \in {"specs", "save"} /\ (mem' = mem \/ SpecMem)
  BY <1>1, <1>3 DEF FreshInv, Fresh, SpecMem, Counted
<1> QED BY <1>2, <1>3, SMTT(30) DEF Aside

\* The invariant about the enforced replicas always holds, with all the enforcers.
LEMMA SpecAllCover == ASSUME StatusIsSaved PROVE SpecAll => [](AllTypedInv /\ CoverInv)
<1>1. AllTypedInv /\ CoverInv /\ [NextAll]_allVars => CoverInv'
  <2> SUFFICES ASSUME AllTypedInv, CoverInv, [NextAll]_allVars PROVE CoverInv'
    OBVIOUS
  <2>1. Typed(AllDiffs) /\ (CountStep \/ Aside)
    BY AllNextCases DEF AllTypedInv
  <2> QED BY <2>1, DiffsFacts, BeginsOrEndsCover, PrimaryCover, ReplicaCover, EnvironmentCover, AsideCover
         DEF CountStep
<1> QED BY <1>1, InitCover, SpecAllTyped, PTL DEF SpecAll

\* enforcedReplicas is at least the number of deployed instances between reconciliations
\* when the enforcer of the StatefulSets' spec saves the same status with its own
\* operations, as long as every update of the status succeeds: no enforcer leaves a
\* counter behind that the others advanced (UpdateStatusIfChanged, hasPrimaryEverBeenDeployed).
THEOREM AllEnforcedReplicasCover ==
  ASSUME StatusIsSaved PROVE SpecAll => []EnforcedReplicasCoverDeployed
<1>1. CoverInv => EnforcedReplicasCoverDeployed
  BY DEF CoverInv, Counts, EnforcedReplicasCoverDeployed
<1> QED BY <1>1, SpecAllCover, PTL

\* The index that a new replica gets is above every instance and every volume claim left
\* behind, also when stuck pods are deleted and StatefulSets are updated meanwhile, under
\* the conditions that the count of instances needs (deployReplicaStatefulSet).
THEOREM AllNewIndexesStayFresh ==
  ASSUME StatusIsSaved, ClaimsAreKept PROVE SpecAll => []NewIndexesAreFresh
<1>1. AllTypedInv /\ CoverInv /\ FreshInv /\ [NextAll]_allVars => FreshInv'
  <2> SUFFICES ASSUME AllTypedInv, CoverInv, FreshInv, [NextAll]_allVars PROVE FreshInv'
    OBVIOUS
  <2>1. Typed(AllDiffs) /\ (CountStep \/ Aside)
    BY AllNextCases DEF AllTypedInv
  <2> QED BY <2>1, DiffsFacts, BeginsOrEndsFresh, PrimaryFresh, ReplicaFresh, EnvironmentFresh, AsideFresh, SMTT(30)
         DEF CountStep
<1>2. FreshInv => NewIndexesAreFresh
  BY DEF FreshInv, Fresh, NewIndexesAreFresh
<1> QED BY <1>1, <1>2, InitFresh, SpecAllCover, PTL DEF SpecAll

-----------------------------------------------------------------------------
(***************************************************************************)
(* The inductive invariant of the updates.                                 *)
(***************************************************************************)
UpdatesInv(B) ==
  /\ OrderInv /\ PodsInv /\ ReadInv /\ StuckInv(B) /\ ReplicaMountsInv
  /\ HeldInv(B) /\ DecidesInv(B)

\* There are no replicas when the Kubegres resource is created.
LEMMA InitUpdates == ASSUME NEW B PROVE Init /\ TemplatesInit => UpdatesInv(B)
<1> SUFFICES ASSUME Init, TemplatesInit PROVE UpdatesInv(B)
  OBVIOUS
<1>1. pc = "idle" /\ stuck = {} /\ sts = NoStatefulSets
  BY DEF Init, TemplatesInit
<1>2. DOMAIN sts = {} /\ replicas(sts) = {}
  BY <1>1 DEF NoStatefulSets, replicas
<1>3. held(B) = {}
  BY <1>2 DEF held, HeldBack
<1>4. OrderInv /\ PodsInv /\ ReadInv /\ StuckInv(B) /\ ReplicaMountsInv
  BY <1>1, <1>2, Zenon DEF OrderInv, PodsInv, ReadInv, StuckInv, ReplicaMountsInv
<1> QED BY <1>1, <1>3, <1>4, Zenon DEF UpdatesInv, HeldInv, DecidesInv, Decides

\* A set of at most one element has at most one element.
LEMMA AtMostOneIsOne ==
  ASSUME NEW S, IsFiniteSet(S), Cardinality(S) <= 1, NEW a \in S, NEW b \in S PROVE a = b
<1>1. SUFFICES ASSUME a # b PROVE FALSE
  OBVIOUS
<1>2. /\ IsFiniteSet(S \ {a}) /\ Cardinality(S \ {a}) = Cardinality(S) - 1
      /\ IsFiniteSet((S \ {a}) \ {b}) /\ Cardinality((S \ {a}) \ {b}) = Cardinality(S \ {a}) - 1
  BY <1>1, Count, SMTT(30)
<1>3. Cardinality((S \ {a}) \ {b}) \in Nat /\ Cardinality(S) \in Nat
  BY <1>2, Count, SMTT(30)
<1> QED BY <1>2, <1>3

\* Every step keeps the invariant, unless a user returns to a template too early.
LEMMA NextUpdates ==
  ASSUME NEW B \in SUBSET BrokenImages, StatusIsSaved, PodsAreInTime, PodsStay(B)
  PROVE  AllTypedInv /\ CoverInv /\ UpdatesInv(B) /\ [NextAll]_allVars /\ [NoEarlyReturn(B)]_allVars =>
           UpdatesInv(B)'
<1> SUFFICES ASSUME AllTypedInv, CoverInv, UpdatesInv(B), [NextAll]_allVars, [NoEarlyReturn(B)]_allVars
             PROVE  UpdatesInv(B)'
  OBVIOUS
<1>1. Typed(AllDiffs) /\ TemplatesTyped /\ PodsTyped
  BY DEF AllTypedInv, TemplatesTyped
<1>2. NoEarlyReturn(B)
  BY Zenon DEF NoEarlyReturn, allVars, templateVars
<1>3. ~outdated /\ (Cardinality(primaries(sts)) <= 1 => \A i, j \in primaries(sts) : i = j)
  <2>1. ~outdated /\ IsFiniteSet(primaries(sts))
    BY FS_Subset, Zenon DEF CoverInv, primaries
  <2> QED BY <2>1, AtMostOneIsOne, SMTT(30)
<1>4. OrderInv' /\ PodsInv' /\ ReadInv'
  BY <1>1, <1>3, NextOrder, NextPods, NextRead DEF UpdatesInv
<1>5. StuckInv(B)' /\ ReplicaMountsInv'
  BY <1>1, NextStuck, NextReplicaMounts, SMTT(30) DEF UpdatesInv
<1>6. HeldInv(B)' /\ DecidesInv(B)'
  BY <1>1, <1>2, <1>3, NextHeld DEF UpdatesInv
<1> QED BY <1>4, <1>5, <1>6, SMTT(30) DEF UpdatesInv

\* When a StatefulSet is updated, no replica before it was held back.
LEMMA UpdatesNothingBeforeAHeldOne ==
  ASSUME NEW B, AllTypedInv, UpdatesInv(B), NEW i \in DOMAIN seen, enforceSpec(i)
  PROVE  heldWhenRead(B) = {}
<1>1. EnforcesSpecOf(i) /\ specDifferences(i) # {} /\ Typed(AllDiffs) /\ DecidesInv(B)
  BY Zenon DEF enforceSpec, AllTypedInv, UpdatesInv
<1>2. mem.active.id # ReplicaDbCount
  BY <1>1, HeldSteps, Zenon DEF EnforcesSpecOf, EnforcesSpecs, IsActiveOperationIdDifferentOf, isThereActiveOperation
<1> QED BY <1>1, <1>2, StopsAtTheHeldOne, Zenon

\* What comes before a StatefulSet is a replica: there is one primary at most.
LEMMA ReplicasComeBefore ==
  ASSUME Typed(AllDiffs), ReadInv, pc # "idle", NEW i \in DOMAIN seen, NEW j \in DOMAIN seen, comesBefore(j, i)
  PROVE  j \in replicas(seen)
<1>1. i \in Nat /\ j \in Nat /\ seen[j].role \in {"primary", "replica"}
  BY DEF Typed, IsStatefulSetMap, StatefulSets, Roles
<1>2. ASSUME seen[j].role = "primary" PROVE FALSE
  <2>1. seen[j].role # "replica"
    BY <1>2
  <2>2. seen[i].role = seen[j].role /\ j > i
    BY <2>1 DEF comesBefore
  <2>3. i \in primaries(seen) /\ j \in primaries(seen)
    BY <1>2, <2>2, SMTT(30) DEF primaries
  <2>4. i = j
    BY <2>3, SMTT(30) DEF ReadInv
  <2> QED BY <1>1, <2>2, <2>4
<1> QED BY <1>1, <1>2, SMTT(30) DEF replicas

\* When a StatefulSet is updated, the replicas before it run the wanted template, which is not of B.
LEMMA SettledBeforeAnUpdate ==
  ASSUME NEW B, AllTypedInv, UpdatesInv(B), NEW i \in DOMAIN seen, enforceSpec(i),
         NEW j \in DOMAIN seen, comesBefore(j, i)
  PROVE  /\ view.deployed[j] = view.wanted /\ view.wanted.image \notin B
         /\ view.running[j].image = view.wanted.image /\ view.running[j].port = view.wanted.port
<1>1. Typed(AllDiffs) /\ TemplatesTyped /\ OrderInv /\ ReadInv /\ pc = "specs"
  BY Zenon DEF AllTypedInv, UpdatesInv, enforceSpec, EnforcesSpecOf, EnforcesSpecs
<1>2. view.deployed[j] = view.wanted
  BY <1>1, UpdateIsInOrder, SMTT(30)
<1>3. j \in replicas(seen) /\ heldWhenRead(B) = {}
  BY <1>1, ReplicasComeBefore, UpdatesNothingBeforeAHeldOne
<1>4. ~unsettled(B, view.deployed[j], view.running[j], view.wanted)
  BY <1>3 DEF heldWhenRead, HeldBack
<1> QED BY <1>2, <1>4, SMTT(30) DEF unsettled

\* The primary that is updated is the one that was listed: the API server refuses an
\* update of a StatefulSet that has changed since.
LEMMA UpdatesTheListedOne ==
  ASSUME PodsTyped, NEW i \in DOMAIN sts, NEW k \in DOMAIN seen, enforceSpec(k), deployed'[i] # deployed[i]
  PROVE  i = k /\ sts[i] = seen[i]
BY Zenon DEF enforceSpec, PodsTyped

\* Instances are updated in order, the primary last, for any templates, numbers of
\* replicas and time-outs: EnforceSpec turns to a StatefulSet only when the pods of
\* those before it run the wanted image and port.  It may stop verifying a pod when an
\* operation is not saved or times out early, when the deletion of a stuck pod fails, or
\* when a user returns to a template before a replica has settled with it.
THEOREM UpdatesAlwaysFollowTheOrder ==
  ASSUME StatusIsSaved, PodsAreInTime, PodsStay({})
  PROVE  SpecAll /\ [][NoEarlyReturn({})]_allVars => UpdatesFollowTheOrder
<1>1. AllTypedInv /\ UpdatesInv({}) /\ [NextAll]_allVars =>
        \A i \in DOMAIN sts : operatorUpdates(i) =>
          \A j \in DOMAIN seen : comesBefore(j, i) =>
            /\ view.deployed[j] = view.wanted
            /\ view.running[j].image = view.wanted.image
            /\ view.running[j].port = view.wanted.port
  <2> SUFFICES ASSUME AllTypedInv, UpdatesInv({}), [NextAll]_allVars, NEW i \in DOMAIN sts, operatorUpdates(i),
                      NEW j \in DOMAIN seen, comesBefore(j, i)
               PROVE  /\ view.deployed[j] = view.wanted
                      /\ view.running[j].image = view.wanted.image
                      /\ view.running[j].port = view.wanted.port
    OBVIOUS
  <2>1. PodsTyped
    BY DEF AllTypedInv, TemplatesTyped
  <2>2. i \in DOMAIN seen /\ enforceSpec(i)
    BY <2>1, TemplateSteps, Zenon DEF operatorUpdates, KeepsTemplate, GetsTemplate
  <2> QED BY <2>2, SettledBeforeAnUpdate, Zenon
<1>2. Init /\ TemplatesInit => UpdatesInv({})
  BY InitUpdates
<1>3. AllTypedInv /\ CoverInv /\ UpdatesInv({}) /\ [NextAll]_allVars /\ [NoEarlyReturn({})]_allVars =>
        UpdatesInv({})'
  BY NextUpdates
<1>4. SpecAll => [](AllTypedInv /\ CoverInv)
  BY SpecAllCover
<1> QED BY <1>1, <1>2, <1>3, <1>4, PTL DEF SpecAll, UpdatesFollowTheOrder

\* An image with which no pod gets ready never reaches the primary while there is a
\* replica, for any templates, numbers of replicas and time-outs: the update of the
\* first replica times out and the enforcer stops there (logSpecEnforcementTimedOut).
\* A replica whose pod is missing or stuck has its operation replaced or its pod deleted,
\* and a return to a broken template finds replicas that need no update: neither is verified.
THEOREM BrokenImagesAlwaysStopAtReplicas ==
  ASSUME StatusIsSaved, PodsAreInTime, PodsStay(BrokenImages)
  PROVE  SpecAll /\ [][NoEarlyReturn(BrokenImages)]_allVars => BrokenImageStopsAtReplicas
<1>1. AllTypedInv /\ UpdatesInv(BrokenImages) /\ [NextAll]_allVars =>
        \A i \in primaries(sts) :
          operatorUpdates(i) /\ replicas(seen) # {} => view.wanted.image \notin BrokenImages
  <2> SUFFICES ASSUME AllTypedInv, UpdatesInv(BrokenImages), [NextAll]_allVars,
                      NEW i \in primaries(sts), operatorUpdates(i), replicas(seen) # {}
               PROVE  view.wanted.image \notin BrokenImages
    OBVIOUS
  <2>1. PodsTyped /\ i \in DOMAIN sts /\ sts[i].role = "primary"
    BY DEF AllTypedInv, TemplatesTyped, primaries
  <2>2. i \in DOMAIN seen /\ enforceSpec(i)
    BY <2>1, TemplateSteps, SMTT(30) DEF operatorUpdates, KeepsTemplate, GetsTemplate
  <2>3. sts[i] = seen[i]
    BY <2>1, <2>2, UpdatesTheListedOne, SMTT(30) DEF operatorUpdates
  <2>4. PICK j \in replicas(seen) : TRUE
    OBVIOUS
  <2>5. j \in DOMAIN seen /\ comesBefore(j, i)
    BY <2>1, <2>3, <2>4 DEF replicas, comesBefore
  <2> QED BY <2>2, <2>5, SettledBeforeAnUpdate
<1>2. Init /\ TemplatesInit => UpdatesInv(BrokenImages)
  BY InitUpdates
<1>3. AllTypedInv /\ CoverInv /\ UpdatesInv(BrokenImages) /\ [NextAll]_allVars /\ [NoEarlyReturn(BrokenImages)]_allVars =>
        UpdatesInv(BrokenImages)'
  BY NextUpdates
<1>4. SpecAll => [](AllTypedInv /\ CoverInv)
  BY SpecAllCover
<1> QED BY <1>1, <1>2, <1>3, <1>4, PTL DEF SpecAll, BrokenImageStopsAtReplicas
=============================================================================
