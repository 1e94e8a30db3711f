-------------------------- MODULE StatusCountersProofs --------------------------
(***************************************************************************)
(* The two counters of Kubegres.Status, lastCreatedInstanceIndex and       *)
(* enforcedReplicas, agree with the StatefulSets and the volume claims     *)
(* between reconciliations, for any time-outs, any numbers of replicas and *)
(* any number of disruptions, as long as no status update is lost; and with*)
(* the automatic fail-over disabled no replica is replaced.                *)
(***************************************************************************)
EXTENDS StatefulSetCountProofs, FiniteSetTheorems

Counts(n) == Cardinality(DOMAIN sts) <= n

(***************************************************************************)
(* The inductive invariant for EnforcedReplicasCoverDeployed.  What the    *)
(* reconciliation has counted in memory is above what there is, and is     *)
(* saved if it is not what the status says.  The answer to an update of    *)
(* the Kubegres resource overwrites the counters in memory by those of the *)
(* status: the replica enforcer, which sends that update, must not run     *)
(* after the primary enforcer has counted a new primary.                   *)
(***************************************************************************)
CoverInv ==
  /\ IsFiniteSet(DOMAIN sts) /\ IsFiniteSet(DOMAIN seen)
  /\ ~outdated
  /\ status.enforced >= 0
  /\ pc = "idle" => Counts(status.enforced)
  /\ pc # "idle" => Counts(mem.enforced) /\ (~mem.changed => mem.enforced = status.enforced)
  /\ pc = "primary" => mem.enforced = status.enforced
  /\ pc \in {"primary", "replica"} => Cardinality(DOMAIN seen) <= mem.enforced
  /\ pc = "replica" /\ mem.active.id # PrimaryDbCount => status.enforced \in {0, mem.enforced}

(***************************************************************************)
(* The inductive invariant for NewIndexesAreFresh.  A new primary does not *)
(* advance the last index unless it is 0: the instance must then be created*)
(* on the claim of that index, so there must be one, and there must have   *)
(* been a primary.                                                         *)
(***************************************************************************)
Fresh(n, enforced) ==
  /\ \A i \in DOMAIN sts \cup pvcs : i <= n
  /\ n # 0 => n \in pvcs /\ enforced >= 1

FreshInv ==
  /\ ~spec.standby /\ ~mem.spec.standby
  /\ pc = "idle" => Fresh(status.last, status.enforced)
  /\ pc # "idle" => Fresh(mem.last, mem.enforced) /\ (~mem.changed => mem.last = status.last)
  /\ pc = "primary" => mem.last = status.last
  /\ pc = "replica" /\ mem.active.id # PrimaryDbCount => status.last = mem.last

\* The volume claims are kept and can be read, and the cluster is never a standby one.
ClaimsAreKept == Disruptions \cap {"deletePvc", "getPvcFails", "toggleStandby"} = {}

-----------------------------------------------------------------------------
(***************************************************************************)
(* What each step does to the counters.                                    *)
(***************************************************************************)
SameCounters(m, n) ==
  m.last = n.last /\ m.enforced = n.enforced /\ m.changed = n.changed /\ m.spec = n.spec

\* Users, pods and time create nothing and do not count.
LEMMA EnvironmentCounters ==
  ASSUME NEW D, Typed(D), Environment
  PROVE  /\ DOMAIN sts' \subseteq DOMAIN sts
         /\ "deletePvc" \notin Disruptions => pvcs' = pvcs
         /\ "toggleStandby" \notin Disruptions => spec'.standby = spec.standby
         /\ "editWhileReconciling" \notin Disruptions => (~outdated => ~outdated')
         /\ SameCounters(mem', mem) /\ mem'.active.id = mem.active.id
         /\ status'.last = status.last /\ status'.enforced = status.enforced
<1> DEFINE Goal == /\ DOMAIN sts' \subseteq DOMAIN sts
                   /\ "deletePvc" \notin Disruptions => pvcs' = pvcs
                   /\ "toggleStandby" \notin Disruptions => spec'.standby = spec.standby
                   /\ "editWhileReconciling" \notin Disruptions => (~outdated => ~outdated')
                   /\ SameCounters(mem', mem) /\ mem'.active.id = mem.active.id
                   /\ status'.last = status.last /\ status'.enforced = status.enforced
<1>1. mem' = mem => SameCounters(mem', mem) /\ mem'.active.id = mem.active.id
  BY DEF SameCounters
<1>2. ASSUME NEW i \in DOMAIN sts, PodProgress(i) \/ PodFails(i) \/ PodLost(i) PROVE Goal
  <2>1. PICK pod : SetPod(i, pod)
    BY <1>2 DEF PodProgress, PodStarts, PodBecomesReady, PodFails, PodLost
  <2>2. DOMAIN sts' = DOMAIN sts
    BY <2>1 DEF SetPod
  <2> QED BY <1>1, <2>1, <2>2 DEF SetPod, reconcileVars
<1>3. ASSUME NEW i \in DOMAIN sts, StatefulSetDeleted(i) PROVE Goal
  BY <1>1, <1>3 DEF StatefulSetDeleted, reconcileVars
<1>4. ASSUME NEW i \in pvcs, PvcDeleted(i) PROVE Goal
  BY <1>1, <1>4 DEF PvcDeleted, Happens, reconcileVars
<1>5. ASSUME NEW kind, NEW edited, UserEdits(kind, edited),
             kind = "toggleStandby" \/ edited.standby = spec.standby
      PROVE  Goal
  BY <1>1, <1>5, Zenon DEF UserEdits, Happens, reconcileVars
<1>6. CASE UserChangesSpec
  <2>1. /\ \A n : [spec EXCEPT !.replicas = n].standby = spec.standby
        /\ [spec EXCEPT !.failoverDisabled = ~@].standby = spec.standby
        /\ \A i : [spec EXCEPT !.promotePod = i].standby = spec.standby
    BY DEF Typed, Specs
  <2>2. CASE \E n \in Replicas : UserEdits("scale", [spec EXCEPT !.replicas = n])
    BY <1>5, <2>1, <2>2, Zenon
  <2>3. CASE UserEdits("toggleFailover", [spec EXCEPT !.failoverDisabled = ~@])
    BY <1>5, <2>1, <2>3, Zenon
  <2>4. CASE UserEdits("toggleStandby", [spec EXCEPT !.standby = ~@])
    BY <1>5, <2>4
  <2>5. CASE \E i \in DOMAIN sts \cup {status.last + 1} :
               UserEdits("promotePod", [spec EXCEPT !.promotePod = i])
    BY <1>5, <2>1, <2>5, Zenon
  <2> QED BY <1>6, <2>2, <2>3, <2>4, <2>5, Zenon DEF UserChangesSpec
<1>7. CASE Tick
  <2>1. mem.active \in Operation(D) /\ mem.blocking \in Operation(D) /\ status.blocking \in Operation(D)
    BY DEF Typed, MemType, StatusType
  <2>2. /\ mem'.active = Elapse(mem.active) /\ SameCounters(mem', mem)
        /\ status'.last = status.last /\ status'.enforced = status.enforced
    BY <1>7, SMTT(30) DEF Tick, Typed, MemType, StatusType, SameCounters
  <2> QED BY <1>7, <2>1, <2>2, ElapseFacts DEF Tick
<1> QED BY <1>2, <1>3, <1>4, <1>6, <1>7 DEF Environment, ClusterChanges

\* The primary enforcer counts the primary it deploys, and nothing else.  A primary
\* that is deployed on the last claim does not advance the last index.
LEMMA PrimaryCounters ==
  ASSUME NEW D, {} \in D, Typed(D), initialised = mem, EnforcePrimaryDb
  PROVE  /\ pc = "primary" /\ pc' \in {"replica", "save"} /\ UNCHANGED <<spec, status, seen, outdated>>
         /\ mem'.spec = mem.spec
         /\ \/ /\ DOMAIN sts' \subseteq DOMAIN sts /\ pvcs' = pvcs
               /\ mem'.last = mem.last /\ mem'.enforced = mem.enforced
            \/ /\ deploysPrimary
               /\ pc' = "replica" /\ mem'.active.id = PrimaryDbCount /\ mem'.changed = TRUE
               /\ mem'.enforced = mem.enforced + 1
               /\ mem'.last = IF mem.last = 0 THEN 1 ELSE mem.last
               /\ \E i \in {mem.last, mem.last + 1} :
                    /\ DOMAIN sts' = DOMAIN sts \cup {i} /\ pvcs' = pvcs \cup {i}
                    /\ mem.last = 0 => i = 1
                    /\ (mem.spec.replicas <= 1 /\ mem.last # 0 /\ mem.last \in pvcs
                          /\ "getPvcFails" \notin Disruptions) => i = mem.last
<1> DEFINE Same == /\ DOMAIN sts' \subseteq DOMAIN sts /\ pvcs' = pvcs
                   /\ mem'.last = mem.last /\ mem'.enforced = mem.enforced
           Kept(m) == m.last = mem.last /\ m.enforced = mem.enforced /\ m.spec = mem.spec
<1>1. reEnabled \in MemType(D) /\ Kept(reEnabled)
  BY ReEnabledFacts DEF Typed
<1>2. ASSUME NEW step \in {"WaitingBeforeFailingOver", "FailingOver", "PrimaryDbDeploying"}, NEW i \in Nat
      PROVE  LET a == activateOperation(reEnabled, step, i, {})
             IN a \in MemType(D) /\ a.active.id = PrimaryDbCount /\ a.changed = TRUE
                /\ Kept(a) /\ Kept(RemoveActiveOperation(a))
  <2> DEFINE a == activateOperation(reEnabled, step, i, {})
  <2>0. step \in Steps /\ OperationIdOf[step] = PrimaryDbCount
    BY StepIds
  <2>1. /\ a \in MemType(D) /\ a.active.id = PrimaryDbCount
        /\ a.last = reEnabled.last /\ a.enforced = reEnabled.enforced /\ a.spec = reEnabled.spec
    BY <1>1, <2>0, ActivateFacts
  <2>2. a.changed = TRUE
    BY <1>1, ActivateChanges, Zenon
  <2> HIDE DEF a
  <2>3. Kept(RemoveActiveOperation(a))
    BY <1>1, <2>1, <2>2, RemoveFacts, Zenon DEF RemoveActiveOperation
  <2> QED BY <1>1, <2>1, <2>2, <2>3, SMTT(30) DEF a
<1> HIDE DEF Kept
<1>3. ASSUME NEW m, NEW next \in {"replica", "save"}, PrimaryEnforced(m, next), Kept(m),
             DOMAIN sts' \subseteq DOMAIN sts, pvcs' = pvcs
      PROVE  /\ pc' \in {"replica", "save"} /\ UNCHANGED <<spec, status, seen, outdated>>
             /\ mem'.spec = mem.spec /\ Same
  BY <1>3 DEF PrimaryEnforced, Kept
<1>4. CASE PrimaryUnchanged
  BY <1>1, <1>3, <1>4 DEF PrimaryUnchanged, Kept
<1>5. CASE FailOverRefused
  BY <1>1, <1>3, <1>5, SMTT(30) DEF FailOverRefused, failsOver, EnforcesPrimary
<1>6. CASE waitBeforePromotingReplicaToPrimary
  <2>1. DOMAIN sts' \subseteq DOMAIN sts /\ pvcs' = pvcs /\ pc = "primary"
    BY <1>6 DEF waitBeforePromotingReplicaToPrimary, DeletePrimary, failsOver, EnforcesPrimary
  <2>2. PICK i \in selectReplicaToPromote(reEnabled, seen) :
          PrimaryEnforced(activateOperation(reEnabled, "WaitingBeforeFailingOver", i, {}), "replica")
    BY <1>6 DEF waitBeforePromotingReplicaToPrimary
  <2>3. i \in Nat
    BY InstanceIndexes DEF Typed
  <2> QED BY <1>2, <1>3, <2>1, <2>2, <2>3, Zenon
<1>7. CASE promoteReplicaToPrimary
  <2>1. PICK i \in selectReplicaToPromote(reEnabled, seen) :
          LET promoting == activateOperation(reEnabled, "FailingOver", i, {}) IN
          /\ \/ PrimaryEnforced(promoting, "replica")
             \/ PrimaryEnforced(RemoveActiveOperation(promoting), "replica")
          /\ UNCHANGED sts \/ \E w : sts' = [sts EXCEPT ![i] = w]
    BY <1>7 DEF promoteReplicaToPrimary
  <2>2. DOMAIN sts' \subseteq DOMAIN sts /\ pvcs' = pvcs /\ pc = "primary"
    BY <1>7, <2>1, SMTT(30) DEF promoteReplicaToPrimary, failsOver, EnforcesPrimary
  <2>3. i \in Nat
    BY InstanceIndexes DEF Typed
  <2> QED BY <1>2, <1>3, <2>1, <2>2, <2>3, Zenon
<1>8. CASE deployNewPrimaryStatefulSet
  <2>1. PICK unread \in SUBSET {"getPvcFails"} :
          LET i == primaryInstanceIndex(reEnabled, unread = {} /\ reEnabled.last \in pvcs)
              deploying == activateOperation(reEnabled, "PrimaryDbDeploying", i, {})
          IN \/ /\ sts' = Created(i, "primary")
                /\ pvcs' = pvcs \cup {i}
                /\ PrimaryEnforced([deploying EXCEPT !.enforced = @ + 1,
                                                     !.last = IF @ = 0 THEN 1 ELSE @], "replica")
                /\ Happens(unread)
             \/ /\ PrimaryEnforced(RemoveActiveOperation(deploying), "save")
                /\ UNCHANGED <<sts, pvcs>>
    BY <1>8, Zenon DEF deployNewPrimaryStatefulSet
  <2> DEFINE i == primaryInstanceIndex(reEnabled, unread = {} /\ reEnabled.last \in pvcs)
             a == activateOperation(reEnabled, "PrimaryDbDeploying", i, {})
             n == IF a.last = 0 THEN 1 ELSE a.last
             deployed == [a EXCEPT !.enforced = a.enforced + 1, !.last = n]
  <2>2. /\ mem.last \in Nat /\ i \in {mem.last, mem.last + 1} /\ i \in Nat
        /\ mem.last = 0 => i = 1
        /\ mem.spec.replicas <= 1 /\ mem.last # 0 /\ mem.last \in pvcs /\ unread = {} => i = mem.last
    BY <1>1 DEF primaryInstanceIndex, getInstanceIndexIfPrimaryNeedsToBeRecreated, Kept, MemType
  <2>3. unread # {} /\ Happens(unread) => "getPvcFails" \in Disruptions
    BY Zenon DEF Happens
  <2>4. \/ /\ sts' = Created(i, "primary") /\ pvcs' = pvcs \cup {i} /\ PrimaryEnforced(deployed, "replica")
           /\ Happens(unread)
        \/ UNCHANGED <<sts, pvcs>> /\ PrimaryEnforced(RemoveActiveOperation(a), "save")
    BY <2>1
  <2> HIDE DEF i
  <2>5. a \in MemType(D) /\ a.active.id = PrimaryDbCount /\ a.changed = TRUE
        /\ Kept(a) /\ Kept(RemoveActiveOperation(a))
    BY <1>2, <2>2, Zenon
  <2> HIDE DEF a
  <2>6. /\ deployed.last = n /\ deployed.enforced = a.enforced + 1 /\ deployed.spec = a.spec
        /\ deployed.active = a.active /\ deployed.changed = a.changed
    BY <2>5 DEF MemType
  <2> HIDE DEF deployed
  <2>7. deploysPrimary /\ pc = "primary"
    BY <1>8 DEF deployNewPrimaryStatefulSet, deploysPrimary, EnforcesPrimary
  <2>8. CASE UNCHANGED <<sts, pvcs>> /\ PrimaryEnforced(RemoveActiveOperation(a), "save")
    BY <1>3, <2>5, <2>7, <2>8, SMTT(30)
  <2>9. CASE /\ sts' = Created(i, "primary") /\ pvcs' = pvcs \cup {i} /\ PrimaryEnforced(deployed, "replica")
             /\ Happens(unread)
    <3>1. DOMAIN sts' = DOMAIN sts \cup {i}
      BY <2>9 DEF Created
    <3>2. mem' = deployed /\ pc' = "replica" /\ UNCHANGED <<spec, status, seen, outdated>>
      BY <2>9 DEF PrimaryEnforced
    <3>3. /\ mem'.enforced = mem.enforced + 1 /\ mem'.last = (IF mem.last = 0 THEN 1 ELSE mem.last)
          /\ mem'.spec = mem.spec /\ mem'.active.id = PrimaryDbCount /\ mem'.changed = TRUE
      BY <2>5, <2>6, <3>2, SMTT(30) DEF Kept
    <3> QED BY <2>2, <2>3, <2>7, <2>9, <3>1, <3>2, <3>3, Zenon
  <2> QED BY <2>4, <2>8, <2>9, Zenon
<1> QED BY <1>4, <1>5, <1>6, <1>7, <1>8, Zenon DEF EnforcePrimaryDb

\* The replica enforcer counts the replica it deploys or undeploys, from the counters
\* in memory or from those the API server answered with.
LEMMA ReplicaCounters ==
  ASSUME NEW D, {} \in D, Typed(D), EnforceReplicaDb
  PROVE  /\ pc = "replica" /\ pc' \in {"services", "save"} /\ UNCHANGED <<status, seen, outdated>>
         /\ spec'.standby = spec.standby /\ mem'.spec.standby = mem.spec.standby
         /\ mem.changed => mem'.changed
         /\ \E n \in {mem.last, orElse(status.last, mem.last, 0)},
               e \in {mem.enforced, orElse(status.enforced, mem.enforced, 0)} :
              /\ EnforcesReplicas \/ (n = mem.last /\ e = mem.enforced)
              /\ \/ /\ DOMAIN sts' = DOMAIN sts /\ pvcs' = pvcs
                    /\ mem'.last = n /\ mem'.enforced = e
                 \/ /\ EnforcesReplicas /\ mem'.changed = TRUE
                    /\ DOMAIN sts' = DOMAIN sts \cup {n + 1} /\ pvcs' = pvcs \cup {n + 1}
                    /\ mem'.last = n + 1 /\ mem'.enforced = e + 1
                 \/ /\ EnforcesReplicas /\ mem'.changed = TRUE
                    /\ \E i \in replicas(seen) \cap DOMAIN sts : DOMAIN sts' = DOMAIN sts \ {i}
                    /\ pvcs' = pvcs
                    /\ mem'.last = n /\ mem'.enforced = e - 1
<1> DEFINE ResetSpec == spec'.standby = spec.standby
           Held(m) == /\ m \in MemType(D) /\ m.spec.standby = mem.spec.standby
                      /\ mem.changed => m.changed
                      /\ m.last \in {mem.last, orElse(status.last, mem.last, 0)}
                      /\ m.enforced \in {mem.enforced, orElse(status.enforced, mem.enforced, 0)}
           Goal == /\ pc = "replica" /\ pc' \in {"services", "save"} /\ UNCHANGED <<status, seen, outdated>>
                   /\ spec'.standby = spec.standby /\ mem'.spec.standby = mem.spec.standby
                   /\ mem.changed => mem'.changed
                   /\ \E n \in {mem.last, orElse(status.last, mem.last, 0)},
                         e \in {mem.enforced, orElse(status.enforced, mem.enforced, 0)} :
                        /\ EnforcesReplicas \/ (n = mem.last /\ e = mem.enforced)
                        /\ \/ /\ DOMAIN sts' = DOMAIN sts /\ pvcs' = pvcs
                              /\ mem'.last = n /\ mem'.enforced = e
                           \/ /\ EnforcesReplicas /\ mem'.changed = TRUE
                              /\ DOMAIN sts' = DOMAIN sts \cup {n + 1} /\ pvcs' = pvcs \cup {n + 1}
                              /\ mem'.last = n + 1 /\ mem'.enforced = e + 1
                           \/ /\ EnforcesReplicas /\ mem'.changed = TRUE
                              /\ \E i \in replicas(seen) \cap DOMAIN sts : DOMAIN sts' = DOMAIN sts \ {i}
                              /\ pvcs' = pvcs
                              /\ mem'.last = n /\ mem'.enforced = e - 1
<1>1. fixedReplica \in MemType(D) /\ fixedReplica.spec.standby = mem.spec.standby
      /\ fixedReplica.last = mem.last /\ fixedReplica.enforced = mem.enforced
      /\ (mem.changed => fixedReplica.changed)
  BY FixedReplicaFacts, Zenon DEF Typed
<1>2. ASSUME NEW r \in ResetOutcome(fixedReplica) PROVE Held(r.mem)
  <2>1. /\ r.mem \in MemType(D) /\ r.mem.changed = fixedReplica.changed
        /\ r.mem.spec.standby = fixedReplica.spec.standby
        /\ r.mem.last \in {fixedReplica.last, orElse(status.last, fixedReplica.last, 0)}
        /\ r.mem.enforced \in {fixedReplica.enforced, orElse(status.enforced, fixedReplica.enforced, 0)}
    BY <1>1, ResetFacts DEF Typed
  <2> QED BY <1>1, <2>1
<1>3. ASSUME NEW r, Reset(r) PROVE spec'.standby = spec.standby
  <2>1. [spec EXCEPT !.promotePod = 0].standby = spec.standby
    BY DEF Typed, Specs
  <2> QED BY <1>3, <2>1 DEF Reset
<1>4. ASSUME NEW m, Held(m), NEW step \in {"ReplicaDbDeploying", "ReplicaDbUndeploying"}, NEW i \in Nat
      PROVE  LET a == activateOperation(m, step, i, {})
             IN /\ a \in MemType(D) /\ Held(a) /\ a.last = m.last /\ a.enforced = m.enforced /\ a.changed = TRUE
                /\ Held(RemoveActiveOperation(a))
  <2> DEFINE a == activateOperation(m, step, i, {})
  <2>0. step \in Steps /\ m \in MemType(D)
    BY <1>4, StepIds
  <2>1. /\ a \in MemType(D)
        /\ a.last = m.last /\ a.enforced = m.enforced /\ a.spec = m.spec
    BY <2>0, ActivateFacts
  <2>2. a.changed = TRUE
    BY <2>0, ActivateChanges, Zenon
  <2> HIDE DEF a
  <2>3. LET b == RemoveActiveOperation(a)
        IN b \in MemType(D) /\ b.changed = TRUE /\ b.last = a.last /\ b.enforced = a.enforced /\ b.spec = a.spec
    BY <2>1, RemoveFacts, Zenon DEF RemoveActiveOperation
  <2> QED BY <1>4, <2>1, <2>2, <2>3 DEF a
<1> HIDE DEF Held
<1>5. ASSUME NEW m, Held(m), NEW next \in {"services", "save"}, ReplicasEnforced(m, next),
             EnforcesReplicas, NEW r, Reset(r), UNCHANGED <<sts, pvcs>>
      PROVE  Goal
  <2>1. mem' = m /\ pc' = next /\ UNCHANGED <<status, seen, outdated>> /\ pc = "replica"
    BY <1>5, SMTT(30) DEF ReplicasEnforced, EnforcesReplicas
  <2> QED BY <1>3, <1>5, <2>1 DEF Held
<1>6. CASE deployReplicaStatefulSet
  <2>1. PICK r \in ResetOutcome(fixedReplica) :
          LET i == r.mem.last + 1
              deploying == activateOperation(r.mem, "ReplicaDbDeploying", i, {})
          IN /\ Reset(r)
             /\ \/ /\ sts' = Created(i, "replica") /\ pvcs' = pvcs \cup {i}
                   /\ ReplicasEnforced(replicaDeployed(deploying, i), "services")
                \/ ReplicasEnforced(RemoveActiveOperation(deploying), "save") /\ UNCHANGED <<sts, pvcs>>
    BY <1>6 DEF deployReplicaStatefulSet
  <2> DEFINE i == r.mem.last + 1
             a == activateOperation(r.mem, "ReplicaDbDeploying", i, {})
             deployed == [a EXCEPT !.enforced = a.enforced + 1, !.last = i, !.changed = TRUE]
  <2>2. Held(r.mem) /\ i \in Nat /\ EnforcesReplicas
    BY <1>2, <1>6 DEF Held, MemType, deployReplicaStatefulSet
  <2>3. \/ sts' = Created(i, "replica") /\ pvcs' = pvcs \cup {i} /\ ReplicasEnforced(deployed, "services")
        \/ ReplicasEnforced(RemoveActiveOperation(a), "save") /\ UNCHANGED <<sts, pvcs>>
    BY <2>1 DEF replicaDeployed
  <2>4. /\ a \in MemType(D) /\ Held(a) /\ a.last = r.mem.last /\ a.enforced = r.mem.enforced
        /\ a.changed = TRUE /\ Held(RemoveActiveOperation(a))
    BY <1>4, <2>2, Zenon
  <2> HIDE DEF a
  <2>5. /\ deployed.last = i /\ deployed.enforced = a.enforced + 1
        /\ deployed.spec = a.spec /\ deployed.changed = TRUE
    BY <2>4 DEF MemType
  <2> HIDE DEF deployed
  <2>6. CASE ReplicasEnforced(RemoveActiveOperation(a), "save") /\ UNCHANGED <<sts, pvcs>>
    BY <1>5, <2>1, <2>2, <2>4, <2>6, Zenon
  <2>7. CASE sts' = Created(i, "replica") /\ pvcs' = pvcs \cup {i} /\ ReplicasEnforced(deployed, "services")
    <3>1. /\ mem' = deployed /\ pc' = "services" /\ UNCHANGED <<status, seen, outdated>>
          /\ pc = "replica" /\ DOMAIN sts' = DOMAIN sts \cup {i}
      BY <2>2, <2>7, SMTT(30) DEF ReplicasEnforced, EnforcesReplicas, Created
    <3> QED BY <1>3, <2>1, <2>2, <2>4, <2>5, <2>7, <3>1, Zenon DEF Held
  <2> QED BY <2>3, <2>6, <2>7, Zenon
<1>7. CASE undeployReplicaStatefulSets
  <2>1. PICK r \in ResetOutcome(fixedReplica), i \in replicaToUndeploy :
          LET undeploying == activateOperation(r.mem, "ReplicaDbUndeploying", i, {})
          IN /\ Reset(r)
             /\ \/ /\ i \in DOMAIN sts /\ sts' = Deleted(i)
                   /\ ReplicasEnforced([undeploying EXCEPT !.enforced = @ - 1], "services")
                \/ ReplicasEnforced(RemoveActiveOperation(undeploying), "save") /\ UNCHANGED sts
    BY <1>7 DEF undeployReplicaStatefulSets
  <2> DEFINE a == activateOperation(r.mem, "ReplicaDbUndeploying", i, {})
             undeployed == [a EXCEPT !.enforced = a.enforced - 1]
  <2>2. Held(r.mem) /\ i \in Nat /\ i \in replicas(seen) /\ EnforcesReplicas /\ pvcs' = pvcs
    BY <1>2, <1>7, InstanceIndexes DEF Typed, undeployReplicaStatefulSets
  <2>3. \/ i \in DOMAIN sts /\ sts' = Deleted(i) /\ ReplicasEnforced(undeployed, "services")
        \/ ReplicasEnforced(RemoveActiveOperation(a), "save") /\ UNCHANGED sts
    BY <2>1
  <2>4. /\ a \in MemType(D) /\ Held(a) /\ a.last = r.mem.last /\ a.enforced = r.mem.enforced
        /\ a.changed = TRUE /\ Held(RemoveActiveOperation(a))
    BY <1>4, <2>2, Zenon
  <2> HIDE DEF a
  <2>5. /\ undeployed.last = a.last /\ undeployed.enforced = a.enforced - 1
        /\ undeployed.spec = a.spec /\ undeployed.changed = TRUE
    BY <2>4 DEF MemType
  <2> HIDE DEF undeployed
  <2>6. CASE ReplicasEnforced(RemoveActiveOperation(a), "save") /\ UNCHANGED sts
    BY <1>5, <2>1, <2>2, <2>4, <2>6, Zenon
  <2>7. CASE i \in DOMAIN sts /\ sts' = Deleted(i) /\ ReplicasEnforced(undeployed, "services")
    <3>1. /\ mem' = undeployed /\ pc' = "services" /\ UNCHANGED <<status, seen, outdated>>
          /\ pc = "replica" /\ DOMAIN sts' = DOMAIN sts \ {i}
      BY <2>2, <2>7, SMTT(30) DEF ReplicasEnforced, EnforcesReplicas, Deleted
    <3> QED BY <1>3, <2>1, <2>2, <2>4, <2>5, <2>7, <3>1 DEF Held
  <2> QED BY <2>3, <2>6, <2>7, Zenon
<1>8. CASE ReplicasUnchanged
  BY <1>2, <1>5, <1>8, Zenon DEF ReplicasUnchanged
<1>9. CASE ReplicasSkipped
  <2>1. mem' \in {mem, fixedReplica} /\ pc' = "services" /\ pc = "replica"
        /\ UNCHANGED <<spec, sts, pvcs, status, seen, outdated>>
    BY <1>9 DEF ReplicasSkipped, ReplicasEnforced
  <2> QED BY <1>1, <2>1
<1> QED BY <1>6, <1>7, <1>8, <1>9, Zenon DEF EnforceReplicaDb

-----------------------------------------------------------------------------
(***************************************************************************)
(* The enforced replicas.                                                  *)
(***************************************************************************)
\* Counting finite sets of instances.
LEMMA Count ==
  ASSUME NEW S, IsFiniteSet(S)
  PROVE  /\ Cardinality(S) \in Nat
         /\ \A T \in SUBSET S : IsFiniteSet(T) /\ Cardinality(T) <= Cardinality(S)
         /\ \A i : IsFiniteSet(S \cup {i}) /\ Cardinality(S \cup {i}) <= Cardinality(S) + 1
         /\ \A i \in S : IsFiniteSet(S \ {i}) /\ Cardinality(S \ {i}) = Cardinality(S) - 1
<1>1. Cardinality(S) \in Nat
  BY FS_CardinalityType
<1>2. ASSUME NEW T \in SUBSET S PROVE IsFiniteSet(T) /\ Cardinality(T) <= Cardinality(S)
  BY FS_Subset
<1>3. ASSUME NEW i PROVE IsFiniteSet(S \cup {i}) /\ Cardinality(S \cup {i}) <= Cardinality(S) + 1
  <2>1. CASE i \in S
    <3>1. S \cup {i} = S
      BY <2>1
    <3>2. Cardinality(S) <= Cardinality(S) + 1
      BY <1>1
    <3> QED BY <3>1, <3>2, Zenon
  <2>2. CASE i \notin S
    BY <1>1, <2>2, FS_AddElement
  <2> QED BY <2>1, <2>2
<1>4. ASSUME NEW i \in S PROVE IsFiniteSet(S \ {i}) /\ Cardinality(S \ {i}) = Cardinality(S) - 1
  BY <1>1, FS_RemoveElement
<1> QED BY <1>1, <1>2, <1>3, <1>4, Zenon

\* A ready primary and a replica are two instances.
LEMMA TwoInstances ==
  ASSUME IsFiniteSet(DOMAIN seen), isPrimaryDbReady(seen), replicas(seen) # {}
  PROVE  Cardinality(DOMAIN seen) >= 2
<1>1. PICK i \in primaries(seen), j \in replicas(seen) : TRUE
  BY DEF isPrimaryDbReady
<1>2. i \in DOMAIN seen /\ j \in DOMAIN seen /\ i # j
  BY <1>1 DEF primaries, replicas
<1>3. /\ IsFiniteSet(DOMAIN seen \ {i}) /\ Cardinality(DOMAIN seen \ {i}) = Cardinality(DOMAIN seen) - 1
      /\ IsFiniteSet((DOMAIN seen \ {i}) \ {j})
      /\ Cardinality((DOMAIN seen \ {i}) \ {j}) = Cardinality(DOMAIN seen \ {i}) - 1
  BY <1>2, Count
<1>4. Cardinality((DOMAIN seen \ {i}) \ {j}) \in Nat /\ Cardinality(DOMAIN seen) \in Nat
  BY <1>3, Count
<1> QED BY <1>3, <1>4

\* The environment leaves no more instances than were counted.
LEMMA EnvironmentCover ==
  ASSUME NEW D, {} \in D, Typed(D), StatusIsSaved PROVE CoverInv /\ Environment => CoverInv'
<1> SUFFICES ASSUME CoverInv, Environment PROVE CoverInv'
  OBVIOUS
<1>1. pc' = pc /\ seen' = seen
  BY EnvironmentPc
<1>2. /\ DOMAIN sts' \subseteq DOMAIN sts /\ ~outdated'
      /\ mem'.enforced = mem.enforced /\ mem'.changed = mem.changed /\ mem'.active.id = mem.active.id
      /\ status'.enforced = status.enforced
  BY EnvironmentCounters DEF StatusIsSaved, CoverInv, SameCounters
<1>3. /\ IsFiniteSet(DOMAIN sts') /\ Cardinality(DOMAIN sts') <= Cardinality(DOMAIN sts)
      /\ Cardinality(DOMAIN sts') \in Nat /\ Cardinality(DOMAIN sts) \in Nat
  BY <1>2, Count DEF CoverInv
<1>4. mem.enforced \in Int /\ status.enforced \in Int
  BY DEF Typed, MemType, StatusType
<1> QED BY <1>1, <1>2, <1>3, <1>4 DEF CoverInv, Counts

\* The primary is deployed when there is no instance, and counted.
LEMMA PrimaryCover ==
  ASSUME NEW D, {} \in D, Typed(D) PROVE CoverInv /\ EnforcePrimaryDb => CoverInv'
<1> SUFFICES ASSUME CoverInv, EnforcePrimaryDb PROVE CoverInv'
  OBVIOUS
<1>0. pc = "primary"
  BY Zenon DEF EnforcePrimaryDb, PrimaryUnchanged, FailOverRefused, waitBeforePromotingReplicaToPrimary,
         promoteReplicaToPrimary, deployNewPrimaryStatefulSet, failsOver, deploysPrimary, EnforcesPrimary
<1>1. /\ Cardinality(DOMAIN sts) \in Nat /\ Cardinality(DOMAIN seen) \in Nat
      /\ mem.enforced \in Int /\ status.enforced \in Int
  BY Count DEF CoverInv, Typed, MemType, StatusType
<1>2. initialised = mem
  BY <1>0, <1>1, ReEnabledFacts DEF Typed, CoverInv
<1>3. /\ pc' \in {"replica", "save"} /\ UNCHANGED <<status, seen, outdated>>
  BY <1>2, PrimaryCounters, Zenon
<1>4. CASE DOMAIN sts' \subseteq DOMAIN sts /\ mem'.enforced = mem.enforced
  <2>1. /\ IsFiniteSet(DOMAIN sts') /\ Cardinality(DOMAIN sts') <= Cardinality(DOMAIN sts)
        /\ Cardinality(DOMAIN sts') \in Nat
    BY <1>4, Count DEF CoverInv
  <2> QED BY <1>0, <1>1, <1>3, <1>4, <2>1 DEF CoverInv, Counts
<1>5. CASE /\ deploysPrimary /\ pc' = "replica" /\ mem'.active.id = PrimaryDbCount /\ mem'.changed = TRUE
           /\ mem'.enforced = mem.enforced + 1
           /\ \E i : DOMAIN sts' = DOMAIN sts \cup {i}
  <2>1. IsFiniteSet(DOMAIN sts') /\ Cardinality(DOMAIN sts') <= Cardinality(DOMAIN sts) + 1
        /\ Cardinality(DOMAIN sts') \in Nat
    BY <1>5, Count, Zenon DEF CoverInv
  <2> QED BY <1>0, <1>1, <1>3, <1>5, <2>1 DEF CoverInv, Counts
<1> QED BY <1>2, <1>4, <1>5, PrimaryCounters, Zenon

\* A replica is deployed and undeployed from the counters that the primary enforcer left.
LEMMA ReplicaCover ==
  ASSUME NEW D, {} \in D, Typed(D) PROVE CoverInv /\ EnforceReplicaDb => CoverInv'
<1> SUFFICES ASSUME CoverInv, EnforceReplicaDb PROVE CoverInv'
  OBVIOUS
<1>1. /\ pc = "replica" /\ pc' \in {"services", "save"} /\ UNCHANGED <<status, seen, outdated>>
      /\ mem.changed => mem'.changed
  BY ReplicaCounters, Zenon
<1>2. /\ Cardinality(DOMAIN sts) \in Nat /\ Cardinality(DOMAIN seen) \in Nat
      /\ mem.enforced \in Int /\ status.enforced \in Int
  BY Count DEF CoverInv, Typed, MemType, StatusType
<1>3. EnforcesReplicas => mem.active.id # PrimaryDbCount
  BY StepIds DEF EnforcesReplicas, IsActiveOperationIdDifferentOf, isThereActiveOperation
<1>4. EnforcesReplicas => orElse(status.enforced, mem.enforced, 0) = mem.enforced
  BY <1>1, <1>3, SMTT(30) DEF CoverInv, orElse
<1>5. CASE DOMAIN sts' = DOMAIN sts /\ mem'.enforced = mem.enforced
  BY <1>1, <1>5, SMTT(30) DEF CoverInv, Counts
<1>6. CASE /\ mem'.changed = TRUE /\ \E i : DOMAIN sts' = DOMAIN sts \cup {i}
           /\ mem'.enforced = mem.enforced + 1
  <2>1. IsFiniteSet(DOMAIN sts') /\ Cardinality(DOMAIN sts') <= Cardinality(DOMAIN sts) + 1
        /\ Cardinality(DOMAIN sts') \in Nat
    BY <1>6, Count, Zenon DEF CoverInv
  <2> QED BY <1>1, <1>2, <1>6, <2>1 DEF CoverInv, Counts
<1>7. CASE /\ mem'.changed = TRUE /\ \E i \in DOMAIN sts : DOMAIN sts' = DOMAIN sts \ {i}
           /\ mem'.enforced = mem.enforced - 1
  <2>1. IsFiniteSet(DOMAIN sts') /\ Cardinality(DOMAIN sts') = Cardinality(DOMAIN sts) - 1
    BY <1>7, Count DEF CoverInv
  <2> QED BY <1>1, <1>2, <1>7, <2>1 DEF CoverInv, Counts
<1> QED BY <1>4, <1>5, <1>6, <1>7, ReplicaCounters, Zenon

\* The counters are read and saved as they are.
LEMMA BeginsOrEndsCover ==
  ASSUME NEW D, {} \in D, Typed(D), StatusIsSaved PROVE CoverInv /\ BeginsOrEnds => CoverInv'
<1> SUFFICES ASSUME CoverInv, BeginsOrEnds PROVE CoverInv'
  OBVIOUS
<1>1. ASSUME NEW reached, LoadWith(reached) PROVE CoverInv'
  <2>1. fetched \in MemType(D) /\ fetched.last = status.last /\ fetched.enforced = status.enforced
    BY FetchedFacts, SMTT(30)
  <2>2. mem'.enforced = status.enforced /\ seen' = sts /\ pc = "idle" /\ pc' \in {"primary", "save"}
        /\ UNCHANGED <<status, sts, outdated>>
    BY <1>1, <2>1, LoadFacts DEF LoadWith
  <2> QED BY <2>2 DEF CoverInv, Counts
<1>2. ASSUME EndReconciliation PROVE IsFiniteSet(DOMAIN seen') /\ UNCHANGED sts /\ pc' = "idle" /\ ~outdated'
  <2>1. DOMAIN NoStatefulSets = {}
    BY DEF NoStatefulSets
  <2> QED BY <1>2, <2>1, FS_EmptySet DEF EndReconciliation
<1>3. CASE SaveStatus
  <2>1. CASE mem.changed
    <3>1. status'.enforced = mem.enforced /\ pc \in {"services", "save"}
      BY <1>3, <2>1 DEF SaveStatus, instancesEnforced
    <3>2. Cardinality(DOMAIN sts) \in Nat /\ mem.enforced \in Int
      BY Count DEF CoverInv, Typed, MemType
    <3> QED BY <1>2, <1>3, <3>1, <3>2 DEF SaveStatus, CoverInv, Counts
  <2>2. CASE ~mem.changed
    <3>1. status' = status /\ pc \in {"services", "save"}
      BY <1>3, <2>2 DEF SaveStatus, instancesEnforced
    <3> QED BY <1>2, <1>3, <2>2, <3>1 DEF SaveStatus, CoverInv, Counts
  <2> QED BY <2>1, <2>2
<1>4. CASE SaveRefused
  BY <1>4 DEF SaveRefused, StatusIsSaved, Happens, CoverInv
<1>5. CASE Crash
  BY <1>5 DEF Crash, StatusIsSaved, Happens
<1>6. CASE UNCHANGED clusterVars
  BY <1>6 DEF clusterVars, CoverInv, Counts
<1> QED BY <1>1, <1>3, <1>4, <1>5, <1>6 DEF BeginsOrEnds

\* There is nothing to count when the Kubegres resource is created.
LEMMA InitCover == Init => CoverInv
<1>1. DOMAIN NoStatefulSets = {} /\ Cardinality({}) = 0 /\ IsFiniteSet({})
  BY FS_EmptySet DEF NoStatefulSets
<1> QED BY <1>1 DEF Init, CoverInv, Counts

\* When a reconciliation is not running, enforcedReplicas is at least the number of
\* deployed instances, whatever pods, users and failing calls do to them, as long as
\* every update of the status succeeds: the counter follows each StatefulSet that
\* deployNewPrimaryStatefulSet and deployReplicaStatefulSet create, so a cluster
\* that lost its instances is still known to have had a primary.
THEOREM EnforcedReplicasCover ==
  StatusIsSaved => (Spec => []EnforcedReplicasCoverDeployed)
<1> SUFFICES ASSUME StatusIsSaved PROVE Spec => []EnforcedReplicasCoverDeployed
  OBVIOUS
<1>1. Init => CoverInv
  BY InitCover
<1>2. Typed({{}}) /\ CoverInv /\ [Next]_clusterVars => CoverInv'
  BY NextCases, EnvironmentCover, PrimaryCover, ReplicaCover, BeginsOrEndsCover
<1>3. CoverInv => EnforcedReplicasCoverDeployed
  BY DEF CoverInv, Counts, EnforcedReplicasCoverDeployed
<1>4. Spec => [](Typed({{}}) /\ PcTyped)
  BY SpecTyped
<1> QED BY <1>1, <1>2, <1>3, <1>4, PTL DEF Spec

-----------------------------------------------------------------------------
(***************************************************************************)
(* The indexes of new instances.                                           *)
(***************************************************************************)
\* Instances and claims disappear, the claim of the last index does not.
LEMMA EnvironmentFresh ==
  ASSUME NEW D, {} \in D, Typed(D), ClaimsAreKept PROVE FreshInv /\ Environment => FreshInv'
<1> SUFFICES ASSUME FreshInv, Environment PROVE FreshInv'
  OBVIOUS
<1>1. pc' = pc
  BY EnvironmentPc
<1>2. /\ DOMAIN sts' \subseteq DOMAIN sts /\ pvcs' = pvcs
      /\ SameCounters(mem', mem) /\ mem'.active.id = mem.active.id /\ spec'.standby = spec.standby
      /\ status'.enforced = status.enforced /\ status'.last = status.last
  BY EnvironmentCounters DEF ClaimsAreKept
<1> QED BY <1>1, <1>2 DEF FreshInv, Fresh, SameCounters

\* A primary is created at index 1, or on the claim of the last index.
LEMMA PrimaryFresh ==
  ASSUME NEW D, {} \in D, Typed(D), ClaimsAreKept, CoverInv
  PROVE  FreshInv /\ EnforcePrimaryDb => FreshInv'
<1> SUFFICES ASSUME FreshInv, EnforcePrimaryDb PROVE FreshInv'
  OBVIOUS
<1>0. pc = "primary"
  BY Zenon DEF EnforcePrimaryDb, PrimaryUnchanged, FailOverRefused, waitBeforePromotingReplicaToPrimary,
         promoteReplicaToPrimary, deployNewPrimaryStatefulSet, failsOver, deploysPrimary, EnforcesPrimary
<1>1. /\ Cardinality(DOMAIN seen) \in Nat /\ mem.last \in Nat
      /\ mem.enforced \in Int /\ status.enforced \in Int /\ mem.spec.replicas \in Nat
  BY Count, SMTT(30) DEF CoverInv, Typed, MemType, StatusType, Specs
<1>2. initialised = mem
  BY <1>0, <1>1, ReEnabledFacts DEF Typed, CoverInv
<1>3. /\ pc' \in {"replica", "save"} /\ UNCHANGED <<spec, status>> /\ mem'.spec = mem.spec
  BY <1>2, PrimaryCounters, Zenon
<1>4. CASE DOMAIN sts' \subseteq DOMAIN sts /\ pvcs' = pvcs /\ mem'.last = mem.last /\ mem'.enforced = mem.enforced
  BY <1>0, <1>3, <1>4 DEF FreshInv, Fresh
<1>5. ASSUME deploysPrimary, pc' = "replica", mem'.active.id = PrimaryDbCount, mem'.changed = TRUE,
             mem'.enforced = mem.enforced + 1, mem'.last = IF mem.last = 0 THEN 1 ELSE mem.last,
             NEW i \in {mem.last, mem.last + 1},
             DOMAIN sts' = DOMAIN sts \cup {i}, pvcs' = pvcs \cup {i},
             mem.last = 0 => i = 1,
             (mem.spec.replicas <= 1 /\ mem.last # 0 /\ mem.last \in pvcs
                /\ "getPvcFails" \notin Disruptions) => i = mem.last
      PROVE  FreshInv'
  <2>1. mem.enforced >= 0 /\ Fresh(mem.last, mem.enforced) /\ "getPvcFails" \notin Disruptions
    BY <1>0 DEF CoverInv, FreshInv, ClaimsAreKept
  <2>2. mem.last # 0 => i = mem.last
    <3>1. mem.spec.replicas = 1 \/ ~(mem.enforced > 0)
      <4>1. reEnabled.spec = mem.spec /\ reEnabled.enforced = mem.enforced
        BY <1>2, ReEnabledFacts DEF Typed
      <4> QED BY <1>5, <4>1, SMTT(30) DEF deploysPrimary, shouldWeDeployNewPrimaryDb, hasPrimaryEverBeenDeployed
    <3> QED BY <1>1, <1>5, <2>1, <3>1 DEF Fresh
  <2>3. mem'.last \in Nat /\ i = mem'.last
    BY <1>1, <1>5, <2>2, SMTT(30)
  <2>4. \A j \in DOMAIN sts \cup pvcs : j <= mem'.last
    BY <1>1, <1>5, <2>1, <2>3, SMTT(30) DEF Fresh, Typed, IsStatefulSetMap
  <2>5. Fresh(mem.last, mem.enforced)'
    BY <1>1, <1>5, <2>1, <2>3, <2>4 DEF Fresh
  <2> QED BY <1>0, <1>3, <1>5, <2>5 DEF FreshInv
<1> QED BY <1>2, <1>4, <1>5, PrimaryCounters, Zenon

\* A replica is created above the last index; a replica is undeployed beside a primary.
LEMMA ReplicaFresh ==
  ASSUME NEW D, {} \in D, Typed(D), CoverInv PROVE FreshInv /\ EnforceReplicaDb => FreshInv'
<1> SUFFICES ASSUME FreshInv, EnforceReplicaDb PROVE FreshInv'
  OBVIOUS
<1>1. /\ pc = "replica" /\ pc' \in {"services", "save"} /\ UNCHANGED status
      /\ mem.changed => mem'.changed
      /\ spec'.standby = spec.standby /\ mem'.spec.standby = mem.spec.standby
  BY ReplicaCounters, Zenon
<1>2. mem.enforced \in Int /\ status.enforced \in Int /\ mem.last \in Nat
  BY DEF Typed, MemType, StatusType
<1>3. EnforcesReplicas => mem.active.id # PrimaryDbCount
  BY StepIds DEF EnforcesReplicas, IsActiveOperationIdDifferentOf, isThereActiveOperation
<1>4. EnforcesReplicas => /\ orElse(status.enforced, mem.enforced, 0) = mem.enforced
                          /\ orElse(status.last, mem.last, 0) = mem.last
  BY <1>1, <1>3 DEF CoverInv, FreshInv, orElse
<1>0. ASSUME mem'.changed = TRUE, Fresh(mem.last, mem.enforced)' PROVE FreshInv'
  <2>1. ~spec.standby /\ ~mem.spec.standby
    BY DEF FreshInv
  <2> QED BY <1>0, <1>1, <2>1 DEF FreshInv
<1>5. CASE DOMAIN sts' = DOMAIN sts /\ pvcs' = pvcs /\ mem'.last = mem.last /\ mem'.enforced = mem.enforced
  BY <1>1, <1>5 DEF FreshInv, Fresh
<1>6. CASE /\ mem'.changed = TRUE
           /\ DOMAIN sts' = DOMAIN sts \cup {mem.last + 1} /\ pvcs' = pvcs \cup {mem.last + 1}
           /\ mem'.last = mem.last + 1 /\ mem'.enforced = mem.enforced + 1
  <2>1. Cardinality(DOMAIN sts) \in Nat /\ Cardinality(DOMAIN sts) <= mem.enforced
    BY <1>1, Count DEF CoverInv, Counts
  <2>2. \A j \in DOMAIN sts \cup pvcs : j \in Nat /\ j <= mem.last
    BY <1>1 DEF FreshInv, Fresh, Typed, IsStatefulSetMap
  <2>3. Fresh(mem.last, mem.enforced)'
    BY <1>2, <1>6, <2>1, <2>2, SMTT(30) DEF Fresh
  <2> QED BY <1>0, <1>6, <2>3, Zenon
<1>7. CASE /\ EnforcesReplicas /\ mem'.changed = TRUE
           /\ \E i \in replicas(seen) \cap DOMAIN sts : DOMAIN sts' = DOMAIN sts \ {i}
           /\ pvcs' = pvcs /\ mem'.last = mem.last /\ mem'.enforced = mem.enforced - 1
  <2>1. isPrimaryDbReady(seen) /\ replicas(seen) # {}
    BY <1>7 DEF EnforcesReplicas, FreshInv
  <2>2. Cardinality(DOMAIN seen) >= 2 /\ Cardinality(DOMAIN seen) \in Nat
    BY <2>1, TwoInstances, Count DEF CoverInv
  <2>3. mem'.enforced >= 1
    BY <1>1, <1>2, <1>7, <2>2, SMTT(30) DEF CoverInv
  <2>4. Fresh(mem.last, mem.enforced)'
    BY <1>1, <1>7, <2>3, SMTT(30) DEF FreshInv, Fresh
  <2> QED BY <1>0, <1>7, <2>4, Zenon
<1>8. PICK n \in {mem.last, orElse(status.last, mem.last, 0)},
           e \in {mem.enforced, orElse(status.enforced, mem.enforced, 0)} :
        /\ EnforcesReplicas \/ (n = mem.last /\ e = mem.enforced)
        /\ \/ /\ DOMAIN sts' = DOMAIN sts /\ pvcs' = pvcs
              /\ mem'.last = n /\ mem'.enforced = e
           \/ /\ EnforcesReplicas /\ mem'.changed = TRUE
              /\ DOMAIN sts' = DOMAIN sts \cup {n + 1} /\ pvcs' = pvcs \cup {n + 1}
              /\ mem'.last = n + 1 /\ mem'.enforced = e + 1
           \/ /\ EnforcesReplicas /\ mem'.changed = TRUE
              /\ \E i \in replicas(seen) \cap DOMAIN sts : DOMAIN sts' = DOMAIN sts \ {i}
              /\ pvcs' = pvcs
              /\ mem'.last = n /\ mem'.enforced = e - 1
  BY ReplicaCounters, Zenon
<1>9. n = mem.last /\ e = mem.enforced
  BY <1>4, <1>8
<1> QED BY <1>5, <1>6, <1>7, <1>8, <1>9, Zenon

\* The last index is read and saved as it is.
LEMMA BeginsOrEndsFresh ==
  ASSUME NEW D, {} \in D, Typed(D), StatusIsSaved, CoverInv PROVE FreshInv /\ BeginsOrEnds => FreshInv'
<1> SUFFICES ASSUME FreshInv, BeginsOrEnds PROVE FreshInv'
  OBVIOUS
<1>1. ASSUME NEW reached, LoadWith(reached) PROVE FreshInv'
  <2>1. fetched \in MemType(D) /\ fetched.last = status.last /\ fetched.enforced = status.enforced
        /\ fetched.spec = spec
    BY FetchedFacts, SMTT(30)
  <2>2. /\ mem'.enforced = status.enforced /\ mem'.last = status.last /\ mem'.spec = spec
        /\ pc = "idle" /\ pc' \in {"primary", "save"}
        /\ UNCHANGED <<spec, status, sts, pvcs>>
    BY <1>1, <2>1, LoadFacts DEF LoadWith
  <2> QED BY <2>2 DEF FreshInv, Fresh
<1>2. ASSUME EndReconciliation PROVE UNCHANGED <<spec, sts, pvcs>> /\ pc' = "idle" /\ ~mem'.spec.standby
  BY <1>2 DEF EndReconciliation, NoMem
<1>3. CASE SaveStatus
  <2>1. CASE mem.changed
    <3>1. /\ status'.enforced = mem.enforced /\ status'.last = mem.last
          /\ pc \in {"services", "save"}
      BY <1>3, <2>1 DEF SaveStatus, instancesEnforced
    <3> QED BY <1>2, <1>3, <3>1 DEF SaveStatus, FreshInv, Fresh
  <2>2. CASE ~mem.changed
    <3>1. status' = status /\ pc \in {"services", "save"}
      BY <1>3, <2>2 DEF SaveStatus, instancesEnforced
    <3> QED BY <1>2, <1>3, <2>2, <3>1 DEF SaveStatus, FreshInv, CoverInv, Fresh
  <2> QED BY <2>1, <2>2
<1>4. CASE SaveRefused
  BY <1>4 DEF SaveRefused, StatusIsSaved, Happens, CoverInv
<1>5. CASE Crash
  BY <1>5 DEF Crash, StatusIsSaved, Happens
<1>6. CASE UNCHANGED clusterVars
  BY <1>6 DEF clusterVars, FreshInv, Fresh
<1> QED BY <1>1, <1>3, <1>4, <1>5, <1>6 DEF BeginsOrEnds

\* No index is given when the Kubegres resource is created.
LEMMA InitFresh == ASSUME ClaimsAreKept PROVE Init => FreshInv
<1>1. DOMAIN NoStatefulSets = {}
  BY DEF NoStatefulSets
<1> QED BY <1>1 DEF Init, FreshInv, Fresh, NoMem, ClaimsAreKept

\* When a reconciliation is not running, no instance and no volume claim left behind
\* has an index above lastCreatedInstanceIndex, so the replica that
\* deployReplicaStatefulSet creates next neither collides with a StatefulSet nor
\* starts on an old volume.  This holds for any pods, users and failing calls, as long
\* as every update of the status succeeds, the claims stay and can be read, and the
\* cluster is not a standby one.
THEOREM NewIndexesStayFresh ==
  StatusIsSaved /\ ClaimsAreKept => (Spec => []NewIndexesAreFresh)
<1> SUFFICES ASSUME StatusIsSaved, ClaimsAreKept PROVE Spec => []NewIndexesAreFresh
  OBVIOUS
<1>1. Init => CoverInv /\ FreshInv
  BY InitCover, InitFresh
<1>2. Typed({{}}) /\ CoverInv /\ [Next]_clusterVars => CoverInv'
  BY NextCases, EnvironmentCover, PrimaryCover, ReplicaCover, BeginsOrEndsCover
<1>3. Typed({{}}) /\ CoverInv /\ FreshInv /\ [Next]_clusterVars => FreshInv'
  BY NextCases, EnvironmentFresh, PrimaryFresh, ReplicaFresh, BeginsOrEndsFresh
<1>4. FreshInv => NewIndexesAreFresh
  BY DEF FreshInv, Fresh, NewIndexesAreFresh
<1>5. Spec => [](Typed({{}}) /\ PcTyped)
  BY SpecTyped
<1> QED BY <1>1, <1>2, <1>3, <1>4, <1>5, PTL DEF Spec

-----------------------------------------------------------------------------
(***************************************************************************)
(* The disabled fail-over.  Whether a replica may be deployed then depends *)
(* on enforcedReplicas, which only the undeployment of a replica makes     *)
(* smaller.  As long as the spec asks for as many instances and no pod     *)
(* that was ready fails, an undeployment leaves at least as many enforced  *)
(* as the spec asks for: a replica that is not ready is still being        *)
(* deployed, which the operation says, so only one of too many is          *)
(* undeployed.  As long as fewer are enforced, each was given the next     *)
(* index.                                                                  *)
(***************************************************************************)
PodsAndSpecStay == Disruptions \cap {"podFails", "podLost", "scale"} = {}

unready(s) == replicas(s) \ ready(s)

InOrder(n, enforced) == enforced < spec.replicas => n <= enforced

DisabledInv ==
  /\ InOrder(status.last, status.enforced)
  /\ pc # "idle" => InOrder(mem.last, mem.enforced) /\ (~mem.changed => mem.last = status.last)
  /\ pc = "primary" => mem.last = status.last
  /\ pc = "replica" /\ mem.active.id # PrimaryDbCount => mem.last = status.last
  /\ pc = "idle" => \A i \in unready(sts) : Deploys(status.blocking, i)
  /\ pc \in {"primary", "replica"} =>
       /\ mem.spec.replicas = spec.replicas /\ unready(sts) \subseteq unready(seen)
       /\ \A i \in unready(seen) :
            Deploys(mem.active, i) /\ Deploys(mem.blocking, i) /\ Deploys(status.blocking, i)
  /\ pc \in {"services", "save"} =>
       \A i \in unready(sts) : Deploys(IF mem.changed THEN mem.blocking ELSE status.blocking, i)

\* A replica that is not ready is not what the checker of its deployment waits for, so
\* its operation is still there once it is loaded.
LEMMA LoadKeepsDeployment ==
  ASSUME NEW D, {} \in D, NEW m \in MemType(D), NEW i, Deploys(m.blocking, i)
  PROVE  LET l == LoadActiveOperation(m, FALSE) IN Deploys(l.active, i) /\ l.blocking = m.blocking
<1> DEFINE l == [m EXCEPT !.active = m.blocking, !.previous = m.previousBlocking]
<1>1. l \in MemType(D) /\ l.active = m.blocking /\ l.blocking = m.blocking
  BY Zenon DEF MemType
<1>2. LoadActiveOperation(m, FALSE) = removeOperationIfNotActive(l, FALSE)
  BY DEF LoadActiveOperation
<1> HIDE DEF l
<1>3. l.active.step \in StepsWithCompletionChecker
  BY <1>1, StepIds DEF Deploys, StepsWithCompletionChecker
<1>4. removeOperationIfNotActive(l, FALSE) \in {l, [l EXCEPT !.active.timedOut = TRUE]}
  BY <1>3 DEF removeOperationIfNotActive
<1>5. /\ [l EXCEPT !.active.timedOut = TRUE].active = [l.active EXCEPT !.timedOut = TRUE]
      /\ [l EXCEPT !.active.timedOut = TRUE].blocking = l.blocking
  BY <1>1 DEF MemType
<1>6. Deploys([l.active EXCEPT !.timedOut = TRUE], i)
  BY <1>1 DEF Deploys, MemType, Operation
<1> QED BY <1>1, <1>2, <1>4, <1>5, <1>6, Zenon

\* Fewer replicas, of which fewer are not ready.
FewerReplicas == replicas(sts') \subseteq replicas(sts) /\ unready(sts') \subseteq unready(sts)

\* The environment adds no replica, makes none unready and ends no operation.
LEMMA EnvironmentReplicas ==
  ASSUME NEW D, Typed(D), Environment, PodsAndSpecStay
  PROVE  /\ FewerReplicas /\ spec'.replicas = spec.replicas
         /\ \A i : /\ Deploys(mem.active, i) => Deploys(mem'.active, i)
                   /\ Deploys(mem.blocking, i) => Deploys(mem'.blocking, i)
                   /\ Deploys(status.blocking, i) => Deploys(status'.blocking, i)
<1> DEFINE Goal == /\ FewerReplicas /\ spec'.replicas = spec.replicas
                   /\ \A i : /\ Deploys(mem.active, i) => Deploys(mem'.active, i)
                             /\ Deploys(mem.blocking, i) => Deploys(mem'.blocking, i)
                             /\ Deploys(status.blocking, i) => Deploys(status'.blocking, i)
<1>1. ASSUME UNCHANGED <<spec, mem, status>>, FewerReplicas PROVE Goal
  BY <1>1
<1>2. UNCHANGED sts => FewerReplicas
  BY DEF FewerReplicas
<1>3. ASSUME NEW i \in DOMAIN sts, PodProgress(i) PROVE Goal
  <2>1. PICK pod : SetPod(i, pod) /\ sts[i].pod # "ready"
    BY <1>3 DEF PodProgress, PodStarts, PodBecomesReady
  <2>2. sts' = [sts EXCEPT ![i] = [sts[i] EXCEPT !.pod = pod]]
    BY <2>1 DEF SetPod
  <2>3. [sts[i] EXCEPT !.pod = pod].role = sts[i].role
    BY DEF Typed, IsStatefulSetMap, StatefulSets
  <2>4. /\ DOMAIN sts' = DOMAIN sts
        /\ \A j \in DOMAIN sts : sts'[j].role = sts[j].role /\ (j # i => sts'[j] = sts[j])
    BY <2>2, <2>3 DEF Typed, IsStatefulSetMap
  <2>5. FewerReplicas
    BY <2>1, <2>4 DEF FewerReplicas, unready, replicas, ready
  <2> QED BY <1>1, <2>1, <2>5, SMTT(30) DEF SetPod, reconcileVars
<1>4. ASSUME NEW i \in DOMAIN sts, PodFails(i) \/ PodLost(i) PROVE Goal
  BY <1>4 DEF PodFails, PodLost, Happens, PodsAndSpecStay
<1>5. ASSUME NEW i \in DOMAIN sts, StatefulSetDeleted(i) PROVE Goal
  <2>1. FewerReplicas
    BY <1>5 DEF StatefulSetDeleted, FewerReplicas, unready, replicas, ready
  <2> QED BY <1>1, <1>5, <2>1 DEF StatefulSetDeleted, reconcileVars
<1>6. ASSUME NEW i \in pvcs, PvcDeleted(i) PROVE Goal
  BY <1>1, <1>2, <1>6 DEF PvcDeleted, reconcileVars
<1>7. CASE UserChangesSpec
  <2>1. /\ [spec EXCEPT !.failoverDisabled = ~@].replicas = spec.replicas
        /\ [spec EXCEPT !.standby = ~@].replicas = spec.replicas
        /\ \A i : [spec EXCEPT !.promotePod = i].replicas = spec.replicas
    BY DEF Typed, Specs
  <2>2. ASSUME NEW kind, NEW edited, UserEdits(kind, edited), edited.replicas = spec.replicas PROVE Goal
    BY <1>2, <2>2 DEF UserEdits, reconcileVars
  <2>3. ASSUME NEW edited, UserEdits("scale", edited) PROVE Goal
    BY <2>3 DEF UserEdits, Happens, PodsAndSpecStay
  <2> QED BY <1>7, <2>1, <2>2, <2>3, Zenon DEF UserChangesSpec
<1>8. CASE Tick
  <2>1. mem.active \in Operation(D) /\ mem.blocking \in Operation(D) /\ status.blocking \in Operation(D)
    BY DEF Typed, MemType, StatusType
  <2>2. /\ mem'.active = Elapse(mem.active) /\ mem'.blocking = Elapse(mem.blocking)
        /\ status'.blocking = Elapse(status.blocking) /\ UNCHANGED <<spec, sts>>
    BY <1>8 DEF Tick, Typed, MemType, StatusType
  <2> QED BY <1>2, <2>1, <2>2, ElapseFacts DEF Deploys
<1> QED BY <1>3, <1>4, <1>5, <1>6, <1>7, <1>8, SMTT(30) DEF Environment, ClusterChanges

\* So does a step of the primary enforcer, which does nothing at all while a replica is
\* being deployed.
LEMMA PrimaryReplicas ==
  ASSUME NEW D, Typed(D), EnforcePrimaryDb
  PROVE  /\ FewerReplicas
         /\ mem.active.id = ReplicaDbCount => mem' \in {mem, initialised}
<1>0. mem.active.id = ReplicaDbCount => ~EnforcesPrimary
  BY StepIds DEF EnforcesPrimary, IsActiveOperationIdDifferentOf, isThereActiveOperation
<1>1. UNCHANGED sts => FewerReplicas
  BY DEF FewerReplicas
<1>2. CASE PrimaryUnchanged
  BY <1>0, <1>1, <1>2 DEF PrimaryUnchanged, PrimaryEnforced
<1>3. CASE FailOverRefused
  BY <1>0, <1>1, <1>3 DEF FailOverRefused, failsOver
<1>4. CASE waitBeforePromotingReplicaToPrimary
  <2>1. UNCHANGED sts \/ sts' = [j \in DOMAIN sts \ primaries(seen) |-> sts[j]]
    BY <1>4 DEF waitBeforePromotingReplicaToPrimary, DeletePrimary
  <2>2. FewerReplicas
    BY <1>1, <2>1 DEF FewerReplicas, unready, replicas, ready
  <2> QED BY <1>0, <1>4, <2>2 DEF waitBeforePromotingReplicaToPrimary, failsOver
<1>5. CASE promoteReplicaToPrimary
  <2>1. \/ UNCHANGED sts
        \/ \E i \in DOMAIN sts : \E pod : sts' = [sts EXCEPT ![i] = [role |-> "primary", pod |-> pod]]
    BY <1>5 DEF promoteReplicaToPrimary
  <2>2. ASSUME NEW i \in DOMAIN sts, NEW pod, sts' = [sts EXCEPT ![i] = [role |-> "primary", pod |-> pod]]
        PROVE  FewerReplicas
    <3>1. /\ DOMAIN sts' = DOMAIN sts /\ sts'[i].role = "primary"
          /\ \A j \in DOMAIN sts : j # i => sts'[j] = sts[j]
      BY <2>2 DEF Typed, IsStatefulSetMap
    <3> QED BY <3>1 DEF FewerReplicas, unready, replicas, ready
  <2> QED BY <1>0, <1>1, <1>5, <2>1, <2>2, SMTT(30) DEF promoteReplicaToPrimary, failsOver
<1>6. CASE deployNewPrimaryStatefulSet
  <2>1. UNCHANGED sts \/ \E i : i \notin DOMAIN sts /\ sts' = Created(i, "primary")
    BY <1>6 DEF deployNewPrimaryStatefulSet
  <2>2. ASSUME NEW i, i \notin DOMAIN sts, sts' = Created(i, "primary") PROVE FewerReplicas
    <3>1. /\ DOMAIN sts' = DOMAIN sts \cup {i} /\ sts'[i].role = "primary"
          /\ \A j \in DOMAIN sts : sts'[j] = sts[j]
      BY <2>2, SMTT(30) DEF Created
    <3> QED BY <3>1 DEF FewerReplicas, unready, replicas, ready
  <2> QED BY <1>0, <1>1, <1>6, <2>1, <2>2 DEF deployNewPrimaryStatefulSet, deploysPrimary
<1> QED BY <1>2, <1>3, <1>4, <1>5, <1>6 DEF EnforcePrimaryDb

\* The environment leaves the counters and the number of instances of the spec as they
\* are, and makes no replica unready.
LEMMA EnvironmentDisabled ==
  ASSUME NEW D, {} \in D, Typed(D), CoverInv, PodsAndSpecStay
  PROVE  DisabledInv /\ Environment => DisabledInv'
<1> SUFFICES ASSUME DisabledInv, Environment PROVE DisabledInv'
  OBVIOUS
<1>1. pc' = pc /\ seen' = seen
  BY EnvironmentPc
<1>2. /\ SameCounters(mem', mem) /\ mem'.active.id = mem.active.id
      /\ status'.enforced = status.enforced /\ status'.last = status.last
  BY EnvironmentCounters
<1>3. /\ FewerReplicas /\ spec'.replicas = spec.replicas
      /\ \A i : /\ Deploys(mem.active, i) => Deploys(mem'.active, i)
                /\ Deploys(mem.blocking, i) => Deploys(mem'.blocking, i)
                /\ Deploys(status.blocking, i) => Deploys(status'.blocking, i)
  BY EnvironmentReplicas
<1>4. /\ InOrder(status.last, status.enforced)' = InOrder(status.last, status.enforced)
      /\ InOrder(mem.last, mem.enforced)' = InOrder(mem.last, mem.enforced)
  BY <1>2, <1>3 DEF InOrder, SameCounters
<1>5. unready(seen') = unready(seen)
  BY <1>1
<1>6. \A i \in unready(sts') : i \in unready(sts)
  BY <1>3, SMTT(30) DEF FewerReplicas
<1>7. pc' = "idle" => \A i \in unready(sts') : Deploys(status'.blocking, i)
  BY <1>1, <1>3, <1>6, SMTT(30) DEF DisabledInv
<1>8. pc' \in {"services", "save"} =>
        \A i \in unready(sts') : Deploys(IF mem'.changed THEN mem'.blocking ELSE status'.blocking, i)
  BY <1>1, <1>2, <1>3, <1>6, SMTT(30) DEF DisabledInv, SameCounters
<1>9. pc' \in {"primary", "replica"} =>
        /\ mem'.spec.replicas = spec'.replicas /\ unready(sts') \subseteq unready(seen')
        /\ \A i \in unready(seen') :
             Deploys(mem'.active, i) /\ Deploys(mem'.blocking, i) /\ Deploys(status'.blocking, i)
  BY <1>1, <1>2, <1>3, <1>5, SMTT(30) DEF DisabledInv, SameCounters, FewerReplicas
<1> QED BY <1>1, <1>2, <1>3, <1>4, <1>7, <1>8, <1>9, Zenon DEF DisabledInv, SameCounters

\* A primary that is deployed or promoted is counted, and takes no operation from a replica.
LEMMA PrimaryDisabled ==
  ASSUME NEW D, {} \in D, Typed(D), CoverInv
  PROVE  DisabledInv /\ EnforcePrimaryDb => DisabledInv'
<1> SUFFICES ASSUME DisabledInv, EnforcePrimaryDb PROVE DisabledInv'
  OBVIOUS
<1>0. pc = "primary"
  BY Zenon DEF EnforcePrimaryDb, PrimaryUnchanged, FailOverRefused, waitBeforePromotingReplicaToPrimary,
         promoteReplicaToPrimary, deployNewPrimaryStatefulSet, failsOver, deploysPrimary, EnforcesPrimary
<1>1. /\ Cardinality(DOMAIN seen) \in Nat /\ mem.last \in Nat /\ mem.enforced \in Int
      /\ status.enforced \in Int /\ mem.spec.replicas \in Nat /\ spec.replicas \in Nat
  BY Count DEF CoverInv, Typed, MemType, StatusType, Specs
<1>2. initialised = mem
  BY <1>0, <1>1, ReEnabledFacts DEF Typed, CoverInv
<1>3. /\ pc' \in {"replica", "save"} /\ UNCHANGED <<spec, status, seen>> /\ mem'.spec = mem.spec
  BY <1>2, PrimaryCounters, Zenon
<1>4. FewerReplicas /\ (mem.active.id = ReplicaDbCount => mem' = mem)
  BY <1>2, PrimaryReplicas
<1>5. /\ InOrder(mem'.last, mem'.enforced) /\ (~mem'.changed => mem'.last = status.last)
      /\ pc' = "replica" /\ mem'.active.id # PrimaryDbCount => mem'.last = status.last
  <2>1. InOrder(mem.last, mem.enforced) /\ mem.last = status.last
    BY <1>0 DEF DisabledInv
  <2>2. \/ mem'.last = mem.last /\ mem'.enforced = mem.enforced
        \/ /\ mem'.active.id = PrimaryDbCount /\ mem'.changed = TRUE
           /\ mem'.enforced = mem.enforced + 1
           /\ mem'.last = IF mem.last = 0 THEN 1 ELSE mem.last
    BY <1>2, PrimaryCounters, Zenon
  <2> QED BY <1>1, <2>1, <2>2 DEF InOrder
<1>6. /\ InOrder(status.last, status.enforced)' = InOrder(status.last, status.enforced)
      /\ InOrder(mem.last, mem.enforced)' = InOrder(mem'.last, mem'.enforced)
  BY <1>3 DEF InOrder
<1>7. \A i \in unready(seen) :
        Deploys(mem'.active, i) /\ Deploys(mem'.blocking, i) /\ Deploys(status.blocking, i)
  BY <1>0, <1>4, SMTT(30) DEF DisabledInv, Deploys
<1>8. /\ unready(sts') \subseteq unready(seen) /\ mem'.spec.replicas = spec.replicas
      /\ InOrder(status.last, status.enforced)
  BY <1>0, <1>3, <1>4 DEF DisabledInv, FewerReplicas
<1> QED BY <1>3, <1>5, <1>6, <1>7, <1>8, SMTT(30) DEF DisabledInv

\* A replica that was listed as not ready keeps its operation, and keeps the enforcer from
\* deploying or undeploying another one.
LEMMA UnreadyReplicaBlocks ==
  ASSUME NEW D, {} \in D, Typed(D), DisabledInv, pc = "replica", NEW i \in unready(seen)
  PROVE  /\ hasLastReplicaAttemptTimedOut(mem) => ~isPreviouslyFailedAttemptOnReplicaDbFixed(mem, seen)
         /\ EnforcesReplicas => fixedReplica = mem
         /\ EnforcesReplicas => \A r \in ResetOutcome(fixedReplica) :
              isReplicaOperationInProgress(r.mem) /\ Deploys(r.mem.blocking, i)
<1>1. Deploys(mem.active, i) /\ Deploys(mem.blocking, i) /\ Deploys(status.blocking, i)
  BY DEF DisabledInv
<1>2. i \in replicas(seen) /\ i \notin ready(seen) /\ i \in Nat \ {0}
  BY InstanceIndexes DEF unready, Typed
<1>3. ~isPreviouslyFailedAttemptOnReplicaDbFixed(mem, seen)
  BY <1>1, <1>2 DEF isPreviouslyFailedAttemptOnReplicaDbFixed, Deploys
<1>4. EnforcesReplicas => fixedReplica = mem
  BY <1>3 DEF EnforcesReplicas, fixedReplica
<1>5. ASSUME EnforcesReplicas, NEW r \in ResetOutcome(fixedReplica)
      PROVE  isReplicaOperationInProgress(r.mem) /\ Deploys(r.mem.blocking, i)
  <2>1. /\ r.mem.active = mem.active
        /\ r.mem.blocking \in {mem.blocking, decodedOperation(status.blocking, mem.blocking)}
    BY <1>4, <1>5, ResetFacts DEF Typed
  <2>2. status.blocking.id # "" /\ status.blocking.step # "" /\ status.blocking.idx # 0
    BY <1>1, <1>2, StepIds, ZenonT(30) DEF Deploys
  <2>3. Deploys(decodedOperation(status.blocking, mem.blocking), i)
    BY <1>1, <2>2 DEF Deploys, decodedOperation, orElse
  <2> QED BY <1>1, <2>1, <2>3, SMTT(30) DEF isReplicaOperationInProgress, Deploys
<1> QED BY <1>3, <1>4, <1>5

\* So a replica is undeployed only when there are too many, and then the enforced
\* replicas are still as many as the spec asks for.
LEMMA OnlyTooManyAreUndeployed ==
  ASSUME NEW D, {} \in D, Typed(D), CoverInv, DisabledInv, undeployReplicaStatefulSets
  PROVE  unready(seen) = {} /\ mem.enforced > spec.replicas
<1>1. pc = "replica" /\ EnforcesReplicas /\ replicaToUndeploy # {}
  BY DEF undeployReplicaStatefulSets, EnforcesReplicas
<1>2. unready(seen) = {}
  <2>1. PICK r \in ResetOutcome(fixedReplica) : ~isReplicaOperationInProgress(r.mem)
    BY DEF undeployReplicaStatefulSets
  <2> QED BY <1>1, <2>1, UnreadyReplicaBlocks
<1>3. IsFiniteSet(replicas(seen)) /\ IsFiniteSet(DOMAIN seen) /\ replicas(seen) \in SUBSET DOMAIN seen
  BY Count, SMTT(30) DEF CoverInv, replicas
<1>4. /\ Cardinality(replicas(seen)) \in Nat /\ Cardinality(DOMAIN seen) \in Nat
      /\ Cardinality(replicas(seen)) <= Cardinality(DOMAIN seen)
      /\ Cardinality(DOMAIN seen) <= mem.enforced /\ mem.enforced \in Int
      /\ mem.spec.replicas = spec.replicas /\ spec.replicas \in Nat
  BY <1>1, <1>3, Count, SMTT(30) DEF CoverInv, DisabledInv, Typed, MemType, Specs
<1>5. /\ getExpectedNbreReplicasToDeploy(mem) \in Int
      /\ mem.spec.standby => getExpectedNbreReplicasToDeploy(mem) = spec.replicas
      /\ ~mem.spec.standby => getExpectedNbreReplicasToDeploy(mem) >= spec.replicas - 1
  BY <1>4, SMTT(30) DEF getExpectedNbreReplicasToDeploy
<1>6. getExpectedNbreReplicasToDeploy(mem) < Cardinality(replicas(seen))
  <2>1. nbreNewReplicaToDeploy # 0
    BY <1>1, <1>2 DEF replicaToUndeploy, first, unready
  <2>2. nbreNewReplicaToDeploy = getExpectedNbreReplicasToDeploy(mem) - Cardinality(replicas(seen))
    BY DEF nbreNewReplicaToDeploy
  <2>3. nbreNewReplicaToDeploy < 0
    BY <1>1, <2>1 DEF replicaToUndeploy
  <2> HIDE DEF nbreNewReplicaToDeploy, getExpectedNbreReplicasToDeploy
  <2> QED BY <1>4, <1>5, <2>1, <2>2, <2>3
<1>7. CASE mem.spec.standby
  <2>1. spec.replicas < Cardinality(replicas(seen))
    BY <1>5, <1>6, <1>7
  <2>2. mem.enforced > spec.replicas
    BY <1>4, <2>1
  <2> QED BY <1>2, <2>2
<1>8. CASE ~mem.spec.standby
  <2>1. PICK p \in DOMAIN seen : p \notin replicas(seen)
    BY <1>1, <1>8 DEF EnforcesReplicas, isPrimaryDbReady, primaries, replicas
  <2>2. replicas(seen) \in SUBSET (DOMAIN seen \ {p})
    BY <1>3, <2>1
  <2>3. /\ IsFiniteSet(DOMAIN seen \ {p})
        /\ Cardinality(DOMAIN seen \ {p}) = Cardinality(DOMAIN seen) - 1
    BY <1>3, Count
  <2>4. Cardinality(replicas(seen)) <= Cardinality(DOMAIN seen) - 1
    BY <2>2, <2>3, Count
  <2>5. spec.replicas - 1 < Cardinality(replicas(seen))
    BY <1>4, <1>5, <1>6, <1>8
  <2>6. mem.enforced > spec.replicas
    BY <1>4, <2>4, <2>5
  <2> QED BY <1>2, <2>6
<1> QED BY <1>7, <1>8

\* What the deployment of a replica leaves: the operation about it, and the replica,
\* which is created only if the spec asks for more than the enforced replicas or a
\* promotion made room for it.
LEMMA ReplicaIsDeployed ==
  ASSUME NEW D, {} \in D, Typed(D), CoverInv, DisabledInv, deployReplicaStatefulSet
  PROVE  /\ unready(seen) = {}
         /\ \/ UNCHANGED sts
            \/ \E i \in Nat : /\ i = mem.last + 1 /\ i \notin DOMAIN sts /\ sts' = Created(i, "replica")
                              /\ Deploys(mem'.blocking, i) /\ mem'.changed = TRUE
                              /\ mem.spec.failoverDisabled /\ mem.spec.promotePod = 0
                                   => mem.spec.replicas > mem.enforced
<1>1. pc = "replica" /\ EnforcesReplicas /\ nbreNewReplicaToDeploy > 0
  BY DEF deployReplicaStatefulSet, EnforcesReplicas
<1>2. PICK r \in ResetOutcome(fixedReplica) :
        LET i == r.mem.last + 1
            deploying == activateOperation(r.mem, "ReplicaDbDeploying", i, {})
        IN /\ ~isReplicaOperationInProgress(r.mem) /\ ~deploymentIsDisabled(r.mem)
           /\ \/ /\ i \notin DOMAIN sts /\ sts' = Created(i, "replica")
                 /\ ReplicasEnforced(replicaDeployed(deploying, i), "services")
              \/ UNCHANGED sts
  BY SMTT(30) DEF deployReplicaStatefulSet
<1>3. unready(seen) = {}
  BY <1>1, <1>2, UnreadyReplicaBlocks, SMTT(30)
<1> DEFINE i == r.mem.last + 1
           a == activateOperation(r.mem, "ReplicaDbDeploying", i, {})
           b == [a EXCEPT !.enforced = a.enforced + 1, !.last = i, !.changed = TRUE]
<1>4. /\ r.mem \in MemType(D) /\ r.mem.last = mem.last /\ i \in Nat
  <2>1. mem.active.id # PrimaryDbCount
    BY <1>1, StepIds DEF EnforcesReplicas, IsActiveOperationIdDifferentOf, isThereActiveOperation
  <2>2. /\ r.mem \in MemType(D)
        /\ r.mem.last \in {mem.last, orElse(status.last, mem.last, 0)}
    BY FixedReplicaFacts, ResetFacts, Zenon DEF Typed
  <2>3. r.mem.last = mem.last
    BY <1>1, <2>1, <2>2 DEF DisabledInv, orElse
  <2> QED BY <2>2, <2>3, SMTT(30) DEF MemType
<1>5. mem.spec.failoverDisabled /\ mem.spec.promotePod = 0 => mem.spec.replicas > mem.enforced
  <2> SUFFICES ASSUME mem.spec.failoverDisabled, mem.spec.promotePod = 0
               PROVE  mem.spec.replicas > mem.enforced
    BY SMTT(30)
  <2>1. fixedReplica.spec = mem.spec /\ fixedReplica.enforced = mem.enforced
    BY FixedReplicaFacts, Zenon DEF Typed
  <2>2. r.mem = fixedReplica
    BY <2>1, SMTT(30) DEF ResetOutcome
  <2> QED BY <1>2, <2>1, <2>2 DEF deploymentIsDisabled, doesSpecRequireTheDeploymentOfAdditionalReplicas
<1>6. a \in MemType(D) /\ Deploys(a.blocking, i)
  <2>0. "ReplicaDbDeploying" \in Steps /\ OperationIdOf["ReplicaDbDeploying"] = ReplicaDbCount
    BY StepIds
  <2>1. /\ a \in MemType(D) /\ a.blocking.id = OperationIdOf["ReplicaDbDeploying"]
        /\ a.blocking.step = "ReplicaDbDeploying"
    <3> HIDE DEF i
    <3> QED BY <1>4, <2>0, ActivateFacts
  <2> DEFINE op == [createOperationObj("ReplicaDbDeploying", i, {}) EXCEPT !.left = TimeOut["ReplicaDbDeploying"]]
  <2>2. op.idx = i
    BY DEF createOperationObj
  <2>3. a = [r.mem EXCEPT !.active = op, !.blocking = op, !.changed = TRUE]
    BY DEF activateOperation, SetBlockingOperation
  <2> HIDE DEF op
  <2>4. a.blocking = op
    BY <1>4, <2>3, Zenon DEF MemType
  <2> QED BY <2>0, <2>1, <2>2, <2>4 DEF Deploys
<1>7. \/ i \notin DOMAIN sts /\ sts' = Created(i, "replica") /\ mem' = b
      \/ UNCHANGED sts
  BY <1>2 DEF ReplicasEnforced, replicaDeployed
<1> HIDE DEF a, i
<1>8. b.blocking = a.blocking /\ b.changed = TRUE
  BY <1>6 DEF MemType
<1>9. i = mem.last + 1
  BY <1>4 DEF i
<1> QED BY <1>3, <1>4, <1>5, <1>6, <1>7, <1>8, <1>9, Zenon

\* A replica that is deployed is counted with its index, and one that is undeployed
\* leaves enough of them.
LEMMA ReplicaDisabled ==
  ASSUME NEW D, {} \in D, Typed(D), CoverInv PROVE DisabledInv /\ EnforceReplicaDb => DisabledInv'
<1> SUFFICES ASSUME DisabledInv, EnforceReplicaDb PROVE DisabledInv'
  OBVIOUS
<1>1. /\ pc = "replica" /\ pc' \in {"services", "save"} /\ UNCHANGED <<status, seen>>
      /\ mem.changed => mem'.changed
  BY ReplicaCounters, Zenon
<1>2. mem.enforced \in Int /\ mem.last \in Nat /\ spec.replicas \in Nat
  BY DEF Typed, MemType, Specs
<1>3. unready(sts) \subseteq unready(seen)
  BY <1>1, Zenon DEF DisabledInv
<1> DEFINE Kept == \A j \in unready(sts') :
                     Deploys(IF mem'.changed THEN mem'.blocking ELSE status'.blocking, j)
<1>4. ASSUME deployReplicaStatefulSet PROVE Kept
  <2>1. unready(sts) = {}
    BY <1>3, <1>4, ReplicaIsDeployed, Zenon
  <2>2. CASE UNCHANGED sts
    BY <2>1, <2>2
  <2>3. CASE ~UNCHANGED sts
    <3>1. PICK i \in Nat : /\ i \notin DOMAIN sts /\ sts' = Created(i, "replica")
                           /\ Deploys(mem'.blocking, i) /\ mem'.changed = TRUE
      BY <1>4, <2>3, ReplicaIsDeployed, Zenon
    <3>2. DOMAIN sts' = DOMAIN sts \cup {i} /\ \A j \in DOMAIN sts : sts'[j] = sts[j]
      BY <3>1 DEF Created
    <3>3. unready(sts') \subseteq {i}
      BY <2>1, <3>2 DEF unready, replicas, ready
    <3> QED BY <3>1, <3>3
  <2> QED BY <2>2, <2>3, SMTT(30)
<1>5. ASSUME undeployReplicaStatefulSets PROVE Kept
  <2>1. UNCHANGED sts \/ \E i : sts' = Deleted(i)
    BY <1>5 DEF undeployReplicaStatefulSets
  <2>2. unready(sts') \subseteq unready(sts)
    BY <2>1, Zenon DEF Deleted, unready, replicas, ready
  <2> QED BY <1>3, <1>5, <2>2, OnlyTooManyAreUndeployed
<1>6. ASSUME ReplicasUnchanged \/ ReplicasSkipped PROVE Kept
  <2>1. UNCHANGED sts
    BY <1>6 DEF ReplicasUnchanged, ReplicasSkipped
  <2>2. ASSUME NEW j \in unready(seen)
        PROVE  Deploys(mem'.blocking, j) /\ Deploys(status'.blocking, j)
    <3>1. Deploys(mem.blocking, j) /\ Deploys(status'.blocking, j)
      BY <1>1, SMTT(30) DEF DisabledInv
    <3>2. CASE ReplicasSkipped
      <4>1. ~(/\ hasLastReplicaAttemptTimedOut(mem)
              /\ isPreviouslyFailedAttemptOnReplicaDbFixed(mem, seen))
        BY <1>1, UnreadyReplicaBlocks, SMTT(30)
      <4> QED BY <3>1, <3>2, <4>1 DEF ReplicasSkipped, ReplicasEnforced
    <3>3. CASE ReplicasUnchanged
      <4>1. EnforcesReplicas /\ \E r \in ResetOutcome(fixedReplica) : mem' = r.mem
        BY <3>3 DEF ReplicasUnchanged, ReplicasEnforced
      <4> QED BY <1>1, <3>1, <4>1, UnreadyReplicaBlocks
    <3> QED BY <1>6, <3>2, <3>3, SMTT(30)
  <2> QED BY <1>3, <2>1, <2>2
<1>7. Kept
  BY <1>4, <1>5, <1>6, SMTT(30) DEF EnforceReplicaDb
<1> HIDE DEF Kept
<1>8. InOrder(mem'.last, mem'.enforced) /\ (~mem'.changed => mem'.last = status.last)
  <2>1. InOrder(mem.last, mem.enforced) /\ (~mem.changed => mem.last = status.last)
    BY <1>1, SMTT(30) DEF DisabledInv
  <2>2. EnforcesReplicas => mem.active.id # PrimaryDbCount
    BY StepIds DEF EnforcesReplicas, IsActiveOperationIdDifferentOf, isThereActiveOperation
  <2>3. EnforcesReplicas => /\ orElse(status.enforced, mem.enforced, 0) = mem.enforced
                            /\ orElse(status.last, mem.last, 0) = mem.last /\ mem.last = status.last
    BY <1>1, <2>2 DEF CoverInv, DisabledInv, orElse
  <2>4. (\E i \in replicas(seen) \cap DOMAIN sts : DOMAIN sts' = DOMAIN sts \ {i})
          => mem.enforced > spec.replicas
    <3> SUFFICES ASSUME NEW i \in DOMAIN sts, DOMAIN sts' = DOMAIN sts \ {i}
                 PROVE  mem.enforced > spec.replicas
      OBVIOUS
    <3>1. ~UNCHANGED sts /\ \A k : sts' # Created(k, "replica")
      BY SMTT(30) DEF Created
    <3>2. undeployReplicaStatefulSets
      BY <3>1, ReplicaIsDeployed, Zenon DEF EnforceReplicaDb, ReplicasUnchanged, ReplicasSkipped
    <3> QED BY <3>2, OnlyTooManyAreUndeployed
  <2>5. \/ /\ mem'.last = mem.last /\ mem'.enforced = mem.enforced
           /\ EnforcesReplicas \/ ~mem'.changed => mem.last = status.last
        \/ mem'.changed = TRUE /\ mem'.last = mem.last + 1 /\ mem'.enforced = mem.enforced + 1
        \/ mem'.changed = TRUE /\ mem'.enforced = mem.enforced - 1 /\ mem.enforced > spec.replicas
    BY <1>1, <2>1, <2>3, <2>4, ReplicaCounters, Zenon
  <2> QED BY <1>2, <2>1, <2>5, SMTT(30) DEF InOrder
<1>9. spec'.replicas = spec.replicas
  <2>1. [spec EXCEPT !.promotePod = 0].replicas = spec.replicas
    BY DEF Typed, Specs
  <2> QED BY <2>1, Zenon DEF EnforceReplicaDb, deployReplicaStatefulSet, undeployReplicaStatefulSets,
                      ReplicasUnchanged, ReplicasSkipped, Reset
<1>10. InOrder(status.last, status.enforced)' /\ InOrder(mem.last, mem.enforced)'
  BY <1>1, <1>8, <1>9 DEF DisabledInv, InOrder
<1> QED BY <1>1, <1>7, <1>8, <1>10, Zenon DEF DisabledInv, Kept

\* The operation of the replica that is being deployed is read and saved as it is.
LEMMA BeginsOrEndsDisabled ==
  ASSUME NEW D, {} \in D, Typed(D), StatusIsSaved, CoverInv
  PROVE  DisabledInv /\ (Load \/ SaveStatus \/ SaveRefused \/ Crash \/ UNCHANGED clusterVars) => DisabledInv'
<1> SUFFICES ASSUME DisabledInv, Load \/ SaveStatus \/ SaveRefused \/ Crash \/ UNCHANGED clusterVars
             PROVE  DisabledInv'
  BY SMTT(30)
<1>1. CASE Load
  <2> DEFINE reached == CompletionChecker(status.blocking, sts)
  <2>1. /\ pc = "idle" /\ seen' = sts /\ pc' \in {"primary", "save"} /\ UNCHANGED <<spec, status, sts>>
        /\ mem' = LoadActiveOperation(fetched, reached)
    BY <1>1 DEF Load, LoadWith
  <2>2. /\ fetched \in MemType(D) /\ fetched.last = status.last /\ fetched.enforced = status.enforced
        /\ fetched.spec = spec /\ fetched.blocking = status.blocking
    BY FetchedFacts, SMTT(30)
  <2>3. mem'.enforced = status.enforced /\ mem'.last = status.last /\ mem'.spec = spec
    BY <2>1, <2>2, LoadFacts, Zenon
  <2>4. ASSUME NEW i \in unready(sts)
        PROVE  Deploys(mem'.active, i) /\ Deploys(mem'.blocking, i) /\ Deploys(status.blocking, i)
    <3>1. Deploys(status.blocking, i)
      BY <2>1 DEF DisabledInv
    <3>2. reached = FALSE
      BY <3>1 DEF CompletionChecker, isReplicaDbReady, Deploys, unready
    <3>3. Deploys(LoadActiveOperation(fetched, FALSE).active, i)
          /\ LoadActiveOperation(fetched, FALSE).blocking = status.blocking
      BY <2>2, <3>1, LoadKeepsDeployment, Zenon
    <3> QED BY <2>1, <3>1, <3>2, <3>3, ZenonT(30)
  <2>5. InOrder(status.last, status.enforced)' /\ InOrder(mem.last, mem.enforced)'
    BY <2>1, <2>3 DEF DisabledInv, InOrder
  <2> QED BY <2>1, <2>3, <2>4, <2>5, Zenon DEF DisabledInv
<1>2. ASSUME EndReconciliation PROVE UNCHANGED <<spec, sts>> /\ pc' = "idle"
  BY <1>2 DEF EndReconciliation
<1>3. CASE SaveStatus
  <2>1. EndReconciliation /\ pc \in {"services", "save"}
    BY <1>3, SMTT(30) DEF SaveStatus, instancesEnforced
  <2>2. CASE mem.changed
    <3>1. status'.enforced = mem.enforced /\ status'.last = mem.last /\ status'.blocking = mem.blocking
      BY <1>3, <2>2, SMTT(30) DEF SaveStatus
    <3> QED BY <1>2, <2>1, <2>2, <3>1, SMTT(30) DEF DisabledInv, InOrder
  <2>3. CASE ~mem.changed
    <3>1. status' = status
      BY <1>3, <2>3, SMTT(30) DEF SaveStatus
    <3> QED BY <1>2, <2>1, <2>3, <3>1, Zenon DEF DisabledInv, InOrder
  <2> QED BY <2>2, <2>3
<1>4. CASE SaveRefused
  BY <1>4 DEF SaveRefused, StatusIsSaved, Happens, CoverInv
<1>5. CASE Crash
  BY <1>5, SMTT(30) DEF Crash, StatusIsSaved, Happens
<1>6. CASE UNCHANGED clusterVars
  BY <1>6, Zenon DEF clusterVars, DisabledInv, InOrder
<1> QED BY <1>1, <1>3, <1>4, <1>5, <1>6

\* Every step of the specification keeps the invariant.
LEMMA NextDisabled ==
  ASSUME StatusIsSaved, PodsAndSpecStay
  PROVE  Typed({{}}) /\ CoverInv /\ DisabledInv /\ [Next]_clusterVars => DisabledInv'
<1>1. [Next]_clusterVars => \/ Load \/ SaveStatus \/ SaveRefused \/ Crash \/ UNCHANGED clusterVars
                            \/ EnforcePrimaryDb \/ EnforceReplicaDb \/ Environment
  BY DEF Next, Reconcile, LoadFails
<1> QED BY <1>1, EnvironmentDisabled, PrimaryDisabled, ReplicaDisabled, BeginsOrEndsDisabled

\* With the automatic fail-over disabled and no promotion requested, a replica is only
\* deployed with an index up to the number of instances that the spec asks for: those of
\* the initial deployment, and none in place of one that was deleted
\* (logAutomaticFailoverIsDisabled, doesSpecRequireTheDeploymentOfAdditionalReplicas).
\* This holds for any deletions, promotions and failing calls, as long as every update of
\* the status succeeds, no ready pod fails, and the user does not scale the cluster; it
\* may be made a standby one and back.
THEOREM NoReplicaIsEverReplacedWhenDisabled ==
  StatusIsSaved /\ PodsAndSpecStay => (Spec => NoReplicaIsReplacedWhenDisabled)
<1> SUFFICES ASSUME StatusIsSaved, PodsAndSpecStay PROVE Spec => NoReplicaIsReplacedWhenDisabled
  OBVIOUS
<1>1. Init => CoverInv /\ DisabledInv
  <2>1. DOMAIN NoStatefulSets = {} /\ Cardinality({}) = 0 /\ IsFiniteSet({})
    BY FS_EmptySet DEF NoStatefulSets
  <2>2. Init => CoverInv
    BY <2>1 DEF Init, CoverInv, Counts
  <2>3. unready(NoStatefulSets) = {}
    BY <2>1 DEF replicas, unready
  <2>4. Init => /\ pc = "idle" /\ sts = NoStatefulSets
                /\ status.last = 0 /\ status.enforced = 0
    BY DEF Init
  <2>5. Init => DisabledInv
    BY <2>3, <2>4 DEF DisabledInv, InOrder
  <2> QED BY <2>2, <2>5
<1>2. Typed({{}}) /\ CoverInv /\ [Next]_clusterVars => CoverInv'
  BY NextCases, EnvironmentCover, PrimaryCover, ReplicaCover, BeginsOrEndsCover
<1>3. Typed({{}}) /\ CoverInv /\ DisabledInv /\ [Next]_clusterVars => DisabledInv'
  BY NextDisabled
<1>4. ASSUME Typed({{}}), CoverInv, DisabledInv, [Next]_clusterVars
      PROVE  \A i \in replicas(sts') \ DOMAIN sts :
               mem.spec.failoverDisabled /\ mem.spec.promotePod = 0 => i <= mem.spec.replicas
  <2>1. FewerReplicas \/ UNCHANGED sts => replicas(sts') \ DOMAIN sts = {}
    BY SMTT(30) DEF FewerReplicas, replicas
  <2>2. CASE BeginsOrEnds
    BY <2>1, <2>2 DEF BeginsOrEnds, LoadWith, SaveStatus, SaveRefused, Crash, EndReconciliation, clusterVars
  <2>3. CASE EnforcePrimaryDb
    BY <1>4, <2>1, <2>3, PrimaryReplicas, SMTT(30)
  <2>4. CASE Environment
    BY <1>4, <2>1, <2>4, EnvironmentReplicas, SMTT(30)
  <2>5. CASE EnforceReplicaDb
    <3>1. CASE deployReplicaStatefulSet /\ sts' # sts
      <4>1. PICK i \in Nat : /\ i = mem.last + 1 /\ sts' = Created(i, "replica")
                             /\ mem.spec.failoverDisabled /\ mem.spec.promotePod = 0
                                  => mem.spec.replicas > mem.enforced
        BY <1>4, <3>1, ReplicaIsDeployed, Zenon
      <4>2. replicas(sts') \ DOMAIN sts \subseteq {i}
        BY <4>1 DEF Created, replicas
      <4>3. /\ InOrder(mem.last, mem.enforced) /\ mem.spec.replicas = spec.replicas
            /\ mem.last \in Nat /\ mem.enforced \in Int /\ mem.spec.replicas \in Nat
        BY <1>4, <3>1, Zenon
           DEF DisabledInv, deployReplicaStatefulSet, EnforcesReplicas, Typed, MemType, Specs
      <4>4. mem.spec.failoverDisabled /\ mem.spec.promotePod = 0 => i <= mem.spec.replicas
        BY <4>1, <4>3 DEF InOrder
      <4> QED BY <4>2, <4>4
    <3>2. CASE undeployReplicaStatefulSets
      <4>1. UNCHANGED sts \/ \E i : sts' = Deleted(i)
        BY <3>2 DEF undeployReplicaStatefulSets
      <4> QED BY <4>1, Zenon DEF Deleted, replicas
    <3>3. ReplicasUnchanged \/ ReplicasSkipped => UNCHANGED sts
      BY DEF ReplicasUnchanged, ReplicasSkipped
    <3> QED BY <2>1, <2>5, <3>1, <3>2, <3>3, SMTT(30) DEF EnforceReplicaDb
  <2> QED BY <1>4, <2>2, <2>3, <2>4, <2>5, NextCases, SMTT(30)
<1>5. Spec => [](Typed({{}}) /\ PcTyped)
  BY SpecTyped
<1>6. Typed({{}}) /\ CoverInv /\ DisabledInv /\ [Next]_clusterVars =>
        \A i \in replicas(sts') \ DOMAIN sts :
          mem.spec.failoverDisabled /\ mem.spec.promotePod = 0 => i <= mem.spec.replicas
  BY <1>4
<1> QED BY <1>1, <1>2, <1>3, <1>5, <1>6, PTL DEF Spec, NoReplicaIsReplacedWhenDisabled
=============================================================================
