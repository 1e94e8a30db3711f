---------------------------- MODULE InstanceRoles ----------------------------
(***************************************************************************)
(* What the count of instances promises, without operations, reconciling   *)
(* or listing: who holds the primary role and who follows.  An instance    *)
(* becomes the primary only when there is no other, a follower is never    *)
(* bypassed by a new and empty primary, and a primary never turns into a   *)
(* follower.                                                               *)
(***************************************************************************)
VARIABLES holders, followers

RolesInit == holders = {} /\ followers = {}

\* A primary is created in an empty cluster.
FirstPrimary ==
  /\ holders = {} /\ followers = {}
  /\ \E i \in holders' : holders' = {i}
  /\ followers' = {}

NewFollower ==
  /\ \E i \in followers' \ (followers \cup holders) : followers' = followers \cup {i}
  /\ holders' = holders

Promotion ==
  /\ holders = {}
  /\ \E i \in followers : holders' = {i} /\ followers' = followers \ {i}

Departure == holders' \subseteq holders /\ followers' \subseteq followers

RolesNext == FirstPrimary \/ NewFollower \/ Promotion \/ Departure

RolesSpec == RolesInit /\ [][RolesNext]_<<holders, followers>>
=============================================================================
