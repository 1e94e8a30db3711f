----------------------------- MODULE ConfigStates -----------------------------
(***************************************************************************)
(* The config maps that the pods and the back-up job mount.  The operator  *)
(* deploys a base config map with all the files; a user may name a custom  *)
(* one, whose files then take the place of those of the base one, file by  *)
(* file.  A StatefulSet mounts each file from one of two volumes.          *)
(***************************************************************************)
EXTENDS Naturals

CONSTANT
  ConfigData \* the files (keys with data) of each custom config map, by its number

BaseConfig == 1 \* the base config map

ConfigKeys ==
  {"postgres.conf", "primary_init_script.sh", "pg_hba.conf", "backup_database.sh",
   "copy_primary_data_to_replica.sh", "primary_create_replication_role.sh",
   "promote_replica_to_primary.sh"}
PromoteKey == "promote_replica_to_primary.sh"
BackUpKey == "backup_database.sh"

ASSUME ConfigAssumption ==
  /\ DOMAIN ConfigData \subseteq Nat \ {0, BaseConfig}
  /\ \A c \in DOMAIN ConfigData : ConfigData[c] \subseteq ConfigKeys

Volumes == {"base-config", "custom-config"}

\* The custom config map c is another one than the base one, and it is deployed.
IsCustomConfigDeployed(c, deployedMaps) == c # BaseConfig /\ c \in deployedMaps

\* The volume of each file.
ConfigLocations(c, deployedMaps) ==
  [k \in ConfigKeys |->
     IF IsCustomConfigDeployed(c, deployedMaps) /\ k \in ConfigData[c]
       THEN "custom-config" ELSE "base-config"]

\* Mutation: a mount is never moved back to the base config map.
updateVolumeMountNameIfChanged_NotBack(mounts, locations) ==
  [k \in DOMAIN mounts |-> IF locations[k] = "custom-config" THEN locations[k] ELSE mounts[k]]

\* The mounts of the files are updated, that of the promotion script is not.
updateVolumeMountNameIfChanged(mounts, locations) ==
  [k \in DOMAIN mounts |-> IF k = PromoteKey THEN mounts[k] ELSE locations[k]]

\* The files mounted by the template of a StatefulSet of each role.
templateMounts(role) ==
  [k \in {"postgres.conf", "pg_hba.conf"} \cup
         (IF role = "primary" THEN {"primary_create_replication_role.sh", "primary_init_script.sh"}
                              ELSE {"copy_primary_data_to_replica.sh"}) |-> "base-config"]

\* The init container of a promoted replica runs the promotion script.
withPromotionScript(mounts, locations) ==
  [k \in DOMAIN mounts \cup {PromoteKey} |-> IF k = PromoteKey THEN locations[k] ELSE mounts[k]]
=============================================================================
