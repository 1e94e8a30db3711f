---------------------------- MODULE ServicesCount ----------------------------
(***************************************************************************)
(* ServicesCountSpecEnforcer: the service of the primary and that of the   *)
(* replicas are created, with the port of the spec, once there is a ready  *)
(* instance to serve.                                                      *)
(***************************************************************************)
EXTENDS PodTemplates

isServiceDeployed(r) == view.services[r] # 0

\* Mutation: a service is not deployed once the other one is.
servicesToDeploy_BothMissing ==
  {r \in Roles : view.services = NoServices /\ \E i \in ready(seen) : seen[i].role = r}

servicesToDeploy ==
  {r \in Roles : ~isServiceDeployed(r) /\ \E i \in ready(seen) : seen[i].role = r}

ServicesEnforced(created, next) ==
  /\ services' = [r \in Roles |-> IF r \in created THEN view.wanted.port ELSE services[r]]
  /\ pc' = next
  /\ UNCHANGED <<spec, status, sts, pvcs, lastPrimary, mem, seen, outdated>>
  /\ UNCHANGED <<wanted, deployed, mounts, running, stuck, view>>

deployServices ==
  /\ pc = "services"
  /\ ServicesEnforced(servicesToDeploy, "specs")
  /\ Happens({})

\* The primary's service comes first: if it cannot be created, neither is the other.
deployServicesFails ==
  /\ pc = "services"
  /\ \E failing \in servicesToDeploy :
       ServicesEnforced(IF failing = "primary" THEN {} ELSE servicesToDeploy \ {failing}, "save")
  /\ Happens({"createServiceFails"})

EnforceServices == deployServices \/ deployServicesFails
=============================================================================
