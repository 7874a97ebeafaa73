------------------------------ MODULE Platform ------------------------------
(* The parts of the platform that keep to themselves, side by side: the push    *)
(* worker, the team of a project, the jobs API, the Edge Functions of a project, *)
(* the admission of calls, the secrets and the capacity of a project, the pools  *)
(* to its database and a deployment. They share no state: what one does leaves   *)
(* the others as they are, so a behaviour is one part's.                         *)
EXTENDS PushOutbox, ProjectTeam, JobsApi, EdgeFunctions, AccessAdmission, ProjectSecrets,
        ProjectCapacity, TenantPools, ControlPlaneStart

CONSTANT Parts

VARIABLE part \* whose behaviour it is

allVars == <<part, outboxVars, teamVars, jobsApiVars, edgeVars, accessVars, secretsVars,
             capacityVars, poolVars, startVars>>

NoTenant == [t \in Tenants |-> "none"]

\* Nobody asks anything of the other parts.
Init ==
  /\ part \in Parts
  /\ OutboxInit /\ TeamInit /\ JobsApiInit /\ EdgeInit /\ AccessInit /\ SecretsInit
  /\ CapacityInit /\ PoolsInit /\ StartInit
  /\ part = "push" <=> database # NoTenant
  /\ part = "team" <=> asking # {}
  /\ part = "api" <=> clients # {}
  /\ part = "edge" <=> wanted # {}
  /\ part = "secrets" <=> work # {}
  /\ part = "capacity" <=> saves # {}
  /\ part = "pools" <=> requests # {}
  /\ part # "start" => site.rows = {}

\* One part takes a step; the other parts' variables stay.
Push ==
  /\ part = "push" /\ OutboxNext
  /\ UNCHANGED <<part, teamVars, jobsApiVars, edgeVars, accessVars, secretsVars,
                 capacityVars, poolVars, startVars>>
Team ==
  /\ part = "team" /\ TeamNext
  /\ UNCHANGED <<part, outboxVars, jobsApiVars, edgeVars, accessVars, secretsVars,
                 capacityVars, poolVars, startVars>>
Api ==
  /\ part = "api" /\ JobsApiNext
  /\ UNCHANGED <<part, outboxVars, teamVars, edgeVars, accessVars, secretsVars,
                 capacityVars, poolVars, startVars>>
Edge ==
  /\ part = "edge" /\ EdgeNext
  /\ UNCHANGED <<part, outboxVars, teamVars, jobsApiVars, accessVars, secretsVars,
                 capacityVars, poolVars, startVars>>
Admission ==
  /\ part = "access" /\ AccessNext
  /\ UNCHANGED <<part, outboxVars, teamVars, jobsApiVars, edgeVars, secretsVars,
                 capacityVars, poolVars, startVars>>
Secrets ==
  /\ part = "secrets" /\ SecretsNext
  /\ UNCHANGED <<part, outboxVars, teamVars, jobsApiVars, edgeVars, accessVars,
                 capacityVars, poolVars, startVars>>
Capacity ==
  /\ part = "capacity" /\ CapacityNext
  /\ UNCHANGED <<part, outboxVars, teamVars, jobsApiVars, edgeVars, accessVars,
                 secretsVars, poolVars, startVars>>
Pools ==
  /\ part = "pools" /\ PoolsNext
  /\ UNCHANGED <<part, outboxVars, teamVars, jobsApiVars, edgeVars, accessVars,
                 secretsVars, capacityVars, startVars>>
Deployment ==
  /\ part = "start" /\ StartNext
  /\ UNCHANGED <<part, outboxVars, teamVars, jobsApiVars, edgeVars, accessVars,
                 secretsVars, capacityVars, poolVars>>

Next == \/ Push \/ Team \/ Api \/ Edge \/ Admission
        \/ Secrets \/ Capacity \/ Pools \/ Deployment

Spec == Init /\ [][Next]_allVars

-----------------------------------------------------------------------------
(* Correctness: the properties of the parts, and their type invariant. *)

\* The parts' variables have the values their code gives them, in every interleaving.
PlatformTypeOK ==
  /\ OutboxTypeOK /\ TeamTypeOK /\ JobsApiTypeOK
  /\ EdgeTypeOK /\ AccessTypeOK /\ SecretsTypeOK
  /\ CapacityTypeOK /\ PoolsTypeOK /\ StartTypeOK
=============================================================================
