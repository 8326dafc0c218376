--------------------------- MODULE ReleasePipeline ---------------------------
(***************************************************************************)
(* The way of a policy to its users: a builder registers it or the         *)
(* improvement loop derives it, a promotion signs it, a deployment serves  *)
(* it and conversations are answered with it.  PolicyRegistry and          *)
(* DeploymentControl run side by side on the policy_versions table; every  *)
(* step that is a route's first is taken by a principal whose role has the *)
(* permission the route requires (auth.py).                                *)
(*                                                                         *)
(* DeploymentControl only knows which policies are signed, and lets any of *)
(* them become so at any time.  Here that set is what the registry says,   *)
(* and the composition is shown to be one of its behaviours.               *)
(***************************************************************************)
EXTENDS Naturals, Sequences

CONSTANTS Missing, Agents, Bodies, Evidences, MaxPolicies, MaxDecisions,
          Default, Absent, Conversations, Traffic, MaxDeployments,
          Builders,    \* concurrent calls of create_agent_version
          Rollbacks    \* concurrent calls of rollback

VARIABLES
  policies, versions, experiments, candidates, decisions,   \* PolicyRegistry
  builderPc, agent, body, number,
  deployments, served, used,                                \* DeploymentControl
  rollbackPc, dep, memDep, memTarget,
  duties   \* who did what for a policy: <<permission, role>>, by policy

registryVars == <<policies, versions, experiments, candidates, decisions,
                  builderPc, agent, body, number>>
servingVars  == <<deployments, served, used, rollbackPc, dep, memDep, memTarget>>
vars         == <<registryVars, servingVars, duties>>

Registry == INSTANCE PolicyRegistry WITH Requests <- Builders, pc <- builderPc

Ids == Registry!Ids

Signed == {p \in Ids : policies[p].status = "signed"}

Serving == INSTANCE DeploymentControl WITH
             Requests <- Rollbacks, pc <- rollbackPc,
             Policies <- 1..MaxPolicies, signed <- Signed

\* What the two modules assume of their constants.
ASSUME MissingAssumption == Missing \notin Nat /\ Missing \notin Registry!Dicts
ASSUME BodiesAssumption == Bodies \subseteq Registry!Documents
ASSUME EvidencesAssumption == Evidences \subseteq Registry!Evidence
ASSUME BoundsAssumption == {MaxPolicies, MaxDecisions, MaxDeployments} \subseteq Nat
ASSUME DefaultAssumption == Default \notin 1..MaxPolicies
ASSUME AbsentAssumption == Absent \notin Nat
ASSUME TrafficAssumption == Traffic \subseteq Nat

-----------------------------------------------------------------------------
\* auth.py.

\* A mutant of ROLE_PERMISSIONS: who deploys may propose what is deployed.
ROLE_PERMISSIONS_proposing ==
  [tenant_owner    |-> {"*"},
   project_admin   |-> {"agent:write", "deployment:write"},
   agent_builder   |-> {"agent:write"},
   rsi_engineer    |-> {"experiment:write", "candidate:write"},
   deployer        |-> {"deployment:write", "promotion:approve", "candidate:write"},
   service_account |-> {}]

\* The permissions of the routes of this module, by role; the roles that have
\* none of them are like service_account, and so is a role the table lacks.
ROLE_PERMISSIONS ==
  [tenant_owner    |-> {"*"},
   project_admin   |-> {"agent:write", "deployment:write"},
   agent_builder   |-> {"agent:write"},
   rsi_engineer    |-> {"experiment:write", "candidate:write"},
   deployer        |-> {"deployment:write", "promotion:approve"},
   service_account |-> {}]

Roles == DOMAIN ROLE_PERMISSIONS

require(permission) ==
  {role \in Roles : ROLE_PERMISSIONS[role] \cap {"*", permission} # {}}

-----------------------------------------------------------------------------
Init ==
  /\ Registry!Init
  /\ Serving!Init
  /\ duties = [p \in 1..MaxPolicies |-> {}]

\* role did what permission allows for the policies of P.
Note(role, permission, P) ==
  duties' = [p \in 1..MaxPolicies |->
               IF p \in P THEN duties[p] \cup {<<permission, role>>} ELSE duties[p]]

\* The policies that a step adds to the table, or signs.
Added    == Ids' \ Ids
NewlySigned == {p \in Ids : p \in Signed' \ Signed}

Register(r) ==
  \/ \E role \in require("agent:write"), a \in Agents, doc \in Bodies :
       Registry!ReadVersion(r, a, doc)
  \/ Registry!InsertVersion(r) \/ Registry!DuplicateVersion(r)
  \/ Registry!CommitVersion(r) \/ Registry!CrashVersion(r)

Freeze == \E role \in require("experiment:write"), p \in Ids :
            Registry!CreateExperiment(p)

Propose(role) == /\ \E p \in experiments, evidence \in Evidences :
                      Registry!Propose(p, evidence)
                 /\ Note(role, "candidate:write", Added)

Promote(role) == /\ \E c \in candidates, approve, passed \in BOOLEAN :
                      Registry!Promote(c, approve, passed)
                 /\ Note(role, "promotion:approve", NewlySigned)

RegistryStep ==
  /\ \/ ((\E r \in Builders : Register(r)) \/ Freeze) /\ UNCHANGED duties
     \/ \E role \in require("candidate:write") : Propose(role)
     \/ \E role \in require("promotion:approve") : Promote(role)
  /\ UNCHANGED servingVars

Deploy ==
  \E role \in require("deployment:write"), p \in 1..MaxPolicies,
     stage \in Serving!Stages, traffic \in Traffic, target \in Serving!Ids \cup {0} :
       Serving!CreateDeployment(p, stage, traffic, target)

Rollback(r) ==
  \/ \E role \in require("deployment:write"), d \in Serving!Ids :
       Serving!ReadDeployment(r, d)
  \/ Serving!ReadTarget(r) \/ Serving!CommitRollback(r) \/ Serving!CrashRollback(r)

Converse(c) ==
  \/ \E d \in Serving!Ids \cup {0} : Serving!OpenConversation(c, d)
  \/ \E d \in Serving!Ids : Serving!OpenChat(c, d)
  \/ \E source \in Conversations : Serving!Branch(source, c)
  \/ Serving!Turn(c)

ServingStep ==
  /\ UNCHANGED <<registryVars, duties>>
  /\ \/ Deploy
     \/ \E r \in Rollbacks : Rollback(r)
     \/ \E c \in Conversations : Converse(c)

Next == RegistryStep \/ ServingStep

Spec == Init /\ [][Next]_vars

-----------------------------------------------------------------------------
\* Every variable keeps its type, those of the two modules composed too.
TypeOK ==
  /\ Registry!TypeOK
  /\ Serving!TypeOK
  /\ duties \in [1..MaxPolicies ->
                   SUBSET ({"candidate:write", "promotion:approve"} \X Roles)]

\* What answers users has earned it: a policy that has answered in a
\* conversation was registered with an agent version, or its gates passed and
\* it was approved, whichever deployments were rolled back and reactivated and
\* however many generations of candidates lie between (create_agent_version,
\* candidates, promote, create_deployment, rollback, run_turn).
AnswersAreEarned ==
  \A c \in Conversations : \A p \in used[c] \ {Default} :
    \/ \E a \in Agents : \E i \in DOMAIN versions[a] : versions[a][i].policy = p
    \/ \E d \in decisions : d.policy = p /\ d.passed /\ d.decision = "approve"

\* No role but the owner's has both proposed and approved a candidate that
\* answers users: candidates and promote require permissions that no other
\* role has together (ROLE_PERMISSIONS, require).
ReleaseTakesTwo ==
  \A c \in Conversations : \A p \in used[c] \ {Default} : policies[p].parent # 0 =>
    \A role \in Roles \ {"tenant_owner"} :
      ~({<<"candidate:write", role>>, <<"promotion:approve", role>>} \subseteq duties[p])

\* Serving sees of the registry what DeploymentControl assumes of it: policies
\* become signed one at a time and never cease to be, so what create_deployment
\* checked once is still true when a rollback reactivates a deployment.
ServingImplemented == Serving!Spec
=============================================================================
