-------------------------- MODULE DeploymentControl --------------------------
(***************************************************************************)
(* Deployments, their rollback, and the conversations that are served by   *)
(* them (the routes create_deployment, rollback, create_conversation,      *)
(* branch_conversation and chat, and the policy lookup of run_turn).       *)
(*                                                                         *)
(* A rollback is taken statement by statement: it reads two rows, and      *)
(* SQLAlchemy writes at the commit only the columns whose new value        *)
(* differs from the one it read.  The two UPDATEs are issued in the order  *)
(* of the primary keys, and nothing is read after them, so they and the    *)
(* commit are one step.  A policy that was signed stays signed, and no     *)
(* other column of a deployment is ever written again, so the other routes *)
(* are one step each.                                                      *)
(*                                                                         *)
(* A deployment's id is its place in the table; 0 stands for no id, and    *)
(* for an id that names no row.                                            *)
(***************************************************************************)
EXTENDS Naturals, Sequences

CONSTANTS Policies,         \* policy_versions rows
          Default,          \* the policy built into run_turn
          Absent,           \* says of a conversation that it is not there
          Conversations,
          Requests,         \* concurrent calls of rollback
          Traffic,          \* values of traffic_percent that clients send
          MaxDeployments    \* bound on the deployments table

ASSUME DefaultAssumption == Default \notin Policies
ASSUME AbsentAssumption == Absent \notin Nat
ASSUME TrafficAssumption == Traffic \subseteq Nat
ASSUME MaxDeploymentsAssumption == MaxDeployments \in Nat

VARIABLES
  signed,       \* the policies whose status is signed
  deployments,  \* committed deployments rows
  served,       \* deployment_id of each conversation, or Absent
  used,         \* the policies that answered in each conversation
  pc,           \* where each rollback is
  dep,          \* the deployment it rolls back
  memDep,       \* that row, as its session read it
  memTarget     \* the target's row, as its session read it

table == <<signed, deployments, served, used>>
vars  == <<signed, deployments, served, used, pc, dep, memDep, memTarget>>

Stages     == {"shadow", "canary", "production"}
Deployment == [policy : Policies, stage : Stages, traffic : Nat,
               status : {"active", "rolled_back"}, target : Nat]

Ids == 1..Len(deployments)

\* What a session that is not open remembers.
Unread == [status |-> "unread"]

Init ==
  /\ signed = {}
  /\ deployments = <<>>
  /\ served = [c \in Conversations |-> Absent]
  /\ used = [c \in Conversations |-> {}]
  /\ pc = [r \in Requests |-> "idle"]
  /\ dep = [r \in Requests |-> 0]
  /\ memDep = [r \in Requests |-> Unread]
  /\ memTarget = [r \in Requests |-> Unread]

-----------------------------------------------------------------------------
\* A policy is signed when it is registered or promoted (PolicyRegistry.tla).
Sign(p) == /\ signed' = signed \cup {p}
           /\ UNCHANGED <<deployments, served, used, pc, dep, memDep, memTarget>>

\* A mutant of CreateDeployment: the status of the policy is not looked at.
CreateUnsigned(p, stage, traffic, target) ==
  /\ Len(deployments) < MaxDeployments
  /\ deployments' = Append(deployments,
       [policy |-> p, stage |-> stage, traffic |-> traffic,
        status |-> "active", target |-> target])
  /\ UNCHANGED <<signed, served, used, pc, dep, memDep, memTarget>>

\* A rollback target is an id the client has seen: an earlier row, or none.
CreateDeployment(p, stage, traffic, target) ==
  /\ Len(deployments) < MaxDeployments
  /\ p \in signed
  /\ deployments' = Append(deployments,
       [policy |-> p, stage |-> stage, traffic |-> traffic,
        status |-> "active", target |-> target])
  /\ UNCHANGED <<signed, served, used, pc, dep, memDep, memTarget>>

-----------------------------------------------------------------------------
\* rollback.

\* A mutant of ReadDeployment: without a target a deployment is its own.
ReadOwnTarget(r, d) ==
  /\ pc[r] = "idle"
  /\ pc' = [pc EXCEPT ![r] = "target"]
  /\ dep' = [dep EXCEPT ![r] = d]
  /\ memDep' = [memDep EXCEPT ![r] =
                  IF deployments[d].target = 0
                  THEN [deployments[d] EXCEPT !.target = d]
                  ELSE deployments[d]]
  /\ UNCHANGED <<table, memTarget>>

\* Without a rollback target the answer is 422 and the request has no effect.
ReadDeployment(r, d) ==
  /\ pc[r] = "idle"
  /\ deployments[d].target # 0
  /\ pc' = [pc EXCEPT ![r] = "target"]
  /\ dep' = [dep EXCEPT ![r] = d]
  /\ memDep' = [memDep EXCEPT ![r] = deployments[d]]
  /\ UNCHANGED <<table, memTarget>>

ReadTarget(r) ==
  /\ pc[r] = "target"
  /\ pc' = [pc EXCEPT ![r] = "commit"]
  /\ memTarget' = [memTarget EXCEPT ![r] = deployments[memDep[r].target]]
  /\ UNCHANGED <<table, dep, memDep>>

\* The column as it is after the flush: written only if the session changed it.
Flushed(column, read, value) == IF read = value THEN column ELSE value

RolledBack(row, read) ==
  [row EXCEPT !.status = Flushed(@, read.status, "rolled_back")]

\* A mutant of Promoted: traffic is cut to what the canary had.
PromotedKeepingTraffic(row, read) ==
  [row EXCEPT !.status = Flushed(@, read.status, "active"),
              !.stage = Flushed(@, read.stage, "production")]

Promoted(row, read) ==
  [row EXCEPT !.status = Flushed(@, read.status, "active"),
              !.stage = Flushed(@, read.stage, "production"),
              !.traffic = Flushed(@, read.traffic, 100)]

Close(r, outcome) == /\ pc' = [pc EXCEPT ![r] = outcome]
                     /\ dep' = [dep EXCEPT ![r] = 0]
                     /\ memDep' = [memDep EXCEPT ![r] = Unread]
                     /\ memTarget' = [memTarget EXCEPT ![r] = Unread]

CommitRollback(r) ==
  /\ pc[r] = "commit"
  /\ deployments' =
       [deployments EXCEPT ![dep[r]] = RolledBack(@, memDep[r]),
                           ![memDep[r].target] = Promoted(@, memTarget[r])]
  /\ Close(r, "ok")
  /\ UNCHANGED <<signed, served, used>>

\* The process or the connection is lost: nothing was written.
CrashRollback(r) == /\ pc[r] \in {"target", "commit"}
                    /\ Close(r, "failed")
                    /\ UNCHANGED table

-----------------------------------------------------------------------------
\* Conversations.

\* create_conversation stores the deployment_id it is sent, whatever it is.
OpenConversation(c, d) ==
  /\ served[c] = Absent
  /\ served' = [served EXCEPT ![c] = d]
  /\ UNCHANGED <<signed, deployments, used, pc, dep, memDep, memTarget>>

Branch(source, c) ==
  /\ served[source] # Absent
  /\ served[c] = Absent
  /\ served' = [served EXCEPT ![c] = served[source]]
  /\ UNCHANGED <<signed, deployments, used, pc, dep, memDep, memTarget>>

\* A mutant of PolicyOf: a conversation follows its deployment's rollback.
PolicyAfterRollback(d) ==
  IF d = 0 THEN Default
  ELSE IF deployments[d].status = "rolled_back"
       THEN deployments[deployments[d].target].policy
       ELSE deployments[d].policy

PolicyOf(d) == IF d = 0 THEN Default ELSE deployments[d].policy

\* run_turn looks the policy up and answers with it.
Turn(c) == /\ served[c] # Absent
           /\ used' = [used EXCEPT ![c] = @ \cup {PolicyOf(served[c])}]
           /\ UNCHANGED <<signed, deployments, served, pc, dep, memDep, memTarget>>

\* chat opens a conversation on the active deployment that the model names and
\* answers in it.  Nobody else sees the conversation before the commit, so the
\* call is one step, at the moment it reads the deployment.  In a conversation
\* that is there already chat is Turn: the deployment it names plays no part.
OpenChat(c, d) ==
  /\ served[c] = Absent
  /\ deployments[d].status = "active"
  /\ served' = [served EXCEPT ![c] = d]
  /\ used' = [used EXCEPT ![c] = @ \cup {PolicyOf(d)}]
  /\ UNCHANGED <<signed, deployments, pc, dep, memDep, memTarget>>

-----------------------------------------------------------------------------
Next ==
  \/ \E p \in Policies : Sign(p)
  \/ \E p \in Policies, stage \in Stages, traffic \in Traffic, target \in Ids \cup {0} :
       CreateDeployment(p, stage, traffic, target)
  \/ \E r \in Requests : \/ \E d \in Ids : ReadDeployment(r, d)
                         \/ ReadTarget(r)
                         \/ CommitRollback(r)
                         \/ CrashRollback(r)
  \/ \E c \in Conversations : \/ \E d \in Ids \cup {0} : OpenConversation(c, d)
                              \/ \E d \in Ids : OpenChat(c, d)
                              \/ \E source \in Conversations : Branch(source, c)
                              \/ Turn(c)

Spec == Init /\ [][Next]_vars

-----------------------------------------------------------------------------
Read == Deployment \cup {Unread}

\* Every variable keeps to the values the code can give it.
TypeOK ==
  /\ signed \subseteq Policies
  /\ deployments \in Seq(Deployment)
  /\ served \in [Conversations -> Nat \cup {Absent}]
  /\ used \in [Conversations -> SUBSET (Policies \cup {Default})]
  /\ pc \in [Requests -> {"idle", "target", "commit", "ok", "failed"}]
  /\ dep \in [Requests -> Nat]
  /\ memDep \in [Requests -> Read]
  /\ memTarget \in [Requests -> Read]

\* Whatever was rolled back, and in whatever order, the policy of every
\* deployment is signed, the reactivated ones too (create_deployment checks it
\* once, and rollback does not check it again).
DeployedIsSigned == \A d \in Ids : deployments[d].policy \in signed

\* A deployment that is rolled back has an earlier deployment to fall back on,
\* so that along rollback_target_id there is always an active one, even while
\* rollbacks of a whole chain race (rollback).
RolledBackHasTarget ==
  \A d \in Ids : deployments[d].status = "rolled_back" =>
    deployments[d].target \in 1..(d - 1)

\* After a rollback its target is in production with all the traffic, even if
\* the target was read before another rollback changed it.
RollbackPromotesTarget ==
  [][\A r \in Requests : pc[r] = "commit" /\ pc'[r] = "ok" =>
       /\ deployments'[memDep[r].target].stage = "production"
       /\ deployments'[memDep[r].target].traffic = 100]_vars

\* One policy answers a conversation from its first turn to its last, across
\* deployments, rollbacks and branches (run_turn, policy_version_id).
OnePolicyPerConversation ==
  \A c \in Conversations : \A p, q \in used[c] : p = q

-----------------------------------------------------------------------------
\* rollback answers that the target is active: it is, when it commits.
\* Violated: see RollbackRace.cfg.
RollbackActivatesTarget ==
  [][\A r \in Requests : pc[r] = "commit" /\ pc'[r] = "ok" =>
       deployments'[memDep[r].target].status = "active"]_vars
=============================================================================
