---------------------------- MODULE PolicyRegistry ----------------------------
(***************************************************************************)
(* Where policies come from: agent versions that a builder registers, and  *)
(* candidates that the improvement loop derives from a baseline and that a *)
(* promotion signs (the routes create_agent_version, create_experiment,    *)
(* candidates and promote).                                                *)
(*                                                                         *)
(* Registering an agent version numbers it with SELECT max(version) + 1    *)
(* and is taken statement by statement, since two builders may do it at    *)
(* once.  The other routes read rows that never change again (documents,   *)
(* baselines, candidates) and write rows of their own or a status that     *)
(* only goes one way, so each is one step.                                 *)
(*                                                                         *)
(* A policy's id is its place in the table, 0 stands for no policy.        *)
(***************************************************************************)
EXTENDS PolicyDSL, FiniteSets

CONSTANTS Agents,
          Requests,        \* concurrent calls of create_agent_version
          Bodies,          \* the policy documents that builders send
          MaxPolicies,     \* bound on the policy_versions table
          MaxDecisions     \* bound on the promotion_decisions table

ASSUME BodiesAssumption == Bodies \subseteq Documents
ASSUME MaxPoliciesAssumption == MaxPolicies \in Nat
ASSUME MaxDecisionsAssumption == MaxDecisions \in Nat

VARIABLES
  policies,     \* committed policy_versions, in the order of their commits
  versions,     \* committed agent_versions of each agent: number and policy
  experiments,  \* the baselines that experiments have frozen
  candidates,   \* committed candidates rows, by the policy they propose
  decisions,    \* committed promotion_decisions, as a set
  pc,           \* where each create_agent_version call is
  agent,        \* the agent it is for
  body,         \* the document it registers
  number        \* the version number it computed

registry == <<policies, versions, experiments, candidates, decisions>>
vars     == <<policies, versions, experiments, candidates, decisions,
              pc, agent, body, number>>

Policy    == [document : Documents, parent : Nat,
              status : {"signed", "candidate"}]
Version   == [number : Nat, policy : Nat]
Candidate == [policy : Nat, validation : {"valid", "invalid"}]
Decision  == [policy : Nat, passed : BOOLEAN,
              decision : {"approve", "hold", "reject"}]

Ids == 1..Len(policies)

Init ==
  /\ policies = <<>>
  /\ versions = [a \in Agents |-> <<>>]
  /\ experiments = {}
  /\ candidates = {}
  /\ decisions = {}
  /\ pc = [r \in Requests |-> "idle"]
  /\ agent \in [Requests -> Agents]
  /\ body = [r \in Requests |-> [f \in Fields |-> Missing]]
  /\ number = [r \in Requests |-> 0]

-----------------------------------------------------------------------------
\* create_agent_version.

\* setdefault fills in the fields the schema requires.
Defaulted(doc) ==
  [f \in Fields |-> IF f \in Required THEN OrEmpty(doc[f]) ELSE doc[f]]

TopNumber(a) ==
  CHOOSE n \in {versions[a][i].number : i \in DOMAIN versions[a]} \cup {0} :
    \A i \in DOMAIN versions[a] : versions[a][i].number <= n

\* The body is checked, the policy row inserted and the highest version read.
ReadVersion(r, a, doc) ==
  /\ pc[r] = "idle"
  /\ Len(policies) < MaxPolicies
  /\ validate_mutation(Defaulted(doc), Defaulted(doc)) = {}
  /\ pc' = [pc EXCEPT ![r] = "insert"]
  /\ agent' = [agent EXCEPT ![r] = a]
  /\ body' = [body EXCEPT ![r] = Defaulted(doc)]
  /\ number' = [number EXCEPT ![r] = TopNumber(a) + 1]
  /\ UNCHANGED registry

\* Another open transaction inserted the same (agent_id, version).
Blocked(r) == \E s \in Requests \ {r} : /\ pc[s] = "commit"
                                        /\ agent[s] = agent[r]
                                        /\ number[s] = number[r]

Taken(r) == \E i \in DOMAIN versions[agent[r]] :
              versions[agent[r]][i].number = number[r]

\* A mutant of InsertVersion: agent_versions without its UNIQUE constraint.
InsertVersionUnconstrained(r) ==
  /\ pc[r] = "insert"
  /\ pc' = [pc EXCEPT ![r] = "commit"]
  /\ UNCHANGED <<registry, agent, body, number>>

InsertVersion(r) ==
  /\ pc[r] = "insert"
  /\ ~Blocked(r)
  /\ ~Taken(r)
  /\ pc' = [pc EXCEPT ![r] = "commit"]
  /\ UNCHANGED <<registry, agent, body, number>>

Closed(r, outcome) ==
  /\ pc' = [pc EXCEPT ![r] = outcome]
  /\ body' = [body EXCEPT ![r] = [f \in Fields |-> Missing]]
  /\ number' = [number EXCEPT ![r] = 0]
  /\ UNCHANGED agent

\* A mutant of DuplicateVersion: the policy row was committed on its own before
\* the version was numbered.
DuplicateVersionKeepingPolicy(r) ==
  /\ pc[r] = "insert"
  /\ ~Blocked(r)
  /\ Taken(r)
  /\ policies' = Append(policies, [document |-> body[r], parent |-> 0,
                                   status |-> "signed"])
  /\ Closed(r, "failed")
  /\ UNCHANGED <<versions, experiments, candidates, decisions>>

\* IntegrityError: the policy row goes with the transaction.
DuplicateVersion(r) ==
  /\ pc[r] = "insert"
  /\ ~Blocked(r)
  /\ Taken(r)
  /\ Closed(r, "failed")
  /\ UNCHANGED registry

CommitVersion(r) ==
  /\ pc[r] = "commit"
  /\ Len(policies) < MaxPolicies
  /\ policies' = Append(policies, [document |-> body[r], parent |-> 0,
                                   status |-> "signed"])
  /\ versions' = [versions EXCEPT ![agent[r]] =
                    Append(@, [number |-> number[r], policy |-> Len(policies) + 1])]
  /\ Closed(r, "ok")
  /\ UNCHANGED <<experiments, candidates, decisions>>

\* The process or the connection is lost: nothing of the call survives.
CrashVersion(r) == /\ pc[r] \in {"insert", "commit"}
                   /\ Closed(r, "failed")
                   /\ UNCHANGED registry

-----------------------------------------------------------------------------
\* The improvement loop.

\* create_experiment does not look at the baseline it freezes; candidates
\* answers 404 when it is not there, so only those that are matter.
CreateExperiment(p) ==
  /\ p \in Ids
  /\ experiments' = experiments \cup {p}
  /\ UNCHANGED <<policies, versions, candidates, decisions, pc, agent, body, number>>

\* A mutant of Validation: the status of the policy is stored instead.
ValidationOfPolicy(base, document) ==
  IF validate_mutation(base, document) = {} THEN "candidate" ELSE "invalid"

Validation(base, document) ==
  IF validate_mutation(base, document) = {} THEN "valid" ELSE "invalid"

Propose(p, evidence) ==
  LET base     == policies[p].document
      proposed == propose_candidates(base, evidence)
  IN  /\ Len(policies) + Len(proposed) <= MaxPolicies
      /\ policies' = policies \o
           [i \in 1..Len(proposed) |-> [document |-> proposed[i], parent |-> p,
                                        status |-> "candidate"]]
      /\ candidates' = candidates \cup
           {[policy |-> Len(policies) + i,
             validation |-> Validation(base, proposed[i])] : i \in 1..Len(proposed)}
      /\ UNCHANGED <<versions, experiments, decisions, pc, agent, body, number>>

\* A mutant of Outcome: an approver's request outweighs the gates.
OutcomeApproved(approve, passed) ==
  IF approve THEN "approve" ELSE IF ~passed THEN "reject" ELSE "hold"

Outcome(approve, passed) ==
  IF approve /\ passed THEN "approve" ELSE IF ~passed THEN "reject" ELSE "hold"

\* A mutant of Promote: a rejection takes the signature back.
PromoteRevoking(c, approve, passed) ==
  LET outcome == Outcome(approve, passed)
  IN  /\ Cardinality(decisions) < MaxDecisions
      /\ decisions' = decisions \cup
           {[policy |-> c.policy, passed |-> passed, decision |-> outcome]}
      /\ policies' = [policies EXCEPT ![c.policy].status =
                        IF outcome = "approve" THEN "signed" ELSE "candidate"]
      /\ UNCHANGED <<versions, experiments, candidates, pc, agent, body, number>>

\* promote: what the gates said of the scores in the request is passed (see
\* promotion_gate), what the approver asked for is approve.
Promote(c, approve, passed) ==
  LET outcome == Outcome(approve, passed)
  IN  /\ Cardinality(decisions) < MaxDecisions
      /\ decisions' = decisions \cup
           {[policy |-> c.policy, passed |-> passed, decision |-> outcome]}
      /\ policies' = IF outcome = "approve"
                     THEN [policies EXCEPT ![c.policy].status = "signed"]
                     ELSE policies
      /\ UNCHANGED <<versions, experiments, candidates, pc, agent, body, number>>

-----------------------------------------------------------------------------
CONSTANT Evidences   \* the evaluation results the loop is given
ASSUME EvidencesAssumption == Evidences \subseteq Evidence

Next ==
  \/ \E r \in Requests :
       \/ \E a \in Agents, doc \in Bodies : ReadVersion(r, a, doc)
       \/ InsertVersion(r)
       \/ DuplicateVersion(r)
       \/ CommitVersion(r)
       \/ CrashVersion(r)
  \/ \E p \in Ids : CreateExperiment(p)
  \/ \E p \in experiments, evidence \in Evidences : Propose(p, evidence)
  \/ \E c \in candidates, approve, passed \in BOOLEAN : Promote(c, approve, passed)

Spec == Init /\ [][Next]_vars

-----------------------------------------------------------------------------
\* Every variable keeps to the values the code can give it.
TypeOK ==
  /\ policies \in Seq(Policy)
  /\ versions \in [Agents -> Seq(Version)]
  /\ experiments \subseteq Nat
  /\ candidates \subseteq Candidate
  /\ decisions \subseteq Decision
  /\ pc \in [Requests -> {"idle", "insert", "commit", "ok", "failed"}]
  /\ agent \in [Requests -> Agents]
  /\ body \in [Requests -> Documents]
  /\ number \in [Requests -> Nat]

\* The versions of an agent are numbered 1, 2, 3, ... whichever builders race
\* for a number (create_agent_version, the UNIQUE constraint of agent_versions).
VersionsGapless ==
  \A a \in Agents : \A i \in DOMAIN versions[a] : versions[a][i].number = i

\* Every policy that no experiment derived belongs to exactly one agent
\* version: a call that loses the race for a number leaves no signed policy
\* behind (create_agent_version writes both rows in one transaction).
NoOrphanPolicy ==
  \A p \in Ids : policies[p].parent = 0 =>
    \E a \in Agents : \E i \in DOMAIN versions[a] :
      /\ versions[a][i].policy = p
      /\ \A b \in Agents : \A j \in DOMAIN versions[b] :
           versions[b][j].policy = p => a = b /\ i = j

\* However many generations of candidates are derived from each other, the
\* protected fields are those of the policy a builder registered (the loop of
\* candidates, promote and create_experiment; apply_mutation).
ProtectedFieldsKept ==
  \A p \in Ids : policies[p].parent # 0 =>
    \A f \in PROTECTED_FIELDS :
      policies[p].document[f] = policies[policies[p].parent].document[f]

\* Every candidate the generator proposes passes the validation of its own
\* mutation, so promote may rely on it without looking at validation_status.
CandidatesAreValid == \A c \in candidates : c.validation = "valid"

\* Over all generations a candidate never allows more turns than its parent,
\* and never more than 40, and never retrieves more than 12 passages where its
\* parent did not (the bounds in propose_candidates).
TuningIsBounded ==
  \A p \in Ids : policies[p].parent # 0 =>
    LET child  == policies[p].document
        parent == policies[policies[p].parent].document
        turns(d) == Get(d, "termination_policy", "max_turns", 30)
        passages(d) == Get(d, "retrieval_policy", "context_k", 6)
    IN  /\ turns(child) <= turns(parent)
        /\ passages(child) > passages(parent) => passages(child) <= 12

\* A candidate is signed only by an approval whose gates passed (promote).
SignedThroughGate ==
  \A p \in Ids : policies[p].parent # 0 /\ policies[p].status = "signed" =>
    \E d \in decisions : d.policy = p /\ d.decision = "approve" /\ d.passed

\* What is in the registry stays: documents and parents never change and a
\* signed policy stays signed, so what was read about a policy when it was
\* deployed or frozen in an experiment is still true.
RegistryOnlyGrows ==
  [][/\ Len(policies) <= Len(policies')
     /\ \A p \in Ids : /\ policies'[p].document = policies[p].document
                       /\ policies'[p].parent = policies[p].parent
                       /\ policies[p].status = "signed" =>
                            policies'[p].status = "signed"]_vars
=============================================================================
