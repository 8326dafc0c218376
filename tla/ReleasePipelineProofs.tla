------------------------ MODULE ReleasePipelineProofs ------------------------
(***************************************************************************)
(* ReleasePipeline for any number of builders, rollbacks, policies and     *)
(* conversations.  The argument is compositional: the registry's half of   *)
(* every step is a step of PolicyRegistry, so what is proved of it holds   *)
(* here; with that, the other half is a step of DeploymentControl, so what *)
(* is proved of that holds too, and the two together say what a policy     *)
(* must have gone through before it answers.                               *)
(***************************************************************************)
EXTENDS ReleasePipeline, TLAPS

RegistryP == INSTANCE PolicyRegistryProofs WITH Requests <- Builders, pc <- builderPc

ServingP == INSTANCE DeploymentControlProofs WITH
              Requests <- Rollbacks, pc <- rollbackPc,
              Policies <- 1..MaxPolicies, signed <- Signed

-----------------------------------------------------------------------------
\* The instances under their two names.

LEMMA SameFields ==
  /\ Registry!Fields = RegistryP!Fields
  /\ Registry!Required = RegistryP!Required
  /\ Registry!PROTECTED_FIELDS = RegistryP!PROTECTED_FIELDS
  /\ Registry!ALLOWED_COMPONENTS = RegistryP!ALLOWED_COMPONENTS
  /\ Registry!Descriptive = RegistryP!Descriptive
  /\ Registry!Documents = RegistryP!Documents
  /\ Registry!registry = RegistryP!registry
  /\ Registry!Ids = RegistryP!Ids
  BY DEF Registry!Fields, RegistryP!Fields, Registry!Required, RegistryP!Required,
         Registry!PROTECTED_FIELDS, RegistryP!PROTECTED_FIELDS,
         Registry!ALLOWED_COMPONENTS, RegistryP!ALLOWED_COMPONENTS,
         Registry!Descriptive, RegistryP!Descriptive,
         Registry!Documents, RegistryP!Documents, Registry!Dicts, RegistryP!Dicts,
         Registry!Keys, RegistryP!Keys,
         Registry!registry, RegistryP!registry, Registry!Ids, RegistryP!Ids

LEMMA SameValidation ==
  ASSUME NEW base, NEW doc
  PROVE  /\ Registry!validate_mutation(base, doc) = RegistryP!validate_mutation(base, doc)
         /\ Registry!Validation(base, doc) = RegistryP!Validation(base, doc)
<1>1. Registry!semantic_diff(base, doc) = RegistryP!semantic_diff(base, doc)
  BY SameFields DEF Registry!semantic_diff, RegistryP!semantic_diff
<1>2. Registry!validate_mutation(base, doc) = RegistryP!validate_mutation(base, doc)
  BY <1>1, SameFields DEF Registry!validate_mutation, RegistryP!validate_mutation
<1>3. QED
  BY <1>2 DEF Registry!Validation, RegistryP!Validation

LEMMA SameProposals ==
  ASSUME NEW base, NEW evidence
  PROVE  Registry!propose_candidates(base, evidence)
           = RegistryP!propose_candidates(base, evidence)
  BY DEF Registry!propose_candidates, RegistryP!propose_candidates,
         Registry!Suggestions, RegistryP!Suggestions, Registry!If, RegistryP!If,
         Registry!Patch, RegistryP!Patch, Registry!MaxTurns, RegistryP!MaxTurns,
         Registry!ContextK, RegistryP!ContextK, Registry!AtMost, RegistryP!AtMost,
         Registry!Get, RegistryP!Get, Registry!OrEmpty, RegistryP!OrEmpty,
         Registry!EmptyDict, RegistryP!EmptyDict, Registry!Keys, RegistryP!Keys,
         Registry!Updated, RegistryP!Updated,
         Registry!apply_mutation, RegistryP!apply_mutation

LEMMA SameBuilding ==
  ASSUME NEW r
  PROVE  /\ \A a, doc : Registry!ReadVersion(r, a, doc) => RegistryP!ReadVersion(r, a, doc)
         /\ Registry!InsertVersion(r) => RegistryP!InsertVersion(r)
         /\ Registry!DuplicateVersion(r) => RegistryP!DuplicateVersion(r)
         /\ Registry!CommitVersion(r) => RegistryP!CommitVersion(r)
         /\ Registry!CrashVersion(r) => RegistryP!CrashVersion(r)
<1>1. \A a : Registry!TopNumber(a) = RegistryP!TopNumber(a)
  BY DEF Registry!TopNumber, RegistryP!TopNumber
<1>2. \A doc : Registry!Defaulted(doc) = RegistryP!Defaulted(doc)
  BY SameFields DEF Registry!Defaulted, RegistryP!Defaulted, Registry!OrEmpty,
     RegistryP!OrEmpty, Registry!EmptyDict, RegistryP!EmptyDict, Registry!Keys,
     RegistryP!Keys
<1>3. \A outcome : Registry!Closed(r, outcome) = RegistryP!Closed(r, outcome)
  BY SameFields DEF Registry!Closed, RegistryP!Closed
<1>4. \A a, doc : Registry!ReadVersion(r, a, doc) => RegistryP!ReadVersion(r, a, doc)
  BY <1>1, <1>2, SameFields, SameValidation
     DEF Registry!ReadVersion, RegistryP!ReadVersion, Registry!registry, RegistryP!registry
<1>5. Registry!InsertVersion(r) => RegistryP!InsertVersion(r)
  BY DEF Registry!InsertVersion, RegistryP!InsertVersion, Registry!Blocked,
     RegistryP!Blocked, Registry!Taken, RegistryP!Taken, Registry!registry,
     RegistryP!registry
<1>6. Registry!DuplicateVersion(r) => RegistryP!DuplicateVersion(r)
  BY <1>3 DEF Registry!DuplicateVersion, RegistryP!DuplicateVersion, Registry!Blocked,
     RegistryP!Blocked, Registry!Taken, RegistryP!Taken, Registry!registry,
     RegistryP!registry
<1>7. Registry!CommitVersion(r) => RegistryP!CommitVersion(r)
  BY <1>3 DEF Registry!CommitVersion, RegistryP!CommitVersion
<1>8. Registry!CrashVersion(r) => RegistryP!CrashVersion(r)
  BY <1>3 DEF Registry!CrashVersion, RegistryP!CrashVersion, Registry!registry,
     RegistryP!registry
<1>9. QED
  BY <1>4, <1>5, <1>6, <1>7, <1>8

LEMMA SameLoop ==
  /\ \A p : Registry!CreateExperiment(p) => RegistryP!CreateExperiment(p)
  /\ \A p, evidence : Registry!Propose(p, evidence) => RegistryP!Propose(p, evidence)
  /\ \A c, approve, passed :
       Registry!Promote(c, approve, passed) => RegistryP!Promote(c, approve, passed)
<1>1. \A p : Registry!CreateExperiment(p) => RegistryP!CreateExperiment(p)
  BY SameFields DEF Registry!CreateExperiment, RegistryP!CreateExperiment
<1>2. \A p, evidence : Registry!Propose(p, evidence) => RegistryP!Propose(p, evidence)
  BY SameProposals, SameValidation DEF Registry!Propose, RegistryP!Propose
<1>3. \A D : Registry!Cardinality(D) = RegistryP!Cardinality(D)
  BY DEF Registry!Cardinality, RegistryP!Cardinality
<1>4. \A approve, passed :
        Registry!Outcome(approve, passed) = RegistryP!Outcome(approve, passed)
  BY DEF Registry!Outcome, RegistryP!Outcome
<1>5. \A c, approve, passed :
        Registry!Promote(c, approve, passed) => RegistryP!Promote(c, approve, passed)
  BY <1>3, <1>4 DEF Registry!Promote, RegistryP!Promote
<1>6. QED
  BY <1>1, <1>2, <1>5

\* The operators of the deployments, and their steps.
LEMMA SameServing ==
  /\ Serving!Init => ServingP!Init
  /\ [Serving!Next]_(Serving!vars) => [ServingP!Next]_(ServingP!vars)
<1>1. /\ Serving!Ids = ServingP!Ids /\ Serving!Stages = ServingP!Stages
      /\ Serving!Unread = ServingP!Unread
      /\ Serving!vars = ServingP!vars /\ Serving!table = ServingP!table
  BY DEF Serving!Ids, ServingP!Ids, Serving!Stages, ServingP!Stages, Serving!Unread,
     ServingP!Unread, Serving!vars, ServingP!vars, Serving!table, ServingP!table
<1>2. \A d : Serving!PolicyOf(d) = ServingP!PolicyOf(d)
  BY DEF Serving!PolicyOf, ServingP!PolicyOf
<1>3. /\ \A p : Serving!Sign(p) => ServingP!Sign(p)
      /\ \A p, stage, traffic, target :
           Serving!CreateDeployment(p, stage, traffic, target)
             => ServingP!CreateDeployment(p, stage, traffic, target)
  BY DEF Serving!Sign, ServingP!Sign, Serving!CreateDeployment, ServingP!CreateDeployment
<1>4. ASSUME NEW r
      PROVE  /\ \A d : Serving!ReadDeployment(r, d) => ServingP!ReadDeployment(r, d)
             /\ Serving!ReadTarget(r) => ServingP!ReadTarget(r)
  BY <1>1 DEF Serving!ReadDeployment, ServingP!ReadDeployment, Serving!ReadTarget,
     ServingP!ReadTarget, Serving!table, ServingP!table
<1>5. ASSUME NEW r
      PROVE  /\ Serving!CommitRollback(r) => ServingP!CommitRollback(r)
             /\ Serving!CrashRollback(r) => ServingP!CrashRollback(r)
  <2>1. \A outcome : Serving!Close(r, outcome) = ServingP!Close(r, outcome)
    BY <1>1 DEF Serving!Close, ServingP!Close
  <2>2. \A row, read : /\ Serving!RolledBack(row, read) = ServingP!RolledBack(row, read)
                       /\ Serving!Promoted(row, read) = ServingP!Promoted(row, read)
    BY DEF Serving!RolledBack, ServingP!RolledBack, Serving!Promoted, ServingP!Promoted,
       Serving!Flushed, ServingP!Flushed
  <2>3. Serving!CommitRollback(r) => ServingP!CommitRollback(r)
    BY <2>1, <2>2 DEF Serving!CommitRollback, ServingP!CommitRollback
  <2>4. Serving!CrashRollback(r) => ServingP!CrashRollback(r)
    BY <2>1 DEF Serving!CrashRollback, ServingP!CrashRollback, Serving!table, ServingP!table
  <2>5. QED
    BY <2>3, <2>4
<1>6. ASSUME NEW c
      PROVE  /\ \A d : Serving!OpenConversation(c, d) => ServingP!OpenConversation(c, d)
             /\ \A d : Serving!OpenChat(c, d) => ServingP!OpenChat(c, d)
             /\ \A source : Serving!Branch(source, c) => ServingP!Branch(source, c)
             /\ Serving!Turn(c) => ServingP!Turn(c)
  BY <1>2 DEF Serving!OpenConversation, ServingP!OpenConversation, Serving!OpenChat,
     ServingP!OpenChat, Serving!Branch, ServingP!Branch, Serving!Turn, ServingP!Turn
<1>7. Serving!Next => ServingP!Next
  BY <1>1, <1>3, <1>4, <1>5, <1>6 DEF Serving!Next, ServingP!Next
<1>8. Serving!Init => ServingP!Init
  BY <1>1 DEF Serving!Init, ServingP!Init
<1>9. QED
  BY <1>1, <1>7, <1>8 DEF Serving!vars, ServingP!vars

-----------------------------------------------------------------------------
\* The registry's half.

\* The assumptions under which the registry's theorems hold.
LEMMA RegistryAssumptions ==
  /\ Missing \notin Nat /\ Missing \notin RegistryP!Dicts
  /\ Bodies \subseteq RegistryP!Documents
  /\ MaxPolicies \in Nat
  /\ MaxDecisions \in Nat
  /\ Evidences \subseteq RegistryP!Evidence
  BY SameFields, MissingAssumption, BodiesAssumption, BoundsAssumption, EvidencesAssumption
     DEF Registry!Dicts, RegistryP!Dicts, Registry!Keys, RegistryP!Keys,
         Registry!Evidence, RegistryP!Evidence

LEMMA StepIsRegistryStep == RegistryStep => RegistryP!Next
<1>1. SUFFICES ASSUME RegistryStep
               PROVE  RegistryP!Next
  OBVIOUS
<1>2. ASSUME NEW r \in Builders, Register(r)
      PROVE  RegistryP!Next
  BY <1>2, SameBuilding DEF Register, RegistryP!Next
<1>3. CASE Freeze
  BY <1>3, SameLoop, SameFields DEF Freeze, Ids, RegistryP!Next
<1>4. ASSUME NEW role, Propose(role)
      PROVE  RegistryP!Next
  BY <1>4, SameLoop DEF Propose, RegistryP!Next
<1>5. ASSUME NEW role, Promote(role)
      PROVE  RegistryP!Next
  BY <1>5, SameLoop DEF Promote, RegistryP!Next
<1>6. QED
  BY <1>1, <1>2, <1>3, <1>4, <1>5 DEF RegistryStep

LEMMA InitIsRegistryInit == Init => RegistryP!Init
  BY SameFields DEF Init, Registry!Init, RegistryP!Init

\* Everything that is proved of the registry holds in the pipeline.
LEMMA RegistryHolds == Spec => []RegistryP!IInv
<1>1. Init => RegistryP!IInv
  BY InitIsRegistryInit, RegistryP!InitIInv, RegistryAssumptions
<1>2. RegistryP!IInv /\ [Next]_vars => RegistryP!IInv'
  <2>1. [Next]_vars => [RegistryP!Next]_(RegistryP!vars)
    BY StepIsRegistryStep DEF Next, ServingStep, vars, registryVars, RegistryP!vars
  <2>2. QED
    BY <2>1, RegistryP!StepIInv, RegistryAssumptions
<1>3. QED
  BY <1>1, <1>2, PTL DEF Spec

\* The table of the policies keeps its bound.
Bounded == Len(policies) <= MaxPolicies

LEMMA StepBounded ==
  ASSUME RegistryP!IInv, Bounded, [Next]_vars
  PROVE  Bounded'
<1>1. policies \in Seq(RegistryP!Policy)
  BY DEF RegistryP!IInv, RegistryP!TypeOK
<1>2. CASE UNCHANGED policies
  BY <1>2 DEF Bounded
<1>3. ASSUME NEW r \in Builders, Registry!CommitVersion(r)
      PROVE  Bounded'
  <2>1. PICK row : policies' = Append(policies, row)
    BY <1>3 DEF Registry!CommitVersion
  <2>2. Len(policies) < MaxPolicies
    BY <1>3 DEF Registry!CommitVersion
  <2>3. QED
    BY <1>1, <2>1, <2>2, BoundsAssumption DEF Bounded
<1>4. ASSUME NEW p \in experiments, NEW evidence, Registry!Propose(p, evidence)
      PROVE  Bounded'
  <2> DEFINE proposed == Registry!propose_candidates(policies[p].document, evidence)
             rows == [i \in 1..Len(proposed) |->
                        [document |-> proposed[i], parent |-> p, status |-> "candidate"]]
  <2>1. policies' = policies \o rows /\ Len(policies) + Len(proposed) <= MaxPolicies
    BY <1>4 DEF Registry!Propose
  <2>2. p \in RegistryP!Ids
    BY DEF RegistryP!IInv, RegistryP!LinksAreKnown
  <2>3. policies[p].document \in RegistryP!Documents
    <3>1. policies[p] \in RegistryP!Policy
      BY <1>1, <2>2 DEF RegistryP!Ids
    <3>2. QED
      BY <3>1 DEF RegistryP!Policy
  <2>4. proposed \in Seq(RegistryP!Documents)
    BY <2>3, SameProposals, RegistryP!ProposalsAreMutations, RegistryAssumptions
  <2> HIDE DEF proposed
  <2>5. Len(policies') = Len(policies) + Len(proposed)
    BY <1>1, <2>1, <2>4
  <2>6. QED
    BY <2>1, <2>5 DEF Bounded
<1>5. ASSUME NEW c \in candidates, NEW approve, NEW passed,
             Registry!Promote(c, approve, passed)
      PROVE  Bounded'
  <2>1. Len(policies') = Len(policies)
    BY <1>1, <1>5 DEF Registry!Promote
  <2>2. QED
    BY <2>1 DEF Bounded
<1>6. QED
  BY <1>2, <1>3, <1>4, <1>5 DEF Next, RegistryStep, ServingStep, Register, Freeze, Propose,
     Promote, Registry!ReadVersion, Registry!InsertVersion, Registry!DuplicateVersion,
     Registry!CrashVersion, Registry!CreateExperiment, Registry!registry, vars, registryVars

\* A step signs one policy or none, and takes no signature back.
LEMMA StepSignsOne ==
  ASSUME RegistryP!IInv, Bounded, RegistryStep
  PROVE  Signed' = Signed \/ \E p \in 1..MaxPolicies : Signed' = Signed \cup {p}
<1>1. policies \in Seq(RegistryP!Policy)
  BY DEF RegistryP!IInv, RegistryP!TypeOK
<1>2. CASE UNCHANGED policies
  BY <1>2 DEF Signed, Ids, Registry!Ids
<1>3. ASSUME NEW r \in Builders, Registry!CommitVersion(r)
      PROVE  \E p \in 1..MaxPolicies : Signed' = Signed \cup {p}
  <2> DEFINE row == [document |-> body[r], parent |-> 0, status |-> "signed"]
             p == Len(policies) + 1
  <2>1. policies' = Append(policies, row) /\ Len(policies) < MaxPolicies
    BY <1>3 DEF Registry!CommitVersion
  <2>2. row.status = "signed"
    OBVIOUS
  <2> HIDE DEF row
  <2>3. /\ Len(policies') = p
        /\ \A q \in 1..Len(policies) : policies'[q] = policies[q]
        /\ policies'[p] = row
    BY <1>1, <2>1
  <2>4. Signed' = Signed \cup {p}
    BY <1>1, <2>2, <2>3 DEF Signed, Ids, Registry!Ids
  <2>5. QED
    BY <1>1, <2>1, <2>4, BoundsAssumption
<1>4. ASSUME NEW p \in experiments, NEW evidence, Registry!Propose(p, evidence)
      PROVE  Signed' = Signed
  <2>1. RegistryP!Propose(p, evidence)
    BY <1>4, SameLoop
  <2>2. /\ policies' \in Seq(RegistryP!Policy)
        /\ Len(policies) <= Len(policies')
        /\ \A q \in RegistryP!Ids : policies'[q] = policies[q]
        /\ \A q \in RegistryP!Ids' \ RegistryP!Ids : policies'[q].status = "candidate"
    BY <2>1, RegistryP!ProposeAppends, RegistryAssumptions
  <2>3. QED
    BY <1>1, <2>2 DEF Signed, Ids, Registry!Ids, RegistryP!Ids
<1>5. ASSUME NEW c \in candidates, NEW approve, NEW passed,
             Registry!Promote(c, approve, passed)
      PROVE  Signed' = Signed \/ \E p \in 1..MaxPolicies : Signed' = Signed \cup {p}
  <2>1. c.policy \in 1..Len(policies)
    BY DEF RegistryP!IInv, RegistryP!LinksAreKnown, RegistryP!Ids
  <2>2. CASE policies' = [policies EXCEPT ![c.policy].status = "signed"]
    <3>1. policies[c.policy] \in RegistryP!Policy
      BY <1>1, <2>1
    <3>2. /\ Len(policies') = Len(policies)
          /\ policies'[c.policy].status = "signed"
          /\ \A q \in 1..Len(policies) : q # c.policy => policies'[q] = policies[q]
      BY <1>1, <2>1, <2>2, <3>1 DEF RegistryP!Policy
    <3>3. Signed' = Signed \cup {c.policy}
      BY <2>1, <3>2 DEF Signed, Ids, Registry!Ids
    <3>4. c.policy \in 1..MaxPolicies
      BY <1>1, <2>1, BoundsAssumption DEF Bounded
    <3>5. QED
      BY <3>3, <3>4
  <2>3. CASE policies' = policies
    BY <2>3 DEF Signed, Ids, Registry!Ids
  <2>4. QED
    BY <1>5, <2>2, <2>3 DEF Registry!Promote
<1>6. QED
  BY <1>2, <1>3, <1>4, <1>5 DEF RegistryStep, Register, Freeze, Propose,
     Promote, Registry!ReadVersion, Registry!InsertVersion, Registry!DuplicateVersion,
     Registry!CrashVersion, Registry!CreateExperiment, Registry!registry

-----------------------------------------------------------------------------
\* The deployments' half.

LEMMA InitIsServingInit == Init => Serving!Init
  BY DEF Init, Registry!Init, Serving!Init, Signed, Ids, Registry!Ids

LEMMA StepIsServingStep ==
  ASSUME RegistryP!IInv, Bounded, [Next]_vars
  PROVE  [Serving!Next]_(Serving!vars)
<1>1. CASE RegistryStep
  <2>1. CASE Signed' = Signed
    BY <1>1, <2>1 DEF RegistryStep, servingVars, Serving!vars
  <2>2. ASSUME NEW p \in 1..MaxPolicies, Signed' = Signed \cup {p}
        PROVE  Serving!Sign(p)
    BY <1>1, <2>2 DEF RegistryStep, servingVars, Serving!Sign
  <2>3. QED
    BY <1>1, <2>1, <2>2, StepSignsOne DEF Serving!Next
<1>2. CASE ServingStep
  <2>1. ASSUME Deploy PROVE Serving!Next
    BY <2>1 DEF Deploy, Serving!Next
  <2>2. ASSUME NEW r \in Rollbacks, Rollback(r) PROVE Serving!Next
    BY <2>2 DEF Rollback, Serving!Next
  <2>3. ASSUME NEW c \in Conversations, Converse(c) PROVE Serving!Next
    BY <2>3 DEF Converse, Serving!Next
  <2>4. QED
    BY <1>2, <2>1, <2>2, <2>3 DEF ServingStep
<1>3. CASE UNCHANGED vars
  BY <1>3 DEF vars, registryVars, servingVars, Serving!vars, Signed, Ids, Registry!Ids
<1>4. QED
  BY <1>1, <1>2, <1>3 DEF Next

LEMMA BoundHolds == Spec => []Bounded
<1>1. Init => Bounded
  BY BoundsAssumption DEF Init, Registry!Init, Bounded
<1>2. RegistryP!IInv /\ Bounded /\ [Next]_vars => Bounded'
  BY StepBounded
<1>3. QED
  BY <1>1, <1>2, RegistryHolds, PTL DEF Spec

\* What DeploymentControl assumes of the registry is what the registry does:
\* the pipeline implements it, with its policies for the signed ones.
THEOREM PipelineServes == Spec => ServingImplemented
<1>1. RegistryP!IInv /\ Bounded /\ [Next]_vars => [Serving!Next]_(Serving!vars)
  BY StepIsServingStep
<1>2. QED
  BY <1>1, InitIsServingInit, RegistryHolds, BoundHolds, PTL
     DEF Spec, ServingImplemented, Serving!Spec

LEMMA ServingHolds == Spec => []ServingP!IInv
<1>1. /\ Default \notin 1..MaxPolicies
      /\ Absent \notin Nat
      /\ Traffic \subseteq Nat
      /\ MaxDeployments \in Nat
  BY DefaultAssumption, AbsentAssumption, TrafficAssumption, BoundsAssumption
<1>2. Init => ServingP!IInv
  BY <1>1, InitIsServingInit, SameServing, ServingP!InitIInv
<1>3. RegistryP!IInv /\ Bounded /\ ServingP!IInv /\ [Next]_vars => ServingP!IInv'
  BY <1>1, StepIsServingStep, SameServing, ServingP!StepIInv
<1>4. QED
  BY <1>2, <1>3, RegistryHolds, BoundHolds, PTL DEF Spec

-----------------------------------------------------------------------------
\* A policy that answers belongs to an agent version, or was approved after
\* its gates passed, for any number of generations, deployments and rollbacks.
THEOREM AnswersWereEarned == Spec => []AnswersAreEarned
<1>1. RegistryP!IInv /\ ServingP!IInv => AnswersAreEarned
  <2>1. SUFFICES ASSUME RegistryP!IInv, ServingP!IInv,
                        NEW c \in Conversations, NEW p \in used[c] \ {Default}
                 PROVE  \/ \E a \in Agents : \E i \in DOMAIN versions[a] :
                              versions[a][i].policy = p
                        \/ \E d \in decisions :
                              d.policy = p /\ d.passed /\ d.decision = "approve"
    BY DEF AnswersAreEarned
  <2>2. ServingP!BoundForLife(c)
    BY <2>1 DEF ServingP!IInv
  <2>3. served[c] \in ServingP!Ids \cup {0} /\ p = ServingP!PolicyOf(served[c])
    BY <2>1, <2>2 DEF ServingP!BoundForLife
  <2>4. served[c] \in ServingP!Ids /\ p = deployments[served[c]].policy
    BY <2>1, <2>3 DEF ServingP!PolicyOf
  <2>5. p \in Signed
    BY <2>1, <2>4 DEF ServingP!IInv, ServingP!DeployedIsSigned
  <2>6. p \in RegistryP!Ids /\ policies[p].status = "signed"
    BY <2>5 DEF Signed, Ids, Registry!Ids, RegistryP!Ids
  <2>7. CASE policies[p].parent = 0
    BY <2>1, <2>6, <2>7 DEF RegistryP!IInv, RegistryP!NoOrphanPolicy
  <2>8. CASE policies[p].parent # 0
    BY <2>1, <2>6, <2>8 DEF RegistryP!IInv, RegistryP!SignedThroughGate
  <2>9. QED
    BY <2>7, <2>8
<1>2. QED
  BY <1>1, RegistryHolds, ServingHolds, PTL
\* Only the owner may both propose and approve.
LEMMA OnlyOwnerMayBoth ==
  require("candidate:write") \cap require("promotion:approve") \subseteq {"tenant_owner"}
<1>1. Roles = {"tenant_owner", "project_admin", "agent_builder", "rsi_engineer", "deployer",
               "service_account"}
  BY DEF Roles, ROLE_PERMISSIONS
<1>2. /\ ROLE_PERMISSIONS["project_admin"] = {"agent:write", "deployment:write"}
      /\ ROLE_PERMISSIONS["agent_builder"] = {"agent:write"}
      /\ ROLE_PERMISSIONS["rsi_engineer"] = {"experiment:write", "candidate:write"}
      /\ ROLE_PERMISSIONS["deployer"] = {"deployment:write", "promotion:approve"}
      /\ ROLE_PERMISSIONS["service_account"] = {}
  BY DEF ROLE_PERMISSIONS
<1>3. QED
  BY <1>1, <1>2 DEF require

\* Whoever is noted to have done something had the permission for it.
DutiesAreAllowed ==
  duties \in [1..MaxPolicies ->
               SUBSET (({"candidate:write"} \X require("candidate:write"))
                       \cup ({"promotion:approve"} \X require("promotion:approve")))]

LEMMA DutiesHold == Spec => []DutiesAreAllowed
<1>1. Init => DutiesAreAllowed
  BY DEF Init, DutiesAreAllowed
<1>2. ASSUME DutiesAreAllowed, [Next]_vars
      PROVE  DutiesAreAllowed'
  <2>1. ASSUME NEW permission \in {"candidate:write", "promotion:approve"},
               NEW role \in require(permission), NEW P, Note(role, permission, P)
        PROVE  DutiesAreAllowed'
    BY <1>2, <2>1 DEF Note, DutiesAreAllowed
  <2>2. CASE UNCHANGED duties
    BY <1>2, <2>2 DEF DutiesAreAllowed
  <2>3. QED
    BY <1>2, <2>1, <2>2 DEF Next, RegistryStep, ServingStep, Propose, Promote, vars
<1>3. QED
  BY <1>1, <1>2, PTL DEF Spec

\* No role but the owner's has both proposed and approved what answers users.
THEOREM ReleaseTookTwo == Spec => []ReleaseTakesTwo
<1>1. RegistryP!IInv /\ Bounded /\ ServingP!IInv /\ DutiesAreAllowed => ReleaseTakesTwo
  <2>1. SUFFICES ASSUME RegistryP!IInv, Bounded, ServingP!IInv, DutiesAreAllowed,
                        NEW c \in Conversations, NEW p \in used[c] \ {Default},
                        NEW role \in Roles \ {"tenant_owner"},
                        {<<"candidate:write", role>>, <<"promotion:approve", role>>}
                          \subseteq duties[p]
                 PROVE  FALSE
    BY DEF ReleaseTakesTwo
  <2>2. p \in 1..MaxPolicies
    BY <2>1 DEF ServingP!IInv, ServingP!TypeOK
  <2>3. role \in require("candidate:write") /\ role \in require("promotion:approve")
    BY <2>1, <2>2 DEF DutiesAreAllowed
  <2>4. QED
    BY <2>1, <2>3, OnlyOwnerMayBoth
<1>2. QED
  BY <1>1, RegistryHolds, BoundHolds, ServingHolds, DutiesHold, PTL

\* Every variable of the pipeline keeps its type.
THEOREM TypeCorrectness == Spec => []TypeOK
<1>1. RegistryP!TypeOK => Registry!TypeOK
  BY SameFields DEF RegistryP!TypeOK, Registry!TypeOK, RegistryP!Policy, Registry!Policy,
     RegistryP!Version, Registry!Version, RegistryP!Candidate, Registry!Candidate,
     RegistryP!Decision, Registry!Decision
<1>2. ServingP!TypeOK => Serving!TypeOK
  BY DEF ServingP!TypeOK, Serving!TypeOK, ServingP!Deployment, Serving!Deployment,
     ServingP!Stages, Serving!Stages, ServingP!Read, Serving!Read, ServingP!Unread,
     Serving!Unread
<1>3. DutiesAreAllowed =>
        duties \in [1..MaxPolicies ->
                      SUBSET ({"candidate:write", "promotion:approve"} \X Roles)]
  BY DEF DutiesAreAllowed, require
<1>4. RegistryP!IInv /\ ServingP!IInv /\ DutiesAreAllowed => TypeOK
  BY <1>1, <1>2, <1>3 DEF RegistryP!IInv, ServingP!IInv, TypeOK
<1>5. QED
  BY <1>4, RegistryHolds, ServingHolds, DutiesHold, PTL
=============================================================================
