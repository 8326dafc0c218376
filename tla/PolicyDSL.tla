------------------------------ MODULE PolicyDSL ------------------------------
(***************************************************************************)
(* packages/policy_dsl/core.py and the candidate generator of              *)
(* services/rsi_orchestrator/core.py as operators on policy documents.     *)
(*                                                                         *)
(* A document gives every field a dictionary, or Missing.  A dictionary    *)
(* gives each of three keys a number, or Missing: the two settings that    *)
(* the generator computes with, and "other" for all it only sets.          *)
(***************************************************************************)
EXTENDS Integers, Sequences

CONSTANT Missing   \* an absent field, or an absent key

PROTECTED_FIELDS   == {"safety_policy_ref", "evaluator_suite_ref",
                       "tenant_permissions", "knowledge_snapshot_ref"}
ALLOWED_COMPONENTS == {"phase_policy", "action_policy", "retrieval_policy",
                       "tool_policy", "response_policy", "memory_policy",
                       "termination_policy"}
Descriptive == {"version", "description", "metadata"}
Required    == {"id", "version", "safety_policy_ref", "evaluator_suite_ref"}
Fields      == PROTECTED_FIELDS \cup ALLOWED_COMPONENTS \cup Descriptive \cup {"id"}

Keys      == {"context_k", "max_turns", "other"}
Dicts     == [Keys -> Nat \cup {Missing}]
Documents == [Fields -> Dicts \cup {Missing}]

EmptyDict == [k \in Keys |-> Missing]

ASSUME MissingAssumption == Missing \notin Nat /\ Missing \notin Dicts

-----------------------------------------------------------------------------
\* PolicyDocument: the fields without a default must be there.
WellFormed(doc) == \A f \in Required : doc[f] # Missing

semantic_diff(base, candidate) == {f \in Fields : base[f] # candidate[f]}

validate_mutation(base, candidate) ==
  {<<"protected field changed", f>> :
      f \in {g \in PROTECTED_FIELDS : base[g] # candidate[g]}}
  \cup {<<"field is not mutable", f>> :
          f \in semantic_diff(base, candidate) \ (ALLOWED_COMPONENTS \cup Descriptive)}
  \cup {<<"schema validation failed", f>> :
          f \in {g \in Required : candidate[g] = Missing}}

Updated(dict, patch) ==
  [k \in Keys |-> IF patch[k] = Missing THEN dict[k] ELSE patch[k]]

OrEmpty(value) == IF value = Missing THEN EmptyDict ELSE value

\* A mutant of apply_mutation: the result goes through the schema, which fills
\* in the fields that were absent.
apply_mutation_normalised(base, component, patch) ==
  [f \in Fields |-> IF f = component THEN Updated(OrEmpty(base[f]), patch)
                    ELSE OrEmpty(base[f])]

\* apply_mutation raises unless component is allowed: callers guarantee it.
apply_mutation(base, component, patch) ==
  [base EXCEPT ![component] = Updated(OrEmpty(@), patch)]

-----------------------------------------------------------------------------
\* propose_candidates.  Scores are hundredths; an absent score counts as 100.

Get(doc, field, key, default) ==
  IF OrEmpty(doc[field])[key] = Missing THEN default ELSE doc[field][key]

AtMost(bound, n) == IF n > bound THEN bound ELSE n

Patch(key, n) == [EmptyDict EXCEPT ![key] = n, !["other"] = 1]

If(condition, suggestion) == IF condition THEN <<suggestion>> ELSE <<>>

\* A mutant of MaxTurns: the limit is raised to 40 instead of cut at 40.
MaxTurnsAtLeast(base) ==
  IF Get(base, "termination_policy", "max_turns", 30) < 40 THEN 40
  ELSE Get(base, "termination_policy", "max_turns", 30)

\* The settings are whole numbers from 0, of which int() makes nothing else.
MaxTurns(base) == AtMost(40, Get(base, "termination_policy", "max_turns", 30))

ContextK(base) == AtMost(12, Get(base, "retrieval_policy", "context_k", 6) + 2)

Suggestions(base, evidence) ==
  If(evidence.grounding < 95,
     [component |-> "retrieval_policy", patch |-> Patch("context_k", ContextK(base))])
  \o If(evidence.conversation_quality < 85,
        [component |-> "response_policy", patch |-> Patch("other", 1)])
  \o If(evidence.state_progress < 85,
        [component |-> "action_policy", patch |-> Patch("other", 1)])
  \o <<[component |-> "termination_policy",
        patch |-> Patch("max_turns", MaxTurns(base))]>>

propose_candidates(base, evidence) ==
  LET s == Suggestions(base, evidence)
  IN  [i \in 1..Len(s) |-> apply_mutation(base, s[i].component, s[i].patch)]

Evidence == [grounding : 0..100, conversation_quality : 0..100,
             state_progress : 0..100]
=============================================================================
