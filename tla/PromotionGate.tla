----------------------------- MODULE PromotionGate -----------------------------
(***************************************************************************)
(* The arithmetic of the improvement loop: how a conversation is scored,   *)
(* how scores are weighted and what the gate of promote lets through.      *)
(* A score is an integer, Scale standing for 1.0; fractions are compared   *)
(* by cross multiplication.  The loop is run by a client that submits as   *)
(* its baseline the scores of what is in production.                       *)
(***************************************************************************)
EXTENDS Integers, FiniteSets, FiniteSetsExt

CONSTANTS Scale,
          Evaluations,  \* [answers, repeated, ungrounded]: what is counted in a conversation
          Partial,      \* score sheets that no evaluation made
          Minima,       \* for hard_constraints.grounding_minimum
          Coverages     \* in hundredths

Evaluation == [answers : Nat, repeated : Nat, ungrounded : Nat]

\* The first answer repeats nothing; the scores of an evaluation are whole.
ASSUME GateAssumption ==
  /\ Scale \in Nat \ {0} /\ Scale % 10 = 0
  /\ Evaluations \subseteq Evaluation
  /\ \A e \in Evaluations : /\ e.repeated <= e.answers /\ e.ungrounded <= e.answers
                            /\ e.answers > 0 => e.repeated < e.answers /\ Scale % (4 * e.answers) = 0

VARIABLES first,       \* the scores of what was in production at the beginning
          production,  \* of what is in production
          row          \* the last request, if it was approved
vars == <<first, production, row>>

DEFAULT_WEIGHTS ==
  [task_outcome |-> 30, conversation_quality |-> 18, grounding |-> 15, state_progress |-> 12,
   tool_correctness |-> 8, user_experience |-> 7, cost_efficiency |-> 5, latency_efficiency |-> 5]

Criteria == DOMAIN DEFAULT_WEIGHTS

\* The request takes any numbers, and criteria without a weight count nowhere.
IsSheet(s) == DOMAIN s \subseteq Criteria /\ s \in [DOMAIN s -> Int]

ASSUME SheetAssumption == \A s \in Partial : IsSheet(s)

-----------------------------------------------------------------------------
\* required_grounding, and the gate's default minimum: 0.9.
RequiredGrounding == 9 * (Scale \div 10)

\* A mutant of GroundingOf: where nothing was said nothing was ungrounded.
SilenceIsGrounded(e) ==
  IF e.answers = 0 THEN Scale ELSE (Scale * (4 * e.answers - e.ungrounded)) \div (4 * e.answers)

\* An answer is grounded if it is short or cites something; another one counts
\* three quarters.
GroundingOf(e) ==
  IF e.answers = 0 THEN 0 ELSE (Scale * (4 * e.answers - e.ungrounded)) \div (4 * e.answers)

\* A mutant of QualityOf: repeated answers are added.
RepeatsAdd(e) == IF e.answers = 0 THEN Scale ELSE (Scale * (e.answers + e.repeated)) \div e.answers

QualityOf(e) == IF e.answers = 0 THEN Scale ELSE (Scale * (e.answers - e.repeated)) \div e.answers

\* The scores of evaluate_deterministic.
ScoresOf(e) ==
  [k \in Criteria |->
     CASE k = "grounding" -> GroundingOf(e)
       [] k \in {"tool_correctness", "cost_efficiency", "latency_efficiency"} -> Scale
       [] OTHER -> QualityOf(e)]

\* Its hard constraints.
HardOf(e) == [passed |-> GroundingOf(e) >= RequiredGrounding, grounding_minimum |-> RequiredGrounding]

Sheets == {ScoresOf(e) : e \in Evaluations} \cup Partial
Hard == [passed : BOOLEAN, grounding_minimum : Minima]

\* weighted_score: the mean over the criteria that were submitted, 0 if there
\* are none.
weighted_score(s) ==
  LET weight(k) == DEFAULT_WEIGHTS[k]
      part(k) == s[k] * DEFAULT_WEIGHTS[k] IN
  IF DOMAIN s = {} THEN [num |-> 0, den |-> 1]
  ELSE [num |-> MapThenSumSet(part, DOMAIN s), den |-> MapThenSumSet(weight, DOMAIN s)]

Better(c, b) == c.num * b.den > b.num * c.den

pareto_dominates(a, b) ==
  LET keys == DOMAIN a \cap DOMAIN b IN
  (\A k \in keys : a[k] >= b[k]) /\ (\E k \in keys : a[k] > b[k])

\* c - b over the common denominator, and |b|.
Change(b, c) == c.num * b.den - b.num * c.den

Size(b) == IF b.num < 0 THEN -b.num ELSE b.num

\* A mutant of GainSuffices: any gain is enough, and none.
AnyGain(b, c) == Change(b, c) >= 0

\* A mutant of GainSuffices: b is divided by, not its size.
SignedGain(b, c) ==
  \/ b.num = 0 /\ c.num > 0
  \/ b.num > 0 /\ 20 * Change(b, c) >= b.num * c.den
  \/ b.num < 0 /\ 20 * Change(b, c) <= b.num * c.den

\* gain is (c - b) / max(|b|, 1e-9) and must be 0.05.
GainSuffices(b, c) ==
  IF b.num = 0 THEN c.num > 0 ELSE 20 * Change(b, c) >= Size(b) * c.den

\* The failures of promotion_gate; a sheet without grounding counts as 1.0.
promotion_gate(baseline, candidate, hard, coverage) ==
     {f \in {"hard_constraints_failed"} : ~hard.passed}
\cup {f \in {"replay_coverage_too_low"} : coverage < 70}
\cup {f \in {"insufficient_relative_gain"} :
        ~GainSuffices(weighted_score(baseline), weighted_score(candidate))}
\cup {f \in {"grounding_regression"} :
        "grounding" \in DOMAIN candidate /\ candidate.grounding < hard.grounding_minimum}

Decide(approve, failures) ==
  IF failures # {} THEN "reject" ELSE IF approve THEN "approve" ELSE "hold"

-----------------------------------------------------------------------------
None == [decision |-> "none"]

Init == first \in Sheets /\ production = first /\ row = None

\* promote, by a client that measures against what is in production.
promote ==
  \E candidate \in Sheets, hard \in Hard, coverage \in Coverages, approve \in BOOLEAN :
    LET decision == Decide(approve, promotion_gate(production, candidate, hard, coverage)) IN
      /\ row' = IF decision = "approve"
                  THEN [decision |-> decision, baseline |-> production, candidate |-> candidate,
                        hard |-> hard]
                  ELSE None
      /\ production' = IF decision = "approve" THEN candidate ELSE production
      /\ UNCHANGED first

Next == promote

Spec == Init /\ [][Next]_vars

-----------------------------------------------------------------------------
Approved == row.decision = "approve"

\* Type invariant; what the evaluator scores is between 0 and 1.
TypeOK ==
  /\ first \in Sheets /\ production \in Sheets
  /\ production \in Partial \/ \A k \in DOMAIN production : production[k] \in 0 .. Scale
  /\ row = None \/
     row \in [decision : {"approve"}, baseline : Sheets, candidate : Sheets, hard : Hard]

\* The gate compares one number, but never against what the whole sheets say:
\* a candidate that is nowhere better than its baseline and somewhere worse
\* does not pass (core.py:25-39).
DominatedIsRejected ==
  Approved /\ DOMAIN row.candidate = DOMAIN row.baseline
    => ~pareto_dominates(row.baseline, row.candidate)

\* Promotions do not run in a circle: whatever number of them, and whatever
\* criteria each sheet leaves out, what is in production has a higher composite
\* than what was there at the beginning (evaluators.py:7-10, core.py:36-37).
NoReturn ==
  production # first => Better(weighted_score(production), weighted_score(first))

\* With sheets and constraints as the evaluator makes them, a promotion is
\* earned: the candidate did answer, it is grounded as required, and it repeats
\* itself less or is better grounded (evaluators.py:12-31, core.py:31-39).
PromotionIsEarned ==
  Approved =>
    \A e, d \in Evaluations :
      ScoresOf(e) = row.candidate /\ ScoresOf(d) = row.baseline /\ HardOf(e) = row.hard =>
        /\ e.answers > 0 /\ 10 * e.ungrounded <= 4 * e.answers
        /\ d.answers > 0 => \/ e.repeated * d.answers < d.repeated * e.answers
                            \/ e.ungrounded * d.answers < d.ungrounded * e.answers
=============================================================================
