------------------------- MODULE PolicyRegistryProofs -------------------------
(***************************************************************************)
(* PolicyRegistry for any agents, builders, documents and evidence, and    *)
(* the lemmas about the policy operators that it rests on.                 *)
(***************************************************************************)
EXTENDS PolicyRegistry, SequenceTheorems, TLAPS

USE MissingAssumption

-----------------------------------------------------------------------------
\* The operators of PolicyDSL.

\* What the generator may suggest for a document.
Suggested(base) ==
  {[component |-> "retrieval_policy", patch |-> Patch("context_k", ContextK(base))],
   [component |-> "response_policy", patch |-> Patch("other", 1)],
   [component |-> "action_policy", patch |-> Patch("other", 1)],
   [component |-> "termination_policy", patch |-> Patch("max_turns", MaxTurns(base))]}

\* A missing dictionary counts as an empty one.
LEMMA OrEmptyIsDict ==
  ASSUME NEW value \in Dicts \cup {Missing}
  PROVE  OrEmpty(value) \in Dicts /\ OrEmpty(value) # Missing
  BY DEF OrEmpty, Dicts, EmptyDict

LEMMA GetIsNat ==
  ASSUME NEW doc \in Documents, NEW field \in Fields, NEW key \in Keys,
         NEW default \in Nat
  PROVE  Get(doc, field, key, default) \in Nat
<1>1. doc[field] \in Dicts \cup {Missing}
  BY DEF Documents
<1>2. OrEmpty(doc[field]) \in Dicts
  BY <1>1, OrEmptyIsDict
<1>3. CASE OrEmpty(doc[field])[key] = Missing
  BY <1>3 DEF Get
<1>4. CASE OrEmpty(doc[field])[key] # Missing
  <2>1. doc[field] # Missing
    BY <1>4 DEF OrEmpty, EmptyDict
  <2>2. doc[field][key] \in Nat
    BY <1>2, <1>4, <2>1 DEF OrEmpty, Dicts
  <2>3. QED
    BY <1>4, <2>2 DEF Get
<1>5. QED
  BY <1>3, <1>4

LEMMA PatchIsDict ==
  ASSUME NEW key \in Keys, NEW n \in Nat
  PROVE  Patch(key, n) \in Dicts
  BY DEF Patch, EmptyDict, Dicts, Keys

LEMMA SuggestedIsTyped ==
  ASSUME NEW base \in Documents
  PROVE  Suggested(base) \subseteq [component : ALLOWED_COMPONENTS, patch : Dicts]
<1>1. Get(base, "retrieval_policy", "context_k", 6) \in Nat
  BY GetIsNat DEF Fields, ALLOWED_COMPONENTS, Keys
<1>2. Get(base, "termination_policy", "max_turns", 30) \in Nat
  BY GetIsNat DEF Fields, ALLOWED_COMPONENTS, Keys
<1>3. ContextK(base) \in Nat
  BY <1>1 DEF ContextK, AtMost
<1>4. MaxTurns(base) \in Nat
  BY <1>2 DEF MaxTurns, AtMost
<1>5. /\ Patch("context_k", ContextK(base)) \in Dicts
      /\ Patch("other", 1) \in Dicts
      /\ Patch("max_turns", MaxTurns(base)) \in Dicts
  BY <1>3, <1>4, PatchIsDict DEF Keys
<1>6. QED
  BY <1>5 DEF Suggested, ALLOWED_COMPONENTS

LEMMA SuggestionsAreSuggested ==
  ASSUME NEW base, NEW evidence
  PROVE  Suggestions(base, evidence) \in Seq(Suggested(base))
<1>1. ASSUME NEW condition, NEW s \in Suggested(base)
      PROVE  If(condition, s) \in Seq(Suggested(base))
  BY DEF If
<1>2. /\ [component |-> "retrieval_policy",
          patch |-> Patch("context_k", ContextK(base))] \in Suggested(base)
      /\ [component |-> "response_policy", patch |-> Patch("other", 1)] \in Suggested(base)
      /\ [component |-> "action_policy", patch |-> Patch("other", 1)] \in Suggested(base)
      /\ [component |-> "termination_policy",
          patch |-> Patch("max_turns", MaxTurns(base))] \in Suggested(base)
  BY DEF Suggested
<1> HIDE DEF Suggested, If
<1>3. QED
  BY <1>1, <1>2 DEF Suggestions

\* A mutation changes its component and nothing else.
LEMMA MutationIsLocal ==
  ASSUME NEW base \in Documents, NEW component \in ALLOWED_COMPONENTS,
         NEW patch \in Dicts
  PROVE  LET out == apply_mutation(base, component, patch) IN
         /\ out \in Documents
         /\ out[component] = Updated(OrEmpty(base[component]), patch)
         /\ out[component] \in Dicts
         /\ \A f \in Fields \ {component} : out[f] = base[f]
<1>1. component \in Fields /\ base[component] \in Dicts \cup {Missing}
  BY DEF Fields, Documents
<1>2. OrEmpty(base[component]) \in Dicts
  BY <1>1, OrEmptyIsDict
<1>3. Updated(OrEmpty(base[component]), patch) \in Dicts
  BY <1>2 DEF Updated, Dicts
<1>4. QED
  BY <1>1, <1>3 DEF apply_mutation, Documents

\* Every proposal is one suggestion applied to the baseline.
LEMMA ProposalsAreMutations ==
  ASSUME NEW base \in Documents, NEW evidence
  PROVE  LET proposed == propose_candidates(base, evidence) IN
         /\ proposed \in Seq(Documents)
         /\ \A i \in 1..Len(proposed) : \E s \in Suggested(base) :
              proposed[i] = apply_mutation(base, s.component, s.patch)
<1> DEFINE s == Suggestions(base, evidence)
           proposed == [i \in 1..Len(s) |-> apply_mutation(base, s[i].component, s[i].patch)]
<1>1. s \in Seq(Suggested(base))
  BY SuggestionsAreSuggested
<1>2. \A i \in 1..Len(s) : s[i] \in Suggested(base)
  BY <1>1
<1>3. \A i \in 1..Len(s) : apply_mutation(base, s[i].component, s[i].patch) \in Documents
  BY <1>2, SuggestedIsTyped, MutationIsLocal
<1>4. Len(s) \in Nat
  BY <1>1
<1>5. proposed \in Seq(Documents) /\ Len(proposed) = Len(s)
  BY <1>3, <1>4
<1>6. QED
  BY <1>2, <1>5 DEF propose_candidates

\* Every proposal passes the validation of its own mutation.
LEMMA MutationIsValid ==
  ASSUME NEW base \in Documents, WellFormed(base), NEW s \in Suggested(base)
  PROVE  LET out == apply_mutation(base, s.component, s.patch) IN
         /\ validate_mutation(base, out) = {}
         /\ WellFormed(out)
         /\ \A f \in PROTECTED_FIELDS : out[f] = base[f]
<1> DEFINE out == apply_mutation(base, s.component, s.patch)
<1>1. s.component \in ALLOWED_COMPONENTS /\ s.patch \in Dicts
  BY SuggestedIsTyped
<1>2. \A f \in Fields \ {s.component} : out[f] = base[f]
  BY <1>1, MutationIsLocal
<1> HIDE DEF out
<1>3. \A f \in PROTECTED_FIELDS : out[f] = base[f]
  BY <1>1, <1>2 DEF PROTECTED_FIELDS, ALLOWED_COMPONENTS, Fields
<1>4. semantic_diff(base, out) \subseteq ALLOWED_COMPONENTS
  BY <1>1, <1>2 DEF semantic_diff
<1>5. WellFormed(out)
  BY <1>1, <1>2 DEF WellFormed, Required, ALLOWED_COMPONENTS, Fields, PROTECTED_FIELDS,
                    Descriptive
<1>6. validate_mutation(base, out) = {}
  BY <1>3, <1>4, <1>5 DEF validate_mutation, WellFormed
<1>7. QED
  BY <1>3, <1>5, <1>6 DEF out

Turns(d)    == Get(d, "termination_policy", "max_turns", 30)
Passages(d) == Get(d, "retrieval_policy", "context_k", 6)

\* No proposal allows more turns, or more than twelve passages where its
\* baseline allowed fewer.
LEMMA MutationIsBounded ==
  ASSUME NEW base \in Documents, NEW s \in Suggested(base)
  PROVE  LET out == apply_mutation(base, s.component, s.patch) IN
         /\ Turns(out) <= Turns(base)
         /\ Passages(out) > Passages(base) => Passages(out) <= 12
<1> DEFINE out == apply_mutation(base, s.component, s.patch)
<1>1. s.component \in ALLOWED_COMPONENTS /\ s.patch \in Dicts
  BY SuggestedIsTyped
<1>2. /\ out[s.component] = Updated(OrEmpty(base[s.component]), s.patch)
      /\ out[s.component] \in Dicts
      /\ \A f \in Fields \ {s.component} : out[f] = base[f]
  BY <1>1, MutationIsLocal
<1>3. Turns(base) \in Nat /\ Passages(base) \in Nat
  BY GetIsNat DEF Turns, Passages, Fields, ALLOWED_COMPONENTS, Keys
<1> HIDE DEF out
<1>4. s.component # "termination_policy" => Turns(out) = Turns(base)
  BY <1>1, <1>2 DEF Turns, Get, Fields, ALLOWED_COMPONENTS
<1>5. s.component # "retrieval_policy" => Passages(out) = Passages(base)
  BY <1>1, <1>2 DEF Passages, Get, Fields, ALLOWED_COMPONENTS
<1>6. ASSUME s.component = "termination_policy"
      PROVE  Turns(out) <= Turns(base)
  <2>1. s.patch = Patch("max_turns", MaxTurns(base))
    BY <1>6 DEF Suggested
  <2>2. s.patch["max_turns"] = MaxTurns(base)
    BY <2>1 DEF Patch, EmptyDict, Keys
  <2>3. MaxTurns(base) \in Nat /\ MaxTurns(base) <= Turns(base)
    BY <1>3 DEF MaxTurns, AtMost, Turns
  <2>4. out["termination_policy"]["max_turns"] = MaxTurns(base)
    BY <1>2, <1>6, <2>2, <2>3 DEF Updated, Keys
  <2>5. out["termination_policy"] # Missing
    BY <1>2, <1>6
  <2>6. Turns(out) = MaxTurns(base)
    BY <2>3, <2>4, <2>5 DEF Turns, Get, OrEmpty
  <2>7. QED
    BY <2>3, <2>6
<1>7. ASSUME s.component = "retrieval_policy"
      PROVE  Passages(out) <= 12
  <2>1. s.patch = Patch("context_k", ContextK(base))
    BY <1>7 DEF Suggested
  <2>2. s.patch["context_k"] = ContextK(base)
    BY <2>1 DEF Patch, EmptyDict, Keys
  <2>3. ContextK(base) \in Nat /\ ContextK(base) <= 12
    BY <1>3 DEF ContextK, AtMost, Passages
  <2>4. out["retrieval_policy"]["context_k"] = ContextK(base)
    BY <1>2, <1>7, <2>2, <2>3 DEF Updated, Keys
  <2>5. out["retrieval_policy"] # Missing
    BY <1>2, <1>7
  <2>6. Passages(out) = ContextK(base)
    BY <2>3, <2>4, <2>5 DEF Passages, Get, OrEmpty
  <2>7. QED
    BY <2>3, <2>6
<1>8. QED
  BY <1>3, <1>4, <1>5, <1>6, <1>7 DEF out

-----------------------------------------------------------------------------
\* The inductive invariant.

\* Every document satisfies the schema: registration fills in what it needs.
DocumentsAreWellFormed == \A p \in Ids : WellFormed(policies[p].document)

\* A candidate comes after the policy it was derived from.
ParentsAreEarlier == \A p \in Ids : policies[p].parent < p

\* Experiments and candidates name policies that are there.
LinksAreKnown == /\ experiments \subseteq Ids
                 /\ \A c \in candidates : c.policy \in Ids

\* The number a call computed is at most the next one, and it is the next one
\* when its row was accepted.
NumberIsNext(r) ==
  /\ pc[r] = "insert" => number[r] \in 1..(Len(versions[agent[r]]) + 1)
  /\ pc[r] = "commit" => number[r] = Len(versions[agent[r]]) + 1

\* At most one open call of each agent has its row accepted.
OneWriter == \A r, s \in Requests :
  pc[r] = "commit" /\ pc[s] = "commit" /\ agent[r] = agent[s] => r = s

BodyIsWellFormed(r) == pc[r] \in {"insert", "commit"} => WellFormed(body[r])

\* Every agent version has a policy of its own, which no experiment derived.
VersionsArePrivate ==
  \A a \in Agents : \A i \in DOMAIN versions[a] :
    /\ versions[a][i].policy \in Ids
    /\ \A b \in Agents : \A j \in DOMAIN versions[b] :
         versions[b][j].policy = versions[a][i].policy => a = b /\ i = j

IInv ==
  /\ TypeOK
  /\ DocumentsAreWellFormed
  /\ ParentsAreEarlier
  /\ LinksAreKnown
  /\ VersionsGapless
  /\ \A r \in Requests : NumberIsNext(r) /\ BodyIsWellFormed(r)
  /\ OneWriter
  /\ VersionsArePrivate
  /\ NoOrphanPolicy
  /\ ProtectedFieldsKept
  /\ CandidatesAreValid
  /\ TuningIsBounded
  /\ SignedThroughGate

LEMMA InitIInv == Init => IInv
<1>1. SUFFICES ASSUME Init PROVE IInv
  OBVIOUS
<1>2. [f \in Fields |-> Missing] \in Documents
  BY DEF Documents
<1>3. TypeOK
  BY <1>1, <1>2 DEF Init, TypeOK
<1>4. Ids = {} /\ experiments = {} /\ candidates = {} /\ \A a \in Agents : versions[a] = <<>>
  BY <1>1 DEF Init, Ids
<1>5. \A r \in Requests : pc[r] = "idle"
  BY <1>1 DEF Init
<1>6. \A r \in Requests : NumberIsNext(r) /\ BodyIsWellFormed(r)
  BY <1>5 DEF NumberIsNext, BodyIsWellFormed
<1>7. OneWriter
  BY <1>5 DEF OneWriter
<1>8. VersionsGapless /\ VersionsArePrivate
  BY <1>4 DEF VersionsGapless, VersionsArePrivate
<1>9. QED
  BY <1>3, <1>4, <1>6, <1>7, <1>8 DEF IInv, DocumentsAreWellFormed, ParentsAreEarlier,
     LinksAreKnown, NoOrphanPolicy, ProtectedFieldsKept, CandidatesAreValid,
     TuningIsBounded, SignedThroughGate

-----------------------------------------------------------------------------
\* The document a builder registers.
LEMMA DefaultedIsWellFormed ==
  ASSUME NEW doc \in Documents
  PROVE  Defaulted(doc) \in Documents /\ WellFormed(Defaulted(doc))
<1>1. \A f \in Fields : doc[f] \in Dicts \cup {Missing}
  BY DEF Documents
<1>2. \A f \in Fields : OrEmpty(doc[f]) \in Dicts /\ OrEmpty(doc[f]) # Missing
  BY <1>1, OrEmptyIsDict
<1>3. Defaulted(doc) \in Documents
  BY <1>1, <1>2 DEF Defaulted, Documents
<1>4. WellFormed(Defaulted(doc))
  BY <1>2 DEF Defaulted, WellFormed, Required, Fields, PROTECTED_FIELDS, Descriptive
<1>5. QED
  BY <1>3, <1>4

\* With gapless versions the highest number is how many there are.
LEMMA TopNumberIsLen ==
  ASSUME TypeOK, VersionsGapless, NEW a \in Agents
  PROVE  TopNumber(a) = Len(versions[a])
<1> DEFINE N == {versions[a][i].number : i \in DOMAIN versions[a]} \cup {0}
           n == Len(versions[a])
           P(k) == \A i \in DOMAIN versions[a] : versions[a][i].number <= k
<1>1. versions[a] \in Seq(Version)
  BY DEF TypeOK
<1>2. n \in Nat /\ DOMAIN versions[a] = 1..n
  BY <1>1
<1>3. \A i \in 1..n : versions[a][i].number = i
  BY <1>2 DEF VersionsGapless
<1> HIDE DEF n
<1>4. n \in N /\ P(n)
  BY <1>2, <1>3
<1>5. \A k \in N : P(k) => k = n
  BY <1>2, <1>3
<1>6. TopNumber(a) \in N /\ P(TopNumber(a))
  <2>1. TopNumber(a) = CHOOSE k \in N : P(k)
    BY DEF TopNumber
  <2>2. QED
    BY <1>4, <2>1
<1>7. QED
  BY <1>5, <1>6 DEF n

\* Nothing of the registry but the tables a call appends to is changed by the
\* steps in which policies only grow by rows with the parent they were given.
LEMMA CommitAppends ==
  ASSUME IInv, NEW r \in Requests, CommitVersion(r)
  PROVE  LET row == [document |-> body[r], parent |-> 0, status |-> "signed"]
             ver == [number |-> number[r], policy |-> Len(policies) + 1] IN
         /\ row \in Policy /\ ver \in Version
         /\ WellFormed(body[r])
         /\ policies' = Append(policies, row)
         /\ versions' = [versions EXCEPT ![agent[r]] = Append(@, ver)]
         /\ number[r] = Len(versions[agent[r]]) + 1
         /\ agent[r] \in Agents
         /\ UNCHANGED <<experiments, candidates, decisions>>
<1>1. pc[r] = "commit" /\ body[r] \in Documents /\ number[r] \in Nat /\ agent[r] \in Agents
  BY DEF IInv, TypeOK, CommitVersion
<1>2. Len(policies) + 1 \in Nat
  BY DEF IInv, TypeOK
<1>3. WellFormed(body[r]) /\ number[r] = Len(versions[agent[r]]) + 1
  BY <1>1 DEF IInv, BodyIsWellFormed, NumberIsNext
<1>4. QED
  BY <1>1, <1>2, <1>3 DEF CommitVersion, Policy, Version
\* Appending rows to a table keeps the old rows where they were and puts the
\* new ones behind them, in order.
LEMMA ConcatenationKeepsBoth ==
  ASSUME NEW S, NEW s \in Seq(S), NEW t \in Seq(S),
         NEW n \in Nat, NEW m \in Nat, n = Len(s), m = Len(t)
  PROVE  /\ s \o t \in Seq(S)
         /\ Len(s \o t) = n + m
         /\ \A q \in 1..n : (s \o t)[q] = s[q]
         /\ \A i \in 1..m : (s \o t)[n + i] = t[i]
<1>1. \A k \in 1..n + m : (s \o t)[k] = IF k <= n THEN s[k] ELSE t[k - n]
  BY ConcatProperties
<1>2. \A q \in 1..n : q \in 1..n + m /\ q <= n
  OBVIOUS
<1>3. \A i \in 1..m : n + i \in 1..n + m /\ ~(n + i <= n) /\ (n + i) - n = i
  OBVIOUS
<1>4. s \o t \in Seq(S) /\ Len(s \o t) = n + m
  BY ConcatProperties
<1>5. QED
  BY <1>1, <1>2, <1>3, <1>4


LEMMA ProposeAppends ==
  ASSUME IInv, NEW p \in experiments, NEW evidence, Propose(p, evidence)
  PROVE  /\ p \in Ids
         /\ policies' \in Seq(Policy)
         /\ Len(policies) <= Len(policies')
         /\ \A q \in Ids : policies'[q] = policies[q]
         /\ \A q \in Ids' \ Ids :
              LET doc == policies'[q].document
                  base == policies[p].document IN
              /\ policies'[q].parent = p
              /\ policies'[q].status = "candidate"
              /\ validate_mutation(base, doc) = {}
              /\ WellFormed(doc)
              /\ \A f \in PROTECTED_FIELDS : doc[f] = base[f]
              /\ Turns(doc) <= Turns(base)
              /\ Passages(doc) > Passages(base) => Passages(doc) <= 12
         /\ \A c \in candidates' \ candidates :
              c.policy \in Ids' /\ c.validation = "valid" /\ c \in Candidate
         /\ UNCHANGED <<versions, experiments, decisions>>
<1> DEFINE base == policies[p].document
           proposed == propose_candidates(base, evidence)
           rows == [i \in 1..Len(proposed) |->
                      [document |-> proposed[i], parent |-> p, status |-> "candidate"]]
           n == Len(policies)
           m == Len(proposed)
<1>1. p \in Ids /\ policies \in Seq(Policy)
  BY DEF IInv, LinksAreKnown, TypeOK
<1>2. policies[p] \in Policy /\ p \in Nat /\ n \in Nat
  BY <1>1 DEF Ids
<1>3. base \in Documents /\ WellFormed(base)
  BY <1>1, <1>2 DEF Policy, IInv, DocumentsAreWellFormed
<1>4. /\ policies' = policies \o rows
      /\ candidates' = candidates \cup
           {[policy |-> n + i, validation |-> Validation(base, proposed[i])] : i \in 1..m}
      /\ UNCHANGED <<versions, experiments, decisions>>
  BY DEF Propose
<1> HIDE DEF base
<1>5. /\ proposed \in Seq(Documents)
      /\ \A i \in 1..m : \E s \in Suggested(base) :
           proposed[i] = apply_mutation(base, s.component, s.patch)
  BY <1>3, ProposalsAreMutations
<1>6. m \in Nat /\ \A i \in 1..m : proposed[i] \in Documents
  BY <1>5
<1> HIDE DEF proposed
<1>7. \A i \in 1..m :
        /\ validate_mutation(base, proposed[i]) = {}
        /\ WellFormed(proposed[i])
        /\ \A f \in PROTECTED_FIELDS : proposed[i][f] = base[f]
        /\ Turns(proposed[i]) <= Turns(base)
        /\ Passages(proposed[i]) > Passages(base) => Passages(proposed[i]) <= 12
  BY <1>3, <1>5, MutationIsValid, MutationIsBounded
<1>8. rows \in Seq(Policy) /\ Len(rows) = m
  BY <1>2, <1>6 DEF Policy
<1>9. /\ policies' \in Seq(Policy)
      /\ Len(policies') = n + m
      /\ \A q \in 1..n : policies'[q] = policies[q]
      /\ \A i \in 1..m : policies'[n + i] = rows[i]
  <2> HIDE DEF rows, m, n
  <2>1. n = Len(policies) /\ n \in Nat /\ m \in Nat /\ m = Len(rows)
    BY <1>2, <1>6, <1>8 DEF n
  <2>2. QED
    BY <2>1, <1>1, <1>4, <1>8, ConcatenationKeepsBoth
<1>10. \A i \in 1..m : /\ policies'[n + i].document = proposed[i]
                       /\ policies'[n + i].parent = p
                       /\ policies'[n + i].status = "candidate"
  <2>1. \A i \in 1..m : rows[i] = [document |-> proposed[i], parent |-> p,
                                  status |-> "candidate"]
    OBVIOUS
  <2>2. \A i \in 1..m : policies'[n + i] = rows[i]
    BY <1>9
  <2> HIDE DEF rows, n, m
  <2>3. SUFFICES ASSUME NEW i \in 1..m
                 PROVE  /\ policies'[n + i].document = proposed[i]
                        /\ policies'[n + i].parent = p
                        /\ policies'[n + i].status = "candidate"
    OBVIOUS
  <2>4. policies'[n + i] = [document |-> proposed[i], parent |-> p, status |-> "candidate"]
    BY <2>1, <2>2
  <2>5. QED
    BY <2>4
<1>11. \A q \in Ids' \ Ids : \E i \in 1..m : q = n + i
  <2>1. SUFFICES ASSUME NEW q \in Ids' \ Ids
                 PROVE  \E i \in 1..m : q = n + i
    OBVIOUS
  <2>2. q \in Nat /\ n < q /\ q <= n + m
    BY <1>2, <1>6, <1>9 DEF Ids
  <2>3. q - n \in 1..m /\ q = n + (q - n)
    BY <1>2, <1>6, <2>2
  <2>4. QED
    BY <2>3
<1>12. \A i \in 1..m : n + i \in Ids' /\ n + i \in Nat
  BY <1>2, <1>6, <1>9 DEF Ids
<1>13. \A c \in candidates' \ candidates :
         c.policy \in Ids' /\ c.validation = "valid" /\ c \in Candidate
  <2>1. \A i \in 1..m : Validation(base, proposed[i]) = "valid"
    BY <1>7 DEF Validation
  <2>2. SUFFICES ASSUME NEW c \in candidates' \ candidates
                 PROVE  c.policy \in Ids' /\ c.validation = "valid" /\ c \in Candidate
    OBVIOUS
  <2>3. PICK i \in 1..m : c = [policy |-> n + i, validation |-> Validation(base, proposed[i])]
    BY <1>4
  <2>4. c = [policy |-> n + i, validation |-> "valid"]
    BY <2>1, <2>3
  <2>5. QED
    BY <1>12, <2>4 DEF Candidate
<1>14. n <= Len(policies') /\ \A q \in Ids : policies'[q] = policies[q]
  BY <1>2, <1>6, <1>9 DEF Ids
<1> HIDE DEF rows, n, m
<1>15. \A q \in Ids' \ Ids :
              LET doc == policies'[q].document IN
              /\ policies'[q].parent = p
              /\ policies'[q].status = "candidate"
              /\ validate_mutation(base, doc) = {}
              /\ WellFormed(doc)
              /\ \A f \in PROTECTED_FIELDS : doc[f] = base[f]
              /\ Turns(doc) <= Turns(base)
              /\ Passages(doc) > Passages(base) => Passages(doc) <= 12
  BY <1>7, <1>10, <1>11
<1>16. QED
  BY <1>1, <1>4, <1>9, <1>13, <1>14, <1>15 DEF base, n

LEMMA PromoteSigns ==
  ASSUME IInv, NEW c \in candidates, NEW approve \in BOOLEAN, NEW passed \in BOOLEAN,
         Promote(c, approve, passed)
  PROVE  /\ policies' \in Seq(Policy)
         /\ Len(policies') = Len(policies)
         /\ \A q \in Ids :
              /\ policies'[q].document = policies[q].document
              /\ policies'[q].parent = policies[q].parent
              /\ policies[q].status = "signed" => policies'[q].status = "signed"
              /\ policies'[q].status = "signed" /\ policies[q].status # "signed" =>
                   \E d \in decisions' : d.policy = q /\ d.decision = "approve" /\ d.passed
         /\ decisions \subseteq decisions'
         /\ decisions' \subseteq Decision
         /\ UNCHANGED <<versions, experiments, candidates>>
<1> DEFINE outcome == Outcome(approve, passed)
           row == [policy |-> c.policy, passed |-> passed, decision |-> outcome]
<1>1. c.policy \in Ids /\ policies \in Seq(Policy) /\ c \in Candidate /\ decisions \subseteq Decision
  BY DEF IInv, LinksAreKnown, TypeOK
<1>2. outcome \in {"approve", "hold", "reject"} /\ (outcome = "approve" => passed)
  BY DEF Outcome
<1>3. row \in Decision /\ decisions' = decisions \cup {row}
  BY <1>1, <1>2 DEF Promote, Decision, Candidate
<1>4. \A q \in Ids : policies[q] \in Policy
  BY <1>1 DEF Ids
<1>5. CASE outcome = "approve"
  <2>1. policies' = [policies EXCEPT ![c.policy].status = "signed"]
    BY <1>5 DEF Promote
  <2>2. [policies[c.policy] EXCEPT !.status = "signed"] \in Policy
    BY <1>1, <1>4 DEF Policy
  <2>3. /\ policies' \in Seq(Policy) /\ Len(policies') = Len(policies)
        /\ policies'[c.policy] = [policies[c.policy] EXCEPT !.status = "signed"]
        /\ \A q \in Ids \ {c.policy} : policies'[q] = policies[q]
    BY <1>1, <2>1, <2>2 DEF Ids
  <2>4. row \in decisions' /\ row.policy = c.policy /\ row.decision = "approve" /\ row.passed
    BY <1>2, <1>3, <1>5
  <2> HIDE DEF row, outcome
  <2>5. \A q \in Ids :
          /\ policies'[q].document = policies[q].document
          /\ policies'[q].parent = policies[q].parent
          /\ policies[q].status = "signed" => policies'[q].status = "signed"
          /\ policies'[q].status # policies[q].status => q = c.policy
    BY <1>4, <2>3 DEF Policy
  <2>6. decisions \subseteq decisions' /\ decisions' \subseteq Decision
    BY <1>1, <1>3
  <2>7. UNCHANGED <<versions, experiments, candidates>>
    BY DEF Promote
  <2>8. \A q \in Ids : policies'[q].status = "signed" /\ policies[q].status # "signed" =>
          \E d \in decisions' : d.policy = q /\ d.decision = "approve" /\ d.passed
    <3>1. SUFFICES ASSUME NEW q \in Ids, policies'[q].status = "signed",
                          policies[q].status # "signed"
                   PROVE  \E d \in decisions' :
                            d.policy = q /\ d.decision = "approve" /\ d.passed
      OBVIOUS
    <3>2. q = c.policy
      BY <2>5, <3>1
    <3>3. QED
      BY <2>4, <3>2
  <2>9. QED
    BY <2>3, <2>5, <2>6, <2>7, <2>8
<1>6. CASE outcome # "approve"
  <2>1. policies' = policies
    BY <1>6 DEF Promote
  <2>2. QED
    BY <1>1, <1>3, <2>1 DEF Promote
<1>7. QED
  BY <1>5, <1>6

-----------------------------------------------------------------------------
\* What any step does to the policies.

Registered(q) == /\ policies'[q].parent = 0
                 /\ WellFormed(policies'[q].document)

DerivedFrom(q, p) ==
  LET doc == policies'[q].document
      base == policies[p].document IN
  /\ policies'[q].parent = p
  /\ policies'[q].status = "candidate"
  /\ WellFormed(doc)
  /\ \A f \in PROTECTED_FIELDS : doc[f] = base[f]
  /\ Turns(doc) <= Turns(base)
  /\ Passages(doc) > Passages(base) => Passages(doc) <= 12

Grows ==
  /\ policies' \in Seq(Policy)
  /\ Len(policies) <= Len(policies')
  /\ decisions \subseteq decisions'
  /\ \A q \in Ids :
       /\ policies'[q].document = policies[q].document
       /\ policies'[q].parent = policies[q].parent
       /\ policies[q].status = "signed" => policies'[q].status = "signed"
       /\ policies'[q].status = "signed" /\ policies[q].status # "signed" =>
            \E d \in decisions' : d.policy = q /\ d.decision = "approve" /\ d.passed
  /\ \A q \in Ids' \ Ids : Registered(q) \/ \E p \in Ids : DerivedFrom(q, p)

LEMMA StepGrows ==
  ASSUME IInv, Next
  PROVE  Grows
<1>1. policies \in Seq(Policy)
  BY DEF IInv, TypeOK
<1>2. CASE UNCHANGED <<policies, decisions>>
  <2>1. Ids' = Ids
    BY <1>2 DEF Ids
  <2>2. QED
    BY <1>1, <1>2, <2>1 DEF Grows
<1>3. ASSUME NEW r \in Requests, CommitVersion(r)
      PROVE  Grows
  <2> DEFINE row == [document |-> body[r], parent |-> 0, status |-> "signed"]
  <2>1. /\ row \in Policy /\ WellFormed(body[r]) /\ policies' = Append(policies, row)
        /\ decisions' = decisions
    BY <1>3, CommitAppends
  <2>2. row.parent = 0 /\ row.document = body[r]
    OBVIOUS
  <2> HIDE DEF row
  <2>3. /\ policies' \in Seq(Policy)
        /\ Len(policies) <= Len(policies')
        /\ \A q \in Ids : policies'[q] = policies[q]
        /\ \A q \in Ids' \ Ids : policies'[q] = row
    BY <1>1, <2>1 DEF Ids
  <2>4. \A q \in Ids' \ Ids : Registered(q)
    BY <2>1, <2>2, <2>3 DEF Registered
  <2>5. QED
    BY <2>1, <2>3, <2>4 DEF Grows
<1>4. ASSUME NEW p \in experiments, NEW evidence, Propose(p, evidence)
      PROVE  Grows
  <2>1. /\ p \in Ids /\ policies' \in Seq(Policy) /\ Len(policies) <= Len(policies')
        /\ \A q \in Ids : policies'[q] = policies[q]
        /\ decisions' = decisions
    BY <1>4, ProposeAppends
  <2>2. \A q \in Ids' \ Ids : DerivedFrom(q, p)
    BY <1>4, ProposeAppends DEF DerivedFrom
  <2>3. QED
    BY <2>1, <2>2 DEF Grows
<1>5. ASSUME NEW c \in candidates, NEW approve \in BOOLEAN, NEW passed \in BOOLEAN,
             Promote(c, approve, passed)
      PROVE  Grows
  <2>1. Len(policies') = Len(policies)
    BY <1>5, PromoteSigns
  <2>2. Ids' = Ids /\ Len(policies) <= Len(policies')
    BY <1>1, <2>1 DEF Ids
  <2>3. QED
    BY <1>5, <2>2, PromoteSigns DEF Grows
<1>6. QED
  BY <1>2, <1>3, <1>4, <1>5 DEF Next, ReadVersion, InsertVersion, DuplicateVersion,
     CrashVersion, CreateExperiment, registry

LEMMA StepTypeOK ==
  ASSUME IInv, Next
  PROVE  TypeOK'
<1> USE DEF TypeOK
<1>1. TypeOK /\ policies' \in Seq(Policy)
  BY StepGrows DEF IInv, Grows
<1>2. [f \in Fields |-> Missing] \in Documents
  BY DEF Documents
<1>3. ASSUME NEW r \in Requests, NEW a \in Agents, NEW doc \in Bodies, ReadVersion(r, a, doc)
      PROVE  TypeOK'
  <2>1. Defaulted(doc) \in Documents
    BY BodiesAssumption, DefaultedIsWellFormed
  <2>2. TopNumber(a) \in Nat
    BY <1>1, TopNumberIsLen DEF IInv
  <2>3. QED
    BY <1>1, <1>3, <2>1, <2>2 DEF ReadVersion, registry
<1>4. ASSUME NEW r \in Requests, InsertVersion(r)
      PROVE  TypeOK'
  BY <1>1, <1>4 DEF InsertVersion, registry
<1>5. ASSUME NEW r \in Requests, DuplicateVersion(r) \/ CrashVersion(r)
      PROVE  TypeOK'
  <2>1. /\ pc' = [pc EXCEPT ![r] = "failed"]
        /\ body' = [body EXCEPT ![r] = [f \in Fields |-> Missing]]
        /\ number' = [number EXCEPT ![r] = 0]
        /\ agent' = agent
        /\ UNCHANGED registry
    BY <1>5 DEF DuplicateVersion, CrashVersion, Closed
  <2>2. QED
    BY <1>1, <1>2, <2>1 DEF registry
<1>6. ASSUME NEW r \in Requests, CommitVersion(r)
      PROVE  TypeOK'
  <2> DEFINE ver == [number |-> number[r], policy |-> Len(policies) + 1]
  <2>1. /\ ver \in Version /\ agent[r] \in Agents
        /\ versions' = [versions EXCEPT ![agent[r]] = Append(@, ver)]
        /\ UNCHANGED <<experiments, candidates, decisions>>
    BY <1>6, CommitAppends
  <2> HIDE DEF ver
  <2>2. versions' \in [Agents -> Seq(Version)]
    BY <1>1, <2>1
  <2>3. /\ pc' = [pc EXCEPT ![r] = "ok"]
        /\ body' = [body EXCEPT ![r] = [f \in Fields |-> Missing]]
        /\ number' = [number EXCEPT ![r] = 0]
        /\ agent' = agent
    BY <1>6 DEF CommitVersion, Closed
  <2>4. QED
    BY <1>1, <1>2, <2>1, <2>2, <2>3
<1>7. ASSUME NEW p \in Ids, CreateExperiment(p)
      PROVE  TypeOK'
  BY <1>1, <1>7 DEF CreateExperiment, Ids
<1>8. ASSUME NEW p \in experiments, NEW evidence, Propose(p, evidence)
      PROVE  TypeOK'
  <2>1. candidates' \subseteq Candidate /\ UNCHANGED <<versions, experiments, decisions>>
    BY <1>1, <1>8, ProposeAppends
  <2>2. UNCHANGED <<pc, agent, body, number>>
    BY <1>8 DEF Propose
  <2>3. QED
    BY <1>1, <2>1, <2>2
<1>9. ASSUME NEW c \in candidates, NEW approve \in BOOLEAN, NEW passed \in BOOLEAN,
             Promote(c, approve, passed)
      PROVE  TypeOK'
  <2>1. decisions' \subseteq Decision /\ UNCHANGED <<versions, experiments, candidates>>
    BY <1>9, PromoteSigns
  <2>2. UNCHANGED <<pc, agent, body, number>>
    BY <1>9 DEF Promote
  <2>3. QED
    BY <1>1, <2>1, <2>2
<1>10. QED
  BY <1>3, <1>4, <1>5, <1>6, <1>7, <1>8, <1>9 DEF Next

-----------------------------------------------------------------------------
\* The policies.

LEMMA StepPolicies ==
  ASSUME IInv, Next
  PROVE  /\ DocumentsAreWellFormed'
         /\ ParentsAreEarlier'
         /\ ProtectedFieldsKept'
         /\ TuningIsBounded'
         /\ SignedThroughGate'
<1>1. /\ policies \in Seq(Policy) /\ Grows
      /\ DocumentsAreWellFormed /\ ParentsAreEarlier /\ ProtectedFieldsKept
      /\ TuningIsBounded /\ SignedThroughGate
  BY StepGrows DEF IInv, TypeOK
<1>2. /\ policies' \in Seq(Policy)
      /\ Ids \subseteq Nat \ {0}
      /\ \A p \in Ids, q \in Ids' \ Ids : p < q
      /\ \A q \in Ids' \ Ids : q \in Nat /\ q > 0
      /\ Ids \subseteq Ids'
  BY <1>1 DEF Grows, Ids
<1>3. \A q \in Ids : policies[q] \in Policy
  BY <1>1 DEF Ids
<1>4. \A q \in Ids : /\ policies'[q].document = policies[q].document
                    /\ policies'[q].parent = policies[q].parent
  BY <1>1 DEF Grows
<1>5. \A q \in Ids : policies[q].parent # 0 => policies[q].parent \in Ids
  <2>1. SUFFICES ASSUME NEW q \in Ids, policies[q].parent # 0
                 PROVE  policies[q].parent \in Ids
    OBVIOUS
  <2>2. policies[q].parent \in Nat /\ policies[q].parent < q
    BY <1>1, <1>3 DEF Policy, ParentsAreEarlier
  <2>3. QED
    BY <1>1, <2>1, <2>2 DEF Ids
<1>6. \A q \in Ids' \ Ids : Registered(q) \/ \E p \in Ids : DerivedFrom(q, p)
  BY <1>1 DEF Grows
<1>7. DocumentsAreWellFormed'
  <2>1. SUFFICES ASSUME NEW q \in Ids'
                 PROVE  WellFormed(policies'[q].document)
    BY DEF DocumentsAreWellFormed, WellFormed
  <2>2. CASE q \in Ids
    BY <1>1, <1>4, <2>2 DEF DocumentsAreWellFormed
  <2>3. CASE q \notin Ids
    BY <1>6, <2>1, <2>3 DEF Registered, DerivedFrom
  <2>4. QED
    BY <2>2, <2>3
<1>8. ParentsAreEarlier'
  <2>1. SUFFICES ASSUME NEW q \in Ids'
                 PROVE  policies'[q].parent < q
    BY DEF ParentsAreEarlier
  <2>2. CASE q \in Ids
    BY <1>1, <1>4, <2>2 DEF ParentsAreEarlier
  <2>3. CASE q \notin Ids
    <3>1. policies'[q].parent = 0 \/ policies'[q].parent \in Ids
      BY <1>6, <2>3 DEF Registered, DerivedFrom
    <3>2. QED
      BY <1>2, <2>3, <3>1
  <2>4. QED
    BY <2>2, <2>3
<1>9. ProtectedFieldsKept'
  <2>1. SUFFICES ASSUME NEW q \in Ids', policies'[q].parent # 0, NEW f \in PROTECTED_FIELDS
                 PROVE  policies'[q].document[f] = policies'[policies'[q].parent].document[f]
    BY DEF ProtectedFieldsKept
  <2>2. CASE q \in Ids
    BY <1>1, <1>4, <1>5, <2>1, <2>2 DEF ProtectedFieldsKept
  <2>3. CASE q \notin Ids
    <3>1. PICK p \in Ids : DerivedFrom(q, p)
      BY <1>6, <2>1, <2>3 DEF Registered
    <3>2. QED
      BY <1>4, <2>1, <3>1 DEF DerivedFrom
  <2>4. QED
    BY <2>2, <2>3
<1>10. TuningIsBounded'
  <2>1. SUFFICES ASSUME NEW q \in Ids', policies'[q].parent # 0
                 PROVE  LET child  == policies'[q].document
                            parent == policies'[policies'[q].parent].document
                        IN  /\ Turns(child) <= Turns(parent)
                            /\ Passages(child) > Passages(parent) => Passages(child) <= 12
    BY DEF TuningIsBounded, Turns, Passages, Get, OrEmpty
  <2>2. CASE q \in Ids
    <3>1. policies[q].parent \in Ids /\ policies[q].parent # 0
      BY <1>4, <1>5, <2>1, <2>2
    <3>2. LET child  == policies[q].document
              parent == policies[policies[q].parent].document
          IN  /\ Turns(child) <= Turns(parent)
              /\ Passages(child) > Passages(parent) => Passages(child) <= 12
      BY <1>1, <2>2, <3>1 DEF TuningIsBounded, Turns, Passages
    <3>3. QED
      BY <1>4, <2>2, <3>1, <3>2
  <2>3. CASE q \notin Ids
    <3>1. PICK p \in Ids : DerivedFrom(q, p)
      BY <1>6, <2>1, <2>3 DEF Registered
    <3>2. QED
      BY <1>4, <3>1 DEF DerivedFrom
  <2>4. QED
    BY <2>2, <2>3
<1>11. SignedThroughGate'
  <2>1. SUFFICES ASSUME NEW q \in Ids', policies'[q].parent # 0, policies'[q].status = "signed"
                 PROVE  \E d \in decisions' : d.policy = q /\ d.decision = "approve" /\ d.passed
    BY DEF SignedThroughGate
  <2>2. CASE q \in Ids /\ policies[q].status = "signed"
    <3>1. \E d \in decisions : d.policy = q /\ d.decision = "approve" /\ d.passed
      BY <1>1, <1>4, <2>1, <2>2 DEF SignedThroughGate
    <3>2. decisions \subseteq decisions'
      BY <1>1 DEF Grows
    <3>3. QED
      BY <3>1, <3>2
  <2>3. CASE q \in Ids /\ policies[q].status # "signed"
    BY <1>1, <2>1, <2>3 DEF Grows
  <2>4. CASE q \notin Ids
    BY <1>6, <2>1, <2>4 DEF Registered, DerivedFrom
  <2>5. QED
    BY <2>2, <2>3, <2>4
<1>12. QED
  BY <1>7, <1>8, <1>9, <1>10, <1>11

LEMMA StepLinks ==
  ASSUME IInv, Next
  PROVE  LinksAreKnown' /\ CandidatesAreValid'
<1>1. Ids \subseteq Ids'
  BY StepGrows DEF IInv, TypeOK, Grows, Ids
<1>2. LinksAreKnown /\ CandidatesAreValid
  BY DEF IInv
<1>3. CASE UNCHANGED <<experiments, candidates>>
  BY <1>1, <1>2, <1>3 DEF LinksAreKnown, CandidatesAreValid
<1>4. ASSUME NEW p \in Ids, CreateExperiment(p)
      PROVE  LinksAreKnown' /\ CandidatesAreValid'
  BY <1>1, <1>2, <1>4 DEF CreateExperiment, LinksAreKnown, CandidatesAreValid
<1>5. ASSUME NEW p \in experiments, NEW evidence, Propose(p, evidence)
      PROVE  LinksAreKnown' /\ CandidatesAreValid'
  <2>1. /\ \A c \in candidates' \ candidates : c.policy \in Ids' /\ c.validation = "valid"
        /\ experiments' = experiments
    BY <1>5, ProposeAppends
  <2>2. QED
    BY <1>1, <1>2, <2>1 DEF LinksAreKnown, CandidatesAreValid
<1>6. QED
  BY <1>3, <1>4, <1>5 DEF Next, ReadVersion, InsertVersion, DuplicateVersion, CommitVersion,
     CrashVersion, Promote, registry

-----------------------------------------------------------------------------
\* The version numbers.

\* What each step does to the calls of create_agent_version.
LEMMA StepNumbering ==
  ASSUME IInv, Next
  PROVE  /\ VersionsGapless'
         /\ \A r \in Requests : NumberIsNext(r)' /\ BodyIsWellFormed(r)'
         /\ OneWriter'
<1> DEFINE Good == /\ VersionsGapless
                   /\ \A r \in Requests : NumberIsNext(r) /\ BodyIsWellFormed(r)
                   /\ OneWriter
<1>1. /\ Good
      /\ versions \in [Agents -> Seq(Version)]
      /\ pc \in [Requests -> {"idle", "insert", "commit", "ok", "failed"}]
      /\ agent \in [Requests -> Agents]
      /\ body \in [Requests -> Documents]
      /\ number \in [Requests -> Nat]
  BY DEF IInv, TypeOK
<1>2. CASE UNCHANGED <<versions, pc, agent, body, number>>
  <2>1. VersionsGapless'
    BY <1>1, <1>2 DEF VersionsGapless
  <2>2. \A r \in Requests : NumberIsNext(r)' /\ BodyIsWellFormed(r)'
    BY <1>1, <1>2 DEF NumberIsNext, BodyIsWellFormed
  <2>3. OneWriter'
    BY <1>1, <1>2 DEF OneWriter
  <2>4. QED
    BY <2>1, <2>2, <2>3
<1>3. ASSUME NEW r \in Requests, NEW a \in Agents, NEW doc \in Bodies, ReadVersion(r, a, doc)
      PROVE  Good'
  <2>1. /\ pc' = [pc EXCEPT ![r] = "insert"]
        /\ agent' = [agent EXCEPT ![r] = a]
        /\ body' = [body EXCEPT ![r] = Defaulted(doc)]
        /\ number' = [number EXCEPT ![r] = Len(versions[a]) + 1]
        /\ versions' = versions
    BY <1>3, TopNumberIsLen DEF ReadVersion, registry, IInv
  <2>2. WellFormed(Defaulted(doc))
    BY BodiesAssumption, DefaultedIsWellFormed
  <2>3. Len(versions[a]) \in Nat
    BY <1>1
  <2>4. \A s \in Requests : NumberIsNext(s)'
    BY <1>1, <2>1, <2>3 DEF NumberIsNext
  <2>5. \A s \in Requests : BodyIsWellFormed(s)'
    BY <1>1, <2>1, <2>2 DEF BodyIsWellFormed
  <2>6. OneWriter'
    BY <1>1, <2>1 DEF OneWriter
  <2>7. VersionsGapless'
    BY <1>1, <2>1 DEF VersionsGapless
  <2>8. QED
    BY <2>4, <2>5, <2>6, <2>7
<1>4. ASSUME NEW r \in Requests, InsertVersion(r)
      PROVE  Good'
  <2>1. /\ pc[r] = "insert" /\ pc' = [pc EXCEPT ![r] = "commit"]
        /\ ~Blocked(r) /\ ~Taken(r)
        /\ UNCHANGED <<versions, agent, body, number>>
    BY <1>4 DEF InsertVersion, registry
  <2> DEFINE n == Len(versions[agent[r]])
  <2>2. n \in Nat /\ DOMAIN versions[agent[r]] = 1..n /\ agent[r] \in Agents
    BY <1>1
  <2>3. number[r] \in 1..(n + 1)
    BY <1>1, <2>1 DEF NumberIsNext
  <2>4. \A i \in 1..n : versions[agent[r]][i].number = i
    BY <1>1, <2>2 DEF VersionsGapless
  <2> HIDE DEF n
  <2>5. number[r] \notin 1..n
    BY <2>1, <2>2, <2>4 DEF Taken
  <2>6. number[r] = n + 1
    BY <2>2, <2>3, <2>5
  <2>7. \A s \in Requests \ {r} : pc[s] = "commit" => agent[s] # agent[r]
    BY <1>1, <2>1, <2>6 DEF Blocked, NumberIsNext, n
  <2>8. \A s \in Requests : NumberIsNext(s)'
    BY <1>1, <2>1, <2>6 DEF NumberIsNext, n
  <2>9. \A s \in Requests : BodyIsWellFormed(s)'
    BY <1>1, <2>1 DEF BodyIsWellFormed
  <2>10. OneWriter'
    BY <1>1, <2>1, <2>7 DEF OneWriter
  <2>11. VersionsGapless'
    BY <1>1, <2>1 DEF VersionsGapless
  <2>12. QED
    BY <2>8, <2>9, <2>10, <2>11
<1>5. ASSUME NEW r \in Requests, NEW outcome \in {"ok", "failed"}, Closed(r, outcome),
             VersionsGapless',
             \A s \in Requests \ {r} : pc[s] = "insert" =>
               /\ Len(versions[agent[s]]) \in Nat
               /\ Len(versions'[agent[s]]) \in Nat
               /\ Len(versions[agent[s]]) <= Len(versions'[agent[s]]),
             \A s \in Requests \ {r} : pc[s] = "commit" =>
               versions'[agent[s]] = versions[agent[s]]
      PROVE  Good'
  <2>1. /\ pc' = [pc EXCEPT ![r] = outcome]
        /\ agent' = agent
        /\ \A s \in Requests \ {r} : body'[s] = body[s] /\ number'[s] = number[s]
    BY <1>1, <1>5 DEF Closed
  <2>2. \A s \in Requests : NumberIsNext(s)'
    <3>1. SUFFICES ASSUME NEW s \in Requests
                   PROVE  NumberIsNext(s)'
      OBVIOUS
    <3>2. CASE s = r
      BY <1>1, <2>1, <3>2 DEF NumberIsNext
    <3>3. CASE s # r /\ pc[s] = "insert"
      BY <1>1, <1>5, <2>1, <3>3 DEF NumberIsNext
    <3>4. CASE s # r /\ pc[s] = "commit"
      BY <1>1, <1>5, <2>1, <3>4 DEF NumberIsNext
    <3>5. CASE s # r /\ pc[s] \notin {"insert", "commit"}
      BY <1>1, <2>1, <3>5 DEF NumberIsNext
    <3>6. QED
      BY <3>2, <3>3, <3>4, <3>5
  <2>3. \A s \in Requests : BodyIsWellFormed(s)'
    BY <1>1, <2>1 DEF BodyIsWellFormed
  <2>4. OneWriter'
    BY <1>1, <2>1 DEF OneWriter
  <2>5. QED
    BY <1>5, <2>2, <2>3, <2>4
<1>6. ASSUME NEW r \in Requests, DuplicateVersion(r) \/ CrashVersion(r)
      PROVE  Good'
  <2>1. Closed(r, "failed") /\ versions' = versions
    BY <1>6 DEF DuplicateVersion, CrashVersion, registry
  <2>2. VersionsGapless'
    BY <1>1, <2>1 DEF VersionsGapless
  <2>3. \A s \in Requests : Len(versions[agent[s]]) \in Nat
    BY <1>1
  <2>4. QED
    BY <1>5, <2>1, <2>2, <2>3
<1>7. ASSUME NEW r \in Requests, CommitVersion(r)
      PROVE  Good'
  <2> DEFINE ver == [number |-> number[r], policy |-> Len(policies) + 1]
             a == agent[r]
             n == Len(versions[a])
  <2>1. /\ ver \in Version /\ a \in Agents /\ ver.number = n + 1
        /\ versions' = [versions EXCEPT ![a] = Append(@, ver)]
    BY <1>7, CommitAppends
  <2>2. pc[r] = "commit" /\ Closed(r, "ok")
    BY <1>7 DEF CommitVersion
  <2> HIDE DEF ver
  <2>3. /\ versions' \in [Agents -> Seq(Version)]
        /\ \A b \in Agents \ {a} : versions'[b] = versions[b]
        /\ versions'[a] = Append(versions[a], ver)
        /\ versions[a] \in Seq(Version)
    BY <1>1, <2>1
  <2>4. /\ Len(versions'[a]) = n + 1 /\ n \in Nat
        /\ versions'[a][n + 1] = ver
        /\ \A i \in 1..n : versions'[a][i] = versions[a][i]
    BY <2>3
  <2> HIDE DEF n
  <2>5. VersionsGapless'
    <3>1. SUFFICES ASSUME NEW b \in Agents, NEW i \in DOMAIN versions'[b]
                   PROVE  versions'[b][i].number = i
      BY DEF VersionsGapless
    <3>2. CASE b # a
      BY <1>1, <2>3, <3>2 DEF VersionsGapless
    <3>3. CASE b = a
      <4>1. i \in 1..(n + 1)
        BY <2>3, <2>4, <3>3
      <4>2. CASE i = n + 1
        BY <2>1, <2>4, <3>3, <4>2
      <4>3. CASE i \in 1..n
        BY <1>1, <2>1, <2>3, <2>4, <3>3, <4>3 DEF VersionsGapless, n
      <4>4. QED
        BY <2>4, <4>1, <4>2, <4>3
    <3>4. QED
      BY <3>2, <3>3
  <2>6. \A b \in Agents : /\ Len(versions[b]) \in Nat /\ Len(versions'[b]) \in Nat
                          /\ Len(versions[b]) <= Len(versions'[b])
    <3>1. SUFFICES ASSUME NEW b \in Agents
                   PROVE  /\ Len(versions[b]) \in Nat /\ Len(versions'[b]) \in Nat
                          /\ Len(versions[b]) <= Len(versions'[b])
      OBVIOUS
    <3>2. CASE b = a
      BY <2>4, <3>2 DEF n
    <3>3. CASE b # a
      BY <1>1, <2>3, <3>3
    <3>4. QED
      BY <3>2, <3>3
  <2>7. \A s \in Requests \ {r} : pc[s] = "commit" => agent[s] # a
    BY <1>1, <2>2 DEF OneWriter
  <2> HIDE DEF a
  <2>8. \A s \in Requests : agent[s] \in Agents
    BY <1>1
  <2>9. QED
    BY <1>5, <2>2, <2>3, <2>5, <2>6, <2>7, <2>8
<1>8. QED
  BY <1>2, <1>3, <1>4, <1>6, <1>7 DEF Next, CreateExperiment, Propose, Promote

-----------------------------------------------------------------------------
\* Which version a policy belongs to.

LEMMA StepOwnership ==
  ASSUME IInv, Next
  PROVE  VersionsArePrivate' /\ NoOrphanPolicy'
<1>1. /\ VersionsArePrivate /\ NoOrphanPolicy
      /\ policies \in Seq(Policy) /\ Grows
      /\ versions \in [Agents -> Seq(Version)]
  BY StepGrows DEF IInv, TypeOK
<1>2. /\ Ids \subseteq Ids'
      /\ \A q \in Ids : policies'[q].parent = policies[q].parent
      /\ Len(policies) + 1 \notin Ids
      /\ \A q \in Ids : q # Len(policies) + 1
  BY <1>1 DEF Grows, Ids
<1>3. ASSUME versions' = versions, \A q \in Ids' \ Ids : policies'[q].parent # 0
      PROVE  VersionsArePrivate' /\ NoOrphanPolicy'
  <2>1. VersionsArePrivate'
    BY <1>1, <1>2, <1>3 DEF VersionsArePrivate
  <2>2. \A q \in Ids' : policies'[q].parent = 0 => q \in Ids /\ policies[q].parent = 0
    BY <1>2, <1>3
  <2>3. NoOrphanPolicy'
    BY <1>1, <1>3, <2>2 DEF NoOrphanPolicy
  <2>4. QED
    BY <2>1, <2>3
<1>4. CASE UNCHANGED <<policies, versions>>
  BY <1>3, <1>4 DEF Ids
<1>5. ASSUME NEW p \in experiments, NEW evidence, Propose(p, evidence)
      PROVE  VersionsArePrivate' /\ NoOrphanPolicy'
  <2>1. /\ versions' = versions /\ p \in Ids
        /\ \A q \in Ids' \ Ids : policies'[q].parent = p
    BY <1>5, ProposeAppends
  <2>2. p # 0
    BY <2>1 DEF Ids
  <2>3. QED
    BY <1>3, <2>1, <2>2
<1>6. ASSUME NEW c \in candidates, NEW approve \in BOOLEAN, NEW passed \in BOOLEAN,
             Promote(c, approve, passed)
      PROVE  VersionsArePrivate' /\ NoOrphanPolicy'
  <2>1. Len(policies') = Len(policies) /\ versions' = versions
    BY <1>6, PromoteSigns
  <2>2. QED
    BY <1>3, <2>1 DEF Ids
<1>7. ASSUME NEW r \in Requests, CommitVersion(r)
      PROVE  VersionsArePrivate' /\ NoOrphanPolicy'
  <2> DEFINE ver == [number |-> number[r], policy |-> Len(policies) + 1]
             row == [document |-> body[r], parent |-> 0, status |-> "signed"]
             a == agent[r]
             n == Len(versions[a])
             new == Len(policies) + 1
  <2>1. /\ ver.policy = new /\ ver \in Version /\ row \in Policy
        /\ a \in Agents
        /\ versions' = [versions EXCEPT ![a] = Append(@, ver)]
        /\ policies' = Append(policies, row)
    BY <1>7, CommitAppends
  <2> HIDE DEF ver, row
  <2>2. Ids' = Ids \cup {new}
    BY <1>1, <2>1 DEF Ids
  <2>3. /\ \A b \in Agents \ {a} : versions'[b] = versions[b]
        /\ versions'[a] = Append(versions[a], ver)
        /\ versions[a] \in Seq(Version)
    BY <1>1, <2>1
  <2>4. /\ DOMAIN versions'[a] = 1..(n + 1) /\ DOMAIN versions[a] = 1..n /\ n \in Nat
        /\ versions'[a][n + 1] = ver
        /\ \A i \in 1..n : versions'[a][i] = versions[a][i]
    BY <2>3
  <2> HIDE DEF n, new
  <2>5. n + 1 \notin 1..n /\ 1..(n + 1) = 1..n \cup {n + 1}
    BY <2>4
  <2> DEFINE Old(b, i) == b \in Agents /\ i \in DOMAIN versions[b]
             New(b, i) == b = a /\ i = n + 1
  <2>6. \A b \in Agents : \A i \in DOMAIN versions'[b] :
          \/ Old(b, i) /\ versions'[b][i] = versions[b][i]
          \/ New(b, i) /\ versions'[b][i].policy = new
    BY <2>1, <2>3, <2>4, <2>5
  <2>7. \A b \in Agents : \A i \in DOMAIN versions[b] :
          i \in DOMAIN versions'[b] /\ versions'[b][i] = versions[b][i]
    BY <2>3, <2>4, <2>5
  <2>8. \A b \in Agents : \A i \in DOMAIN versions[b] :
          versions[b][i].policy \in Ids /\ versions[b][i].policy # new
    BY <1>1, <1>2 DEF VersionsArePrivate, new
  <2>9. n + 1 \in DOMAIN versions'[a] /\ versions'[a][n + 1].policy = new
    BY <2>1, <2>4, <2>5
  <2> HIDE DEF a
  <2>10. VersionsArePrivate'
    <3>1. SUFFICES ASSUME NEW b \in Agents, NEW i \in DOMAIN versions'[b]
                   PROVE  /\ versions'[b][i].policy \in Ids'
                          /\ \A c \in Agents : \A j \in DOMAIN versions'[c] :
                               versions'[c][j].policy = versions'[b][i].policy => b = c /\ i = j
      BY DEF VersionsArePrivate
    <3>2. CASE New(b, i) /\ versions'[b][i].policy = new
      BY <2>2, <2>6, <2>8, <3>2
    <3>3. CASE Old(b, i) /\ versions'[b][i] = versions[b][i]
      BY <1>1, <2>2, <2>6, <2>8, <3>3 DEF VersionsArePrivate
    <3>4. QED
      BY <2>6, <3>2, <3>3
  <2>11. NoOrphanPolicy'
    <3>1. SUFFICES ASSUME NEW q \in Ids', policies'[q].parent = 0
                   PROVE  \E b \in Agents : \E i \in DOMAIN versions'[b] :
                            versions'[b][i].policy = q
      <4>1. \A b \in Agents : \A i \in DOMAIN versions'[b] :
              \A c \in Agents : \A j \in DOMAIN versions'[c] :
                versions'[c][j].policy = versions'[b][i].policy => b = c /\ i = j
        BY <2>10 DEF VersionsArePrivate
      <4>2. QED
        BY <4>1 DEF NoOrphanPolicy
    <3>2. CASE q = new
      BY <2>1, <2>9, <3>2
    <3>3. CASE q \in Ids
      <4>1. policies[q].parent = 0
        BY <1>2, <3>1, <3>3
      <4>2. PICK b \in Agents : \E i \in DOMAIN versions[b] : versions[b][i].policy = q
        BY <1>1, <3>3, <4>1 DEF NoOrphanPolicy
      <4>3. QED
        BY <2>7, <4>2
    <3>4. QED
      BY <2>2, <3>2, <3>3
  <2>12. QED
    BY <2>10, <2>11
<1>8. QED
  BY <1>4, <1>5, <1>6, <1>7 DEF Next, ReadVersion, InsertVersion, DuplicateVersion,
     CrashVersion, CreateExperiment, registry

-----------------------------------------------------------------------------
LEMMA StepIInv == IInv /\ [Next]_vars => IInv'
<1>1. ASSUME IInv, Next
      PROVE  IInv'
  BY <1>1, StepTypeOK, StepPolicies, StepLinks, StepNumbering, StepOwnership DEF IInv
<1>2. ASSUME IInv, UNCHANGED vars
      PROVE  IInv'
  <2>1. Ids' = Ids
    BY <1>2 DEF Ids, vars
  <2>2. QED
    BY <1>2, <2>1 DEF vars, IInv, TypeOK, DocumentsAreWellFormed, ParentsAreEarlier,
       LinksAreKnown, VersionsGapless, NumberIsNext, BodyIsWellFormed, OneWriter,
       VersionsArePrivate, NoOrphanPolicy, ProtectedFieldsKept, CandidatesAreValid,
       TuningIsBounded, SignedThroughGate
<1>3. QED
  BY <1>1, <1>2

LEMMA InvariantHolds == Spec => []IInv
  BY InitIInv, StepIInv, PTL DEF Spec

\* Every variable keeps its type in the registry, for any agents,
\* documents and evidence.
THEOREM TypeCorrectness == Spec => []TypeOK
<1>1. IInv => TypeOK
  BY DEF IInv
<1>2. QED
  BY <1>1, InvariantHolds, PTL

\* Whichever builders race, the versions of an agent are numbered 1, 2, 3, ...
THEOREM VersionsAreGapless == Spec => []VersionsGapless
<1>1. IInv => VersionsGapless
  BY DEF IInv
<1>2. QED
  BY <1>1, InvariantHolds, PTL

\* A call that loses the race leaves no policy without a version.
THEOREM PoliciesHaveVersions == Spec => []NoOrphanPolicy
<1>1. IInv => NoOrphanPolicy
  BY DEF IInv
<1>2. QED
  BY <1>1, InvariantHolds, PTL

\* The improvement loop never changes a protected field.
THEOREM ProtectedFieldsAreKept == Spec => []ProtectedFieldsKept
<1>1. IInv => ProtectedFieldsKept
  BY DEF IInv
<1>2. QED
  BY <1>1, InvariantHolds, PTL

\* Every candidate the generator proposes is valid.
THEOREM ProposalsAreValid == Spec => []CandidatesAreValid
<1>1. IInv => CandidatesAreValid
  BY DEF IInv
<1>2. QED
  BY <1>1, InvariantHolds, PTL

\* Over all generations the generator stays within its bounds.
THEOREM TuningStaysBounded == Spec => []TuningIsBounded
<1>1. IInv => TuningIsBounded
  BY DEF IInv
<1>2. QED
  BY <1>1, InvariantHolds, PTL

\* A candidate is signed only by an approval whose gates passed.
THEOREM CandidatesAreSignedThroughGate == Spec => []SignedThroughGate
<1>1. IInv => SignedThroughGate
  BY DEF IInv
<1>2. QED
  BY <1>1, InvariantHolds, PTL

\* Documents and parents never change, and a signed policy stays signed.
THEOREM RegistryIsAppendOnly == Spec => RegistryOnlyGrows
<1> DEFINE Step == /\ Len(policies) <= Len(policies')
                   /\ \A p \in Ids : /\ policies'[p].document = policies[p].document
                                     /\ policies'[p].parent = policies[p].parent
                                     /\ policies[p].status = "signed" =>
                                          policies'[p].status = "signed"
<1>1. IInv /\ [Next]_vars => [Step]_vars
  BY StepGrows DEF Grows
<1>2. QED
  BY <1>1, InvariantHolds, PTL DEF Spec, RegistryOnlyGrows
=============================================================================
