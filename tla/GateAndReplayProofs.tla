-------------------------- MODULE GateAndReplayProofs --------------------------
(***************************************************************************)
(* PromotionGate for any evaluations and score sheets; after it,           *)
(* ExactReplay for any conversations, requests and bound on rows.          *)
(*                                                                         *)
(* The gate: the recursive sums of weighted_score are sums of eight terms  *)
(* (EverySumIs), which makes a composite monotone in its criteria; a       *)
(* baseline is then above every earlier one (IInv).                        *)
(*                                                                         *)
(* The replay: what exact_replay keeps of a numbered sequence is found by  *)
(* induction over its places (ReplayIsObserved); what a replay has read is *)
(* a beginning of the rows, and its counts lie between the answers it read *)
(* and what is counted now (ReplayIInv).                                   *)
(***************************************************************************)
EXTENDS PromotionGate, ExactReplay, FiniteSetTheorems, SequenceTheorems, TLAPS


-----------------------------------------------------------------------------
\* The sum that MapThenSumSet computes by recursion over the subsets of a set
\* is the sum of eight terms.
Term(P, d, k) == IF k \in d THEN P[k] ELSE 0

Sum8(P, d) ==
  Term(P, d, "task_outcome") + Term(P, d, "conversation_quality") + Term(P, d, "grounding")
  + Term(P, d, "state_progress") + Term(P, d, "tool_correctness") + Term(P, d, "user_experience")
  + Term(P, d, "cost_efficiency") + Term(P, d, "latency_efficiency")

Some(d) == CHOOSE x \in d : TRUE

IsSum(g, P, D) ==
  g = [d \in SUBSET D |-> IF d = {} THEN 0 ELSE P[Some(d)] + g[d \ {Some(d)}]]

LEMMA CriteriaAre ==
  Criteria = {"task_outcome", "conversation_quality", "grounding", "state_progress",
              "tool_correctness", "user_experience", "cost_efficiency", "latency_efficiency"}
  BY DEF Criteria, DEFAULT_WEIGHTS

LEMMA SumIsInt ==
  ASSUME NEW D \in SUBSET Criteria, NEW P \in [D -> Int], NEW d \in SUBSET D
  PROVE  Sum8(P, d) \in Int /\ \A k \in Criteria : Term(P, d, k) \in Int
<1>1. \A k \in Criteria : Term(P, d, k) \in Int
  BY DEF Term
<1>2. QED
  BY <1>1, CriteriaAre DEF Sum8

LEMMA TakeOne ==
  ASSUME NEW D \in SUBSET Criteria, NEW P \in [D -> Int], NEW d \in SUBSET D, NEW x \in d
  PROVE  Sum8(P, d) = P[x] + Sum8(P, d \ {x})
<1> DEFINE e == d \ {x}
<1>1. \A k \in Criteria : Term(P, d, k) \in Int /\ Term(P, e, k) \in Int
  <2>1. e \in SUBSET D
    OBVIOUS
  <2>2. QED
    BY <2>1, SumIsInt
<1>2. \A k : k # x => Term(P, d, k) = Term(P, e, k)
  BY DEF Term
<1>3. Term(P, d, x) = P[x] /\ Term(P, e, x) = 0 /\ P[x] \in Int
  BY DEF Term
<1>4. x \in Criteria
  OBVIOUS
<1> HIDE DEF e
<1>5. Sum8(P, d) = P[x] + Sum8(P, e)
  BY <1>1, <1>2, <1>3, <1>4, CriteriaAre DEF Sum8
<1>6. QED
  BY <1>5 DEF e

LEMMA ASumExists ==
  ASSUME NEW D \in SUBSET Criteria, NEW P \in [D -> Int]
  PROVE  IsSum([d \in SUBSET D |-> Sum8(P, d)], P, D)
<1> DEFINE g == [d \in SUBSET D |-> Sum8(P, d)]
<1>1. ASSUME NEW d \in SUBSET D, d # {}
      PROVE  g[d] = P[Some(d)] + g[d \ {Some(d)}]
  <2>1. Some(d) \in d
    BY <1>1 DEF Some
  <2>2. g[d] = P[Some(d)] + Sum8(P, d \ {Some(d)})
    BY <2>1, TakeOne
  <2>3. d \ {Some(d)} \in SUBSET D
    OBVIOUS
  <2>4. QED
    BY <2>2, <2>3
<1>2. g[{}] = 0
  <2>1. \A k \in Criteria : Term(P, {}, k) = 0
    BY DEF Term
  <2>2. Sum8(P, {}) = 0
    BY <2>1, CriteriaAre DEF Sum8
  <2>3. QED
    BY <2>2
<1>3. \A d \in SUBSET D : g[d] = IF d = {} THEN 0 ELSE P[Some(d)] + g[d \ {Some(d)}]
  BY <1>1, <1>2
<1>4. g = [d \in SUBSET D |-> g[d]]
  OBVIOUS
<1> HIDE DEF g
<1>5. g = [d \in SUBSET D |-> IF d = {} THEN 0 ELSE P[Some(d)] + g[d \ {Some(d)}]]
  BY <1>3, <1>4
<1>6. QED
  BY <1>5 DEF IsSum, g

LEMMA EverySumIs ==
  ASSUME NEW D \in SUBSET Criteria, NEW P \in [D -> Int], NEW g, IsSum(g, P, D)
  PROVE  g[D] = Sum8(P, D)
<1> DEFINE Bad == {d \in SUBSET D : g[d] # Sum8(P, d)}
           R == StrictSubsetOrdering(D)
<1>1. /\ g[{}] = 0
      /\ \A d \in SUBSET D : d # {} => g[d] = P[Some(d)] + g[d \ {Some(d)}]
  BY DEF IsSum
<1>2. SUFFICES ASSUME Bad # {} PROVE FALSE
  OBVIOUS
<1>3. IsFiniteSet(D)
  <2>1. \A S, k : IsFiniteSet(S) => IsFiniteSet(S \cup {k})
    BY FS_AddElement
  <2>2. IsFiniteSet({"task_outcome"} \cup {"conversation_quality"} \cup {"grounding"}
                    \cup {"state_progress"} \cup {"tool_correctness"} \cup {"user_experience"}
                    \cup {"cost_efficiency"} \cup {"latency_efficiency"})
    BY <2>1, FS_Singleton
  <2>3. Criteria = {"task_outcome"} \cup {"conversation_quality"} \cup {"grounding"}
                   \cup {"state_progress"} \cup {"tool_correctness"} \cup {"user_experience"}
                   \cup {"cost_efficiency"} \cup {"latency_efficiency"}
    BY CriteriaAre
  <2>4. IsFiniteSet(Criteria)
    BY <2>2, <2>3
  <2>5. QED
    BY <2>4, FS_Subset
<1>4. IsWellFoundedOn(R, SUBSET D)
  BY <1>3, FS_StrictSubsetOrderingWellFounded, FS_FiniteSubsetsOfFinite
<1>5. PICK d \in Bad : \A y \in Bad : <<y, d>> \notin R
  BY <1>2, <1>4, WFMin
<1>6. d # {}
  <2>1. Sum8(P, {}) = 0
    <3>1. \A k \in Criteria : Term(P, {}, k) = 0
      BY DEF Term
    <3>2. QED
      BY <3>1, CriteriaAre DEF Sum8
  <2>2. QED
    BY <1>1, <2>1
<1> DEFINE x == Some(d)
<1>7. x \in d
  BY <1>6 DEF Some
<1>8. d \ {x} \notin Bad
  <2>1. d \in SUBSET D /\ d \ {x} \in SUBSET D /\ d \ {x} \subseteq d /\ d \ {x} # d
    BY <1>7
  <2> HIDE DEF x
  <2>2. <<d \ {x}, d>> \in R
    BY <2>1 DEF StrictSubsetOrdering
  <2>3. QED
    BY <1>5, <2>2
<1>9. g[d \ {x}] = Sum8(P, d \ {x})
  BY <1>8
<1>10. g[d] = P[x] + Sum8(P, d \ {x})
  BY <1>1, <1>6, <1>9
<1>11. QED
  BY <1>7, <1>10, TakeOne

\* What weighted_score adds up.
Parts(s) == [k \in DOMAIN s |-> s[k] * DEFAULT_WEIGHTS[k]]
Weights(s) == [k \in DOMAIN s |-> DEFAULT_WEIGHTS[k]]

LEMMA WeightedScoreIs ==
  ASSUME NEW s, IsSheet(s), DOMAIN s # {}
  PROVE  weighted_score(s) = [num |-> Sum8(Parts(s), DOMAIN s), den |-> Sum8(Weights(s), DOMAIN s)]
<1> DEFINE D == DOMAIN s
           P == Parts(s)
           W == Weights(s)
           part(k) == s[k] * DEFAULT_WEIGHTS[k]
           weight(k) == DEFAULT_WEIGHTS[k]
<1>1. D \in SUBSET Criteria /\ \A k \in D : s[k] \in Int
  BY GateAssumption DEF IsSheet
<1>2. \A k \in Criteria : DEFAULT_WEIGHTS[k] \in Int
  BY CriteriaAre DEF DEFAULT_WEIGHTS
<1>3. P \in [D -> Int] /\ W \in [D -> Int]
  BY <1>1, <1>2 DEF Parts, Weights
<1>4. \A d \in SUBSET D : d # {} => Some(d) \in D
  BY DEF Some
<1>5. \A g : IsSum(g, P, D)
               <=> g = [d \in SUBSET D |-> IF d = {} THEN 0 ELSE part(Some(d)) + g[d \ {Some(d)}]]
  BY <1>4 DEF IsSum, Parts
<1>6. \A g : IsSum(g, W, D)
               <=> g = [d \in SUBSET D |-> IF d = {} THEN 0 ELSE weight(Some(d)) + g[d \ {Some(d)}]]
  BY <1>4 DEF IsSum, Weights
<1>7. MapThenSumSet(part, D) = Sum8(P, D)
  <2> DEFINE A(g) == g = [d \in SUBSET D |->
                            IF d = {} THEN 0 ELSE part(Some(d)) + g[d \ {Some(d)}]]
             c == CHOOSE g : A(g)
  <2>1. \A g : A(g) <=> IsSum(g, P, D)
    BY <1>5
  <2>2. MapThenSumSet(part, D) = c[D]
    BY DEF MapThenSumSet, MapThenFoldSet, Some
  <2> HIDE DEF A, P, W
  <2>3. IsSum([d \in SUBSET D |-> Sum8(P, d)], P, D)
    BY <1>1, <1>3, ASumExists
  <2>4. A(c)
    BY <2>1, <2>3
  <2> HIDE DEF c
  <2>5. c[D] = Sum8(P, D)
    BY <1>1, <1>3, <2>1, <2>4, EverySumIs
  <2>6. QED
    BY <2>2, <2>5
<1>8. MapThenSumSet(weight, D) = Sum8(W, D)
  <2> DEFINE A(g) == g = [d \in SUBSET D |->
                            IF d = {} THEN 0 ELSE weight(Some(d)) + g[d \ {Some(d)}]]
             c == CHOOSE g : A(g)
  <2>1. \A g : A(g) <=> IsSum(g, W, D)
    BY <1>6
  <2>2. MapThenSumSet(weight, D) = c[D]
    BY DEF MapThenSumSet, MapThenFoldSet, Some
  <2> HIDE DEF A, P, W
  <2>3. IsSum([d \in SUBSET D |-> Sum8(W, d)], W, D)
    BY <1>1, <1>3, ASumExists
  <2>4. A(c)
    BY <2>1, <2>3
  <2> HIDE DEF c
  <2>5. c[D] = Sum8(W, D)
    BY <1>1, <1>3, <2>1, <2>4, EverySumIs
  <2>6. QED
    BY <2>2, <2>5
<1>9. QED
  BY <1>7, <1>8 DEF weighted_score

-----------------------------------------------------------------------------
\* A weighted score is a quotient, and the larger the larger its scores are.
LEMMA WeightsArePositive == \A k \in Criteria : DEFAULT_WEIGHTS[k] \in Nat \ {0}
  BY CriteriaAre DEF DEFAULT_WEIGHTS

LEMMA SumIsNat ==
  ASSUME NEW D \in SUBSET Criteria, NEW P \in [D -> Nat]
  PROVE  Sum8(P, D) \in Nat /\ \A k \in D : Sum8(P, D) >= P[k]
<1>1. \A k \in Criteria : Term(P, D, k) \in Nat
  BY DEF Term
<1>2. \A k \in D : k \in Criteria /\ Term(P, D, k) = P[k]
  BY DEF Term
<1>3. QED
  BY <1>1, <1>2, CriteriaAre DEF Sum8

LEMMA SumIsMonotone ==
  ASSUME NEW D \in SUBSET Criteria, NEW P \in [D -> Int], NEW Q \in [D -> Int],
         \A k \in D : P[k] >= Q[k]
  PROVE  /\ Sum8(P, D) >= Sum8(Q, D)
         /\ (\E k \in D : P[k] > Q[k]) => Sum8(P, D) > Sum8(Q, D)
<1>1. \A k \in Criteria : /\ Term(P, D, k) \in Int /\ Term(Q, D, k) \in Int
                          /\ Term(P, D, k) >= Term(Q, D, k)
  BY DEF Term
<1>2. \A k \in D : P[k] > Q[k] => k \in Criteria /\ Term(P, D, k) > Term(Q, D, k)
  BY DEF Term
<1>3. QED
  BY <1>1, <1>2, CriteriaAre DEF Sum8

LEMMA PartsAre ==
  ASSUME NEW s, IsSheet(s)
  PROVE  /\ DOMAIN s \in SUBSET Criteria
         /\ Parts(s) \in [DOMAIN s -> Int] /\ Weights(s) \in [DOMAIN s -> Nat \ {0}]
<1>1. \A k \in DOMAIN s : s[k] \in Int /\ DEFAULT_WEIGHTS[k] \in Nat \ {0}
  BY WeightsArePositive DEF IsSheet
<1>2. \A k \in DOMAIN s : s[k] * DEFAULT_WEIGHTS[k] \in Int
  BY <1>1
<1>3. QED
  BY <1>1, <1>2 DEF IsSheet, Parts, Weights

LEMMA EmptyScore ==
  ASSUME NEW s, DOMAIN s = {}
  PROVE  weighted_score(s) = [num |-> 0, den |-> 1]
  BY DEF weighted_score

LEMMA ScoreType ==
  ASSUME NEW s, IsSheet(s)
  PROVE  weighted_score(s).num \in Int /\ weighted_score(s).den \in Nat \ {0}
<1>1. CASE DOMAIN s = {}
  BY <1>1, EmptyScore
<1>2. CASE DOMAIN s # {}
  <2>1. weighted_score(s).num = Sum8(Parts(s), DOMAIN s)
        /\ weighted_score(s).den = Sum8(Weights(s), DOMAIN s)
    BY <1>2, WeightedScoreIs
  <2>2. PICK k \in DOMAIN s : TRUE
    BY <1>2
  <2>3. Sum8(Parts(s), DOMAIN s) \in Int
    BY PartsAre, SumIsInt
  <2>4. Weights(s) \in [DOMAIN s -> Nat] /\ Weights(s)[k] \in Nat \ {0}
    BY PartsAre
  <2>5. Sum8(Weights(s), DOMAIN s) \in Nat /\ Sum8(Weights(s), DOMAIN s) >= Weights(s)[k]
    BY <2>4, PartsAre, SumIsNat
  <2>6. QED
    BY <2>1, <2>3, <2>4, <2>5
<1>3. QED
  BY <1>1, <1>2

LEMMA SameCriteria ==
  ASSUME NEW a, NEW b, IsSheet(a), IsSheet(b), DOMAIN a = DOMAIN b
  PROVE  weighted_score(a).den = weighted_score(b).den
<1>1. CASE DOMAIN a = {}
  BY <1>1, EmptyScore
<1>2. CASE DOMAIN a # {}
  <2>1. weighted_score(a).den = Sum8(Weights(a), DOMAIN a)
        /\ weighted_score(b).den = Sum8(Weights(b), DOMAIN b)
    BY <1>2, WeightedScoreIs
  <2>2. Weights(a) = Weights(b)
    BY DEF Weights
  <2>3. QED
    BY <2>1, <2>2
<1>3. QED
  BY <1>1, <1>2

LEMMA ScoreIsMonotone ==
  ASSUME NEW a, NEW b, IsSheet(a), IsSheet(b), DOMAIN a = DOMAIN b,
         \A k \in DOMAIN a : a[k] >= b[k]
  PROVE  /\ weighted_score(a).num >= weighted_score(b).num
         /\ (\E k \in DOMAIN a : a[k] > b[k]) => weighted_score(a).num > weighted_score(b).num
<1>1. CASE DOMAIN a = {}
  <2>1. DOMAIN b = {}
    BY <1>1
  <2>2. weighted_score(a).num = 0
    BY <1>1, EmptyScore
  <2>3. weighted_score(b).num = 0
    BY <2>1, EmptyScore
  <2>4. QED
    BY <1>1, <2>2, <2>3
<1>2. CASE DOMAIN a # {}
  <2>1. weighted_score(a).num = Sum8(Parts(a), DOMAIN a)
        /\ weighted_score(b).num = Sum8(Parts(b), DOMAIN a)
    BY <1>2, WeightedScoreIs
  <2>2. /\ DOMAIN a \in SUBSET Criteria
        /\ Parts(a) \in [DOMAIN a -> Int] /\ Parts(b) \in [DOMAIN a -> Int]
    BY PartsAre
  <2>3. ASSUME NEW k \in DOMAIN a
        PROVE  Parts(a)[k] >= Parts(b)[k] /\ (a[k] > b[k] => Parts(a)[k] > Parts(b)[k])
    <3>1. \A x, y \in Int, w \in Nat \ {0} : x >= y => x * w >= y * w /\ (x > y => x * w > y * w)
      OBVIOUS
    <3>2. a[k] \in Int /\ b[k] \in Int /\ DEFAULT_WEIGHTS[k] \in Nat \ {0}
      BY WeightsArePositive DEF IsSheet
    <3>3. Parts(a)[k] = a[k] * DEFAULT_WEIGHTS[k] /\ Parts(b)[k] = b[k] * DEFAULT_WEIGHTS[k]
      BY DEF Parts
    <3>4. QED
      BY <3>1, <3>2, <3>3
  <2>4. QED
    BY <2>1, <2>2, <2>3, SumIsMonotone
<1>3. QED
  BY <1>1, <1>2

-----------------------------------------------------------------------------
\* A gain that suffices is a gain.
LEMMA GainIsGain ==
  ASSUME NEW b, NEW c, b.num \in Int, c.num \in Int, b.den \in Nat \ {0}, c.den \in Nat \ {0},
         GainSuffices(b, c)
  PROVE  Better(c, b)
<1>1. CASE b.num = 0
  <2>1. c.num > 0 /\ b.num * c.den = 0
    BY <1>1 DEF GainSuffices
  <2>2. c.num * b.den > 0
    BY <2>1
  <2>3. QED
    BY <2>1, <2>2 DEF Better
<1>2. CASE b.num # 0
  <2> DEFINE x == b.num * c.den
             y == c.num * b.den
             z == Size(b) * c.den
  <2>1. 20 * (y - x) >= z
    BY <1>2 DEF GainSuffices, Change
  <2>2. x \in Int /\ y \in Int
    OBVIOUS
  <2>3. z \in Int /\ z > 0
    <3>1. Size(b) \in Nat \ {0}
      BY <1>2 DEF Size
    <3>2. QED
      BY <3>1
  <2> HIDE DEF x, y, z
  <2>4. y > x
    BY <2>1, <2>2, <2>3
  <2>5. QED
    BY <2>4 DEF Better, x, y
<1>3. QED
  BY <1>1, <1>2

\* Over the same criteria it is somewhere a larger score.
LEMMA GainIsSomewhere ==
  ASSUME NEW a, NEW b, IsSheet(a), IsSheet(b), DOMAIN a = DOMAIN b,
         GainSuffices(weighted_score(b), weighted_score(a))
  PROVE  \E k \in DOMAIN a : ~(b[k] >= a[k])
<1> SUFFICES ASSUME \A k \in DOMAIN b : b[k] >= a[k] PROVE FALSE
  OBVIOUS
<1> DEFINE x == weighted_score(a)
           y == weighted_score(b)
<1>1. /\ x.num \in Int /\ y.num \in Int /\ x.den \in Nat \ {0} /\ y.den \in Nat \ {0}
      /\ x.den = y.den
  BY ScoreType, SameCriteria
<1>2. y.num >= x.num
  BY ScoreIsMonotone
<1>3. Better(x, y)
  BY <1>1, GainIsGain
<1> HIDE DEF x, y
<1>4. x.num * y.den > y.num * y.den
  BY <1>1, <1>3 DEF Better
<1>5. QED
  BY <1>1, <1>2, <1>4

-----------------------------------------------------------------------------
\* The scores of an evaluation are whole, and are read back as fractions.
LEMMA DivideExactly ==
  ASSUME NEW m \in Nat \ {0}, NEW x \in Int
  PROVE  (m * x) \div m = x
<1> DEFINE q == (m * x) \div m
<1>1. q \in Int /\ m * q <= m * x /\ m * x < m * q + m
  BY SMT
<1> HIDE DEF q
<1>2. m * (x - q) >= 0 /\ m * (x - q) < m
  BY <1>1
<1>3. x - q >= 0 /\ x - q < 1
  BY <1>1, <1>2
<1>4. x = q
  BY <1>1, <1>3
<1>5. QED
  BY <1>4 DEF q

LEMMA EvaluationType ==
  ASSUME NEW e \in Evaluations
  PROVE  /\ e.answers \in Nat /\ e.repeated \in Nat /\ e.ungrounded \in Nat
         /\ e.repeated <= e.answers /\ e.ungrounded <= e.answers
         /\ e.answers > 0 => e.repeated < e.answers
  BY GateAssumption DEF Evaluation

LEMMA WholeScores ==
  ASSUME NEW e \in Evaluations, e.answers > 0
  PROVE  \E n \in Nat \ {0} : /\ Scale = 4 * (e.answers * n)
                              /\ GroundingOf(e) = n * (4 * e.answers - e.ungrounded)
                              /\ QualityOf(e) = 4 * (n * (e.answers - e.repeated))
<1> DEFINE a == e.answers
           m == 4 * a
           n == Scale \div m
<1>1. a \in Nat /\ a > 0 /\ e.repeated \in Nat /\ e.ungrounded \in Nat
  BY EvaluationType
<1>2. Scale \in Nat /\ Scale > 0 /\ Scale % m = 0
  BY GateAssumption
<1> HIDE DEF a
<1>3. m \in Nat \ {0}
  BY <1>1
<1> HIDE DEF m
<1>4. n \in Nat /\ Scale = m * n + (Scale % m)
  BY <1>2, <1>3, SMT
<1> HIDE DEF n
<1>5. Scale = m * n /\ n > 0
  BY <1>2, <1>3, <1>4
<1>6. Scale = 4 * (a * n)
  BY <1>1, <1>4, <1>5 DEF m
<1>7. GroundingOf(e) = n * (4 * a - e.ungrounded)
  <2> DEFINE x == 4 * a - e.ungrounded
  <2>1. GroundingOf(e) = (Scale * x) \div m
    BY <1>1 DEF GroundingOf, a, m
  <2>2. x \in Int
    BY <1>1
  <2> HIDE DEF x
  <2>3. Scale * x = m * (n * x) /\ n * x \in Int
    BY <1>3, <1>4, <1>5, <2>2
  <2>4. QED
    BY <1>3, <2>1, <2>3, DivideExactly DEF x
<1>8. QualityOf(e) = 4 * (n * (a - e.repeated))
  <2> DEFINE x == a - e.repeated
             y == 4 * (n * x)
  <2>1. QualityOf(e) = (Scale * x) \div a
    BY <1>1 DEF QualityOf, a
  <2>2. x \in Int
    BY <1>1
  <2> HIDE DEF x
  <2>3. Scale * x = a * y /\ y \in Int
    BY <1>1, <1>4, <1>6, <2>2
  <2> HIDE DEF y
  <2>4. QualityOf(e) = y
    BY <1>1, <2>1, <2>3, DivideExactly
  <2>5. QED
    BY <2>4 DEF x, y
<1>9. QED
  BY <1>4, <1>5, <1>6, <1>7, <1>8 DEF a

LEMMA ScoresAreFractions ==
  ASSUME NEW e \in Evaluations
  PROVE  DOMAIN ScoresOf(e) = Criteria /\ ScoresOf(e) \in [Criteria -> 0 .. Scale]
<1>1. GroundingOf(e) \in 0 .. Scale /\ QualityOf(e) \in 0 .. Scale
  <2>1. CASE e.answers = 0
    BY <2>1, GateAssumption DEF GroundingOf, QualityOf
  <2>2. CASE e.answers > 0
    <3> DEFINE a == e.answers
               u == e.ungrounded
               r == e.repeated
    <3>1. PICK n \in Nat \ {0} : /\ Scale = 4 * (a * n)
                                 /\ GroundingOf(e) = n * (4 * a - u)
                                 /\ QualityOf(e) = 4 * (n * (a - r))
      BY <2>2, WholeScores
    <3>2. a \in Nat /\ u \in Nat /\ r \in Nat /\ r <= a /\ u <= a
      BY EvaluationType
    <3> HIDE DEF a, u, r
    <3>3. /\ n * (4 * a - u) = 4 * (a * n) - n * u /\ n * u \in Nat /\ n * u <= n * a
          /\ n * (a - r) = n * a - n * r /\ n * r \in Nat /\ n * r <= n * a
          /\ a * n = n * a /\ n * a \in Nat
      BY <3>2
    <3>4. QED
      BY <3>1, <3>3
  <2>3. QED
    BY <2>1, <2>2, EvaluationType
<1>2. Scale \in 0 .. Scale
  BY GateAssumption
<1>3. DOMAIN ScoresOf(e) = Criteria /\ \A k \in Criteria : ScoresOf(e)[k] \in 0 .. Scale
  BY <1>1, <1>2 DEF ScoresOf
<1>4. ScoresOf(e) = [k \in Criteria |-> ScoresOf(e)[k]]
  BY DEF ScoresOf
<1>5. QED
  BY <1>3, <1>4

LEMMA ScoresAreSheets ==
  ASSUME NEW s \in Sheets
  PROVE  IsSheet(s) /\ (s \in Partial \/ \A k \in DOMAIN s : s[k] \in 0 .. Scale)
<1>1. CASE s \in Partial
  BY <1>1, SheetAssumption
<1>2. CASE s \notin Partial
  <2>1. DOMAIN s = Criteria /\ s \in [Criteria -> 0 .. Scale]
    BY <1>2, ScoresAreFractions DEF Sheets
  <2>2. \A k \in Criteria : s[k] \in 0 .. Scale /\ s[k] \in Int
    BY <2>1, GateAssumption
  <2>3. s = [k \in DOMAIN s |-> s[k]]
    BY <2>1
  <2>4. QED
    BY <2>1, <2>2, <2>3 DEF IsSheet
<1>3. QED
  BY <1>1, <1>2

-----------------------------------------------------------------------------
\* What an approval found, and that what is in production gained.
ApprovedGained ==
  Approved => row.hard.passed /\ GainSuffices(weighted_score(row.baseline), weighted_score(row.candidate))

ProductionGained ==
  production = first \/ Better(weighted_score(production), weighted_score(first))

IInv == TypeOK /\ ApprovedGained /\ ProductionGained

LEMMA InitIInv == Init => IInv
<1> SUFFICES ASSUME Init PROVE IInv
  OBVIOUS
<1>1. production \in Partial \/ \A k \in DOMAIN production : production[k] \in 0 .. Scale
  BY ScoresAreSheets DEF Init
<1>2. TypeOK
  BY <1>1 DEF Init, TypeOK
<1>3. ApprovedGained /\ ProductionGained
  BY DEF Init, ApprovedGained, Approved, None, ProductionGained
<1>4. QED
  BY <1>2, <1>3 DEF IInv

\* A promotion that the gate lets through gains, and passes the constraints
\* that were submitted with it.
LEMMA PassingGains ==
  ASSUME NEW b, NEW c, NEW hard, NEW coverage, NEW approve,
         Decide(approve, promotion_gate(b, c, hard, coverage)) = "approve"
  PROVE  hard.passed /\ GainSuffices(weighted_score(b), weighted_score(c))
<1>1. promotion_gate(b, c, hard, coverage) = {}
  BY DEF Decide
<1>2. QED
  BY <1>1 DEF promotion_gate

\* Quotients are ordered transitively, whatever their denominators.
LEMMA BetterIsTransitive ==
  ASSUME NEW a, NEW b, NEW c, a.num \in Int, b.num \in Int, c.num \in Int,
         a.den \in Nat \ {0}, b.den \in Nat \ {0}, c.den \in Nat \ {0},
         Better(a, b), Better(b, c)
  PROVE  Better(a, c)
<1> DEFINE x == a.num * b.den
           y == b.num * a.den
           z == b.num * c.den
           w == c.num * b.den
<1>1. x \in Int /\ y \in Int /\ z \in Int /\ w \in Int /\ x > y /\ z > w
  BY DEF Better
<1>2. \A p, q \in Int, k \in Nat \ {0} : p > q => p * k > q * k
  OBVIOUS
<1> HIDE DEF x, y, z, w
<1>3. x * c.den > y * c.den /\ z * a.den > w * a.den
  BY <1>1, <1>2
<1>4. y * c.den = z * a.den
  BY DEF y, z
<1>5. x * c.den = (a.num * c.den) * b.den /\ w * a.den = (c.num * a.den) * b.den
  BY DEF x, w
<1>6. x * c.den \in Int /\ y * c.den \in Int /\ w * a.den \in Int
  BY <1>1
<1>7. x * c.den > w * a.den
  BY <1>3, <1>4, <1>6
<1>8. (a.num * c.den) * b.den > (c.num * a.den) * b.den
  BY <1>5, <1>7
<1>9. \A p, q \in Int, k \in Nat \ {0} : p * k > q * k => p > q
  OBVIOUS
<1>10. a.num * c.den \in Int /\ c.num * a.den \in Int
  OBVIOUS
<1>11. a.num * c.den > c.num * a.den
  BY <1>8, <1>9, <1>10
<1>12. QED
  BY <1>11 DEF Better

LEMMA PromoteIInv == ASSUME IInv, promote PROVE IInv'
<1>1. PICK candidate \in Sheets, hard \in Hard, coverage \in Coverages, approve \in BOOLEAN :
        LET decision == Decide(approve, promotion_gate(production, candidate, hard, coverage)) IN
          /\ row' = IF decision = "approve"
                      THEN [decision |-> decision, baseline |-> production, candidate |-> candidate,
                            hard |-> hard]
                      ELSE None
          /\ production' = IF decision = "approve" THEN candidate ELSE production
          /\ UNCHANGED first
  BY DEF promote
<1> DEFINE decision == Decide(approve, promotion_gate(production, candidate, hard, coverage))
<1>2. first \in Sheets /\ production \in Sheets
  BY DEF IInv, TypeOK
<1>3. CASE decision = "approve"
  <2>1. /\ row' = [decision |-> "approve", baseline |-> production, candidate |-> candidate,
                   hard |-> hard]
        /\ production' = candidate /\ first' = first
    BY <1>1, <1>3
  <2>2. hard.passed /\ GainSuffices(weighted_score(production), weighted_score(candidate))
    BY <1>3, PassingGains
  <2> HIDE DEF decision
  <2>3. TypeOK'
    <3>1. candidate \in Partial \/ \A k \in DOMAIN candidate : candidate[k] \in 0 .. Scale
      BY ScoresAreSheets
    <3>2. QED
      BY <1>2, <2>1, <3>1 DEF TypeOK
  <2>4. ApprovedGained'
    BY <2>1, <2>2 DEF ApprovedGained, Approved
  <2>5. ProductionGained'
    <3>1. /\ IsSheet(candidate) /\ IsSheet(production) /\ IsSheet(first)
      BY <1>2, ScoresAreSheets
    <3>2. Better(weighted_score(candidate), weighted_score(production))
      BY <2>2, <3>1, ScoreType, GainIsGain
    <3>3. production = first \/ Better(weighted_score(production), weighted_score(first))
      BY DEF IInv, ProductionGained
    <3>4. Better(weighted_score(candidate), weighted_score(first))
      BY <3>1, <3>2, <3>3, ScoreType, BetterIsTransitive
    <3>5. QED
      BY <2>1, <3>4 DEF ProductionGained
  <2>6. QED
    BY <2>3, <2>4, <2>5 DEF IInv
<1>4. CASE decision # "approve"
  <2>1. row' = None /\ production' = production /\ first' = first
    BY <1>1, <1>4
  <2>2. TypeOK'
    BY <1>2, <2>1 DEF IInv, TypeOK
  <2>3. ApprovedGained'
    BY <2>1 DEF ApprovedGained, Approved, None
  <2>4. ProductionGained'
    BY <2>1 DEF IInv, ProductionGained
  <2>5. QED
    BY <2>2, <2>3, <2>4 DEF IInv
<1>5. QED
  BY <1>3, <1>4

LEMMA Invariance == Spec => []IInv
<1>1. Init => IInv
  BY InitIInv
<1>2. IInv /\ [Next]_vars => IInv'
  <2>1. ASSUME IInv, UNCHANGED vars PROVE IInv'
    BY <2>1 DEF vars, IInv, TypeOK, ApprovedGained, Approved, ProductionGained
  <2>2. QED
    BY <2>1, PromoteIInv DEF Next
<1>3. QED
  BY <1>1, <1>2, PTL DEF Spec

-----------------------------------------------------------------------------
\* What the evaluator scored of what is in production is between 0 and 1.
THEOREM GateTypeCorrectness == Spec => []TypeOK
<1>1. IInv => TypeOK
  BY DEF IInv
<1>2. QED
  BY <1>1, Invariance, PTL

\* No candidate that its baseline dominates is approved.
THEOREM NoDominatedIsApproved == Spec => []DominatedIsRejected
<1>1. ASSUME IInv PROVE DominatedIsRejected
  <2> SUFFICES ASSUME Approved, DOMAIN row.candidate = DOMAIN row.baseline,
                      pareto_dominates(row.baseline, row.candidate)
               PROVE  FALSE
    BY DEF DominatedIsRejected
  <2>1. row.baseline \in Sheets /\ row.candidate \in Sheets
    BY <1>1 DEF IInv, TypeOK, Approved, None
  <2>2. IsSheet(row.baseline) /\ IsSheet(row.candidate)
    BY <2>1, ScoresAreSheets
  <2>3. GainSuffices(weighted_score(row.baseline), weighted_score(row.candidate))
    BY <1>1 DEF IInv, ApprovedGained
  <2>4. \E k \in DOMAIN row.candidate : ~(row.baseline[k] >= row.candidate[k])
    BY <2>2, <2>3, GainIsSomewhere
  <2>5. QED
    BY <2>4 DEF pareto_dominates
<1>2. QED
  BY <1>1, Invariance, PTL

\* No series of promotions ends where it began or below, whatever criteria the
\* sheets have.
THEOREM PromotionsGain == Spec => []NoReturn
<1>1. IInv => NoReturn
  BY DEF IInv, ProductionGained, NoReturn
<1>2. QED
  BY <1>1, Invariance, PTL

-----------------------------------------------------------------------------
\* Fewer repetitions per answer are a higher quality, fewer ungrounded answers
\* a better grounding.
LEMMA RatesDecide ==
  ASSUME NEW a \in Nat \ {0}, NEW b \in Nat \ {0}, NEW m \in Nat \ {0}, NEW n \in Nat \ {0},
         a * m = b * n, NEW x \in Nat, NEW y \in Nat, ~(x * b < y * a)
  PROVE  m * x >= n * y
<1>1. x * b >= y * a
  OBVIOUS
<1>2. (a * m) * (x * b) >= (a * m) * (y * a)
  <2>1. \A p, q, k \in Nat : p >= q => k * p >= k * q
    OBVIOUS
  <2>2. a * m \in Nat /\ x * b \in Nat /\ y * a \in Nat
    OBVIOUS
  <2>3. QED
    BY <1>1, <2>1, <2>2
<1>3. (a * m) * (x * b) = (a * b) * (m * x)
  OBVIOUS
<1>4. (a * m) * (y * a) = (a * b) * (n * y)
  <2>1. (b * n) * (y * a) = (a * b) * (n * y)
    OBVIOUS
  <2>2. QED
    BY <2>1
<1>5. (a * b) * (m * x) >= (a * b) * (n * y)
  BY <1>2, <1>3, <1>4
<1>6. a * b \in Nat /\ a * b > 0 /\ m * x \in Nat /\ n * y \in Nat
  OBVIOUS
<1>7. \A k, p, q \in Nat : k > 0 /\ k * p >= k * q => p >= q
  OBVIOUS
<1>8. QED
  BY <1>5, <1>6, <1>7

\* With the sheets and constraints of the evaluator, what is promoted did answer,
\* is grounded, and repeats itself less or is better grounded.
THEOREM PromotionsAreEarned == Spec => []PromotionIsEarned
<1>1. ASSUME IInv PROVE PromotionIsEarned
  <2> SUFFICES ASSUME Approved, NEW e \in Evaluations, NEW d \in Evaluations,
                      ScoresOf(e) = row.candidate, ScoresOf(d) = row.baseline, HardOf(e) = row.hard
               PROVE  /\ e.answers > 0 /\ 10 * e.ungrounded <= 4 * e.answers
                      /\ d.answers > 0 => \/ e.repeated * d.answers < d.repeated * e.answers
                                          \/ e.ungrounded * d.answers < d.ungrounded * e.answers
    BY DEF PromotionIsEarned
  <2>1. row.hard.passed /\ GainSuffices(weighted_score(row.baseline), weighted_score(row.candidate))
    BY <1>1 DEF IInv, ApprovedGained
  <2>2. GroundingOf(e) >= RequiredGrounding
    <3>1. HardOf(e).passed
      BY <2>1
    <3>2. HardOf(e).passed = (GroundingOf(e) >= RequiredGrounding)
      BY Zenon DEF HardOf
    <3>3. QED
      BY <3>1, <3>2
  <2>3. PICK t \in Nat \ {0} : Scale = 10 * t /\ RequiredGrounding = 9 * t
    <3>1. Scale \div 10 \in Nat \ {0} /\ Scale = 10 * (Scale \div 10)
      BY GateAssumption
    <3>2. QED
      BY <3>1 DEF RequiredGrounding
  <2>4. /\ e.answers \in Nat /\ e.repeated \in Nat /\ e.ungrounded \in Nat
        /\ d.answers \in Nat /\ d.repeated \in Nat /\ d.ungrounded \in Nat
    BY EvaluationType
  <2>5. e.answers > 0
    <3>1. GroundingOf(e) # 0
      BY <2>2, <2>3
    <3>2. QED
      BY <2>4, <3>1 DEF GroundingOf
  <2>6. PICK n \in Nat \ {0} : /\ Scale = 4 * (e.answers * n)
                               /\ GroundingOf(e) = n * (4 * e.answers - e.ungrounded)
                               /\ QualityOf(e) = 4 * (n * (e.answers - e.repeated))
    BY <2>5, WholeScores
  <2>7. 10 * e.ungrounded <= 4 * e.answers
    <3> DEFINE a == e.answers
               u == e.ungrounded
    <3>1. a \in Nat /\ u \in Nat
      BY <2>4
    <3>2. n * (4 * a - u) >= 9 * t /\ 10 * t = 4 * (a * n)
      BY <2>2, <2>3, <2>6
    <3> HIDE DEF a, u
    <3>3. n * (4 * a - u) = 4 * (a * n) - n * u
      BY <3>1
    <3>4. n * (10 * u) = 10 * (n * u) /\ n * (4 * a) = 4 * (a * n) /\ n * u \in Nat /\ a * n \in Nat
      BY <3>1
    <3>5. n * (10 * u) <= n * (4 * a)
      BY <3>2, <3>3, <3>4
    <3>6. \A p, q \in Nat : n * p <= n * q => p <= q
      OBVIOUS
    <3>7. 10 * u <= 4 * a
      BY <3>1, <3>5, <3>6
    <3>8. QED
      BY <3>7 DEF a, u
  <2>8. ASSUME d.answers > 0,
               ~(e.repeated * d.answers < d.repeated * e.answers),
               ~(e.ungrounded * d.answers < d.ungrounded * e.answers)
        PROVE  FALSE
    <3>1. PICK m \in Nat \ {0} : /\ Scale = 4 * (d.answers * m)
                                 /\ GroundingOf(d) = m * (4 * d.answers - d.ungrounded)
                                 /\ QualityOf(d) = 4 * (m * (d.answers - d.repeated))
      BY <2>8, WholeScores
    <3>2. e.answers * n = d.answers * m
      <4>1. e.answers * n \in Nat /\ d.answers * m \in Nat
        BY <2>4
      <4>2. 4 * (e.answers * n) = 4 * (d.answers * m)
        BY <2>6, <3>1
      <4>3. QED
        BY <4>1, <4>2
    <3>3. n * e.repeated >= m * d.repeated /\ n * e.ungrounded >= m * d.ungrounded
      BY <2>4, <2>5, <2>8, <3>2, RatesDecide
    <3>4. GroundingOf(d) >= GroundingOf(e)
      <4>1. GroundingOf(e) = 4 * (e.answers * n) - n * e.ungrounded
        BY <2>4, <2>6
      <4>2. GroundingOf(d) = 4 * (d.answers * m) - m * d.ungrounded
        BY <2>4, <3>1
      <4>3. n * e.ungrounded \in Nat /\ m * d.ungrounded \in Nat /\ e.answers * n \in Nat
        BY <2>4
      <4>4. QED
        BY <3>2, <3>3, <4>1, <4>2, <4>3
    <3>5. QualityOf(d) >= QualityOf(e)
      <4>1. QualityOf(e) = 4 * (e.answers * n) - 4 * (n * e.repeated)
        BY <2>4, <2>6
      <4>2. QualityOf(d) = 4 * (d.answers * m) - 4 * (m * d.repeated)
        BY <2>4, <3>1
      <4>3. n * e.repeated \in Nat /\ m * d.repeated \in Nat /\ e.answers * n \in Nat
        BY <2>4
      <4>4. QED
        BY <3>2, <3>3, <4>1, <4>2, <4>3
    <3>6. /\ DOMAIN ScoresOf(e) = Criteria /\ DOMAIN ScoresOf(d) = Criteria
          /\ \A k \in Criteria : ScoresOf(d)[k] >= ScoresOf(e)[k]
      BY <3>4, <3>5, GateAssumption DEF ScoresOf
    <3>7. IsSheet(ScoresOf(e)) /\ IsSheet(ScoresOf(d))
      BY ScoresAreSheets DEF Sheets
    <3>8. \E k \in DOMAIN ScoresOf(e) : ~(ScoresOf(d)[k] >= ScoresOf(e)[k])
      BY <2>1, <3>6, <3>7, GainIsSomewhere
    <3>9. QED
      BY <3>6, <3>8
  <2>9. QED
    BY <2>5, <2>7, <2>8
<1>2. QED
  BY <1>1, Invariance, PTL

-----------------------------------------------------------------------------
(***************************************************************************)
(* exact_replay and the route replay.                                      *)
(***************************************************************************)
\* Induction over a set of numbers.
LEMMA AllNumbers ==
  ASSUME NEW S \in SUBSET Nat, 0 \in S, \A n \in S : n + 1 \in S
  PROVE  S = Nat
<1> DEFINE Missing == Nat \ S
           R == OpToRel(<, Nat)
<1>1. SUFFICES ASSUME Missing # {} PROVE FALSE
  OBVIOUS
<1>2. PICK n \in Missing : \A m \in Missing : <<m, n>> \notin R
  BY <1>1, NatLessThanWellFounded, WFMin
<1>3. n # 0 /\ n - 1 \in Nat /\ n - 1 < n
  OBVIOUS
<1>4. <<n - 1, n>> \in R
  BY <1>3 DEF OpToRel
<1>5. n - 1 \in S
  BY <1>2, <1>3, <1>4
<1>6. n \in S
  BY <1>3, <1>5
<1>7. QED
  BY <1>6

-----------------------------------------------------------------------------
\* What exact_replay keeps of the first i events.
KeptAt(F, ev, i) ==
  IF i = 0 THEN <<>>
  ELSE IF Observed(ev[i]) THEN Append(F[i - 1], ev[i]) ELSE F[i - 1]

IsKept(F, ev) == F = [i \in 0 .. Len(ev) |-> KeptAt(F, ev, i)]

LEMMA KeptExists == ASSUME NEW ev, Len(ev) \in Nat PROVE \E F : IsKept(F, ev)
<1> DEFINE L == Len(ev)
           A(n, F) == F = [i \in 0 .. n |-> KeptAt(F, ev, i)]
           S == {n \in Nat : \E F : A(n, F)}
<1>1. 0 \in S
  <2> DEFINE F == [i \in 0 .. 0 |-> <<>>]
  <2>1. F = [i \in 0 .. 0 |-> KeptAt(F, ev, i)]
    BY DEF KeptAt
  <2>2. QED
    BY <2>1
<1>2. ASSUME NEW n \in S PROVE n + 1 \in S
  <2>1. n \in Nat /\ \E F : A(n, F)
    OBVIOUS
  <2>2. PICK F : A(n, F)
    BY <2>1
  <2> DEFINE G == [i \in 0 .. n + 1 |-> IF i = n + 1 THEN KeptAt(F, ev, n + 1) ELSE F[i]]
  <2>3. \A i \in 0 .. n : F[i] = KeptAt(F, ev, i)
    BY <2>2
  <2>4. /\ \A i \in 0 .. n : G[i] = F[i]
        /\ G[n + 1] = KeptAt(F, ev, n + 1)
        /\ G = [i \in 0 .. n + 1 |-> G[i]]
    BY <2>1
  <2> HIDE DEF G, A, S
  <2>5. ASSUME NEW i \in 0 .. n + 1 PROVE G[i] = KeptAt(G, ev, i)
    <3>1. G[i] = KeptAt(F, ev, i)
      <4>1. CASE i = n + 1
        BY <2>4, <4>1
      <4>2. CASE i # n + 1
        <5>1. i \in 0 .. n
          BY <2>1, <4>2
        <5>2. QED
          BY <5>1, <2>3, <2>4
      <4>3. QED
        BY <4>1, <4>2
    <3>2. i # 0 => G[i - 1] = F[i - 1]
      <4>1. i # 0 => i - 1 \in 0 .. n
        BY <2>1
      <4>2. QED
        BY <4>1, <2>4
    <3>3. KeptAt(G, ev, i) = KeptAt(F, ev, i)
      BY <3>2 DEF KeptAt
    <3>4. QED
      BY <3>1, <3>3
  <2>6. G = [i \in 0 .. n + 1 |-> KeptAt(G, ev, i)]
    BY <2>4, <2>5
  <2>7. A(n + 1, G)
    BY <2>6 DEF A
  <2>8. n + 1 \in Nat
    BY <2>1
  <2>9. QED
    BY <2>7, <2>8 DEF S
<1> HIDE DEF S
<1>3. S = Nat
  <2>1. S \in SUBSET Nat
    BY DEF S
  <2>2. QED
    BY <1>1, <1>2, <2>1, AllNumbers
<1>4. L \in S
  BY <1>3
<1>5. QED
  BY <1>4 DEF S, IsKept

LEMMA ReplayKeeps ==
  ASSUME NEW ev, Len(ev) \in Nat
  PROVE  \E F : IsKept(F, ev) /\ exact_replay(ev) = F[Len(ev)]
<1> DEFINE A(F) == F = [i \in 0 .. Len(ev) |->
                          IF i = 0 THEN <<>>
                          ELSE IF Observed(ev[i]) THEN Append(F[i - 1], ev[i]) ELSE F[i - 1]]
           c == CHOOSE F : A(F)
<1>1. \A F : A(F) <=> IsKept(F, ev)
  BY DEF IsKept, KeptAt
<1>2. exact_replay(ev) = c[Len(ev)]
  BY DEF exact_replay
<1> HIDE DEF A
<1>3. \E F : IsKept(F, ev)
  BY KeptExists
<1>4. A(c)
  BY <1>1, <1>3
<1> HIDE DEF c
<1>5. QED
  BY <1>1, <1>2, <1>4

-----------------------------------------------------------------------------
\* What is kept are the observed events, in the order of their numbers.
Numbered(ev) == \A i \in DOMAIN ev : ev[i].sequence_no = i

Kept(e, ev, n) ==
  /\ e \in Seq(Event)
  /\ {e[i] : i \in DOMAIN e} = {ev[i] : i \in {i \in 1 .. n : Observed(ev[i])}}
  /\ \A i, j \in DOMAIN e : i < j => e[i].sequence_no < e[j].sequence_no

LEMMA KeepOne ==
  ASSUME NEW ev \in Seq(Event), Numbered(ev), NEW n \in Nat, n + 1 <= Len(ev),
         NEW e, Kept(e, ev, n), Observed(ev[n + 1])
  PROVE  Kept(Append(e, ev[n + 1]), ev, n + 1)
<1> DEFINE x == ev[n + 1]
           d == Append(e, x)
<1>1. /\ n + 1 \in DOMAIN ev /\ x \in Event /\ x.sequence_no = n + 1
      /\ \A i \in 1 .. n : i \in DOMAIN ev /\ ev[i].sequence_no = i
  BY DEF Numbered
<1>2. /\ e \in Seq(Event) /\ DOMAIN e = 1 .. Len(e) /\ Len(e) \in Nat
      /\ {e[i] : i \in DOMAIN e} = {ev[i] : i \in {i \in 1 .. n : Observed(ev[i])}}
      /\ \A i, j \in DOMAIN e : i < j => e[i].sequence_no < e[j].sequence_no
  <2>1. e \in Seq(Event)
    BY DEF Kept
  <2>2. DOMAIN e = 1 .. Len(e) /\ Len(e) \in Nat
    BY <2>1
  <2>3. {e[i] : i \in DOMAIN e} = {ev[i] : i \in {i \in 1 .. n : Observed(ev[i])}}
    BY Zenon DEF Kept
  <2>4. \A i, j \in DOMAIN e : i < j => e[i].sequence_no < e[j].sequence_no
    BY Zenon DEF Kept
  <2>5. QED
    BY <2>1, <2>2, <2>3, <2>4
<1>3. /\ d \in Seq(Event) /\ DOMAIN d = 1 .. Len(e) + 1 /\ d[Len(e) + 1] = x
      /\ \A i \in DOMAIN e : d[i] = e[i]
  BY <1>1, <1>2
<1>4. Observed(x)
  OBVIOUS
<1>5. \A i \in DOMAIN e : e[i].sequence_no \in Nat /\ e[i].sequence_no <= n
  <2>1. SUFFICES ASSUME NEW i \in DOMAIN e PROVE e[i].sequence_no \in 1 .. n
    BY <1>1
  <2>2. e[i] \in {ev[k] : k \in {k \in 1 .. n : Observed(ev[k])}}
    BY <1>2
  <2>3. PICK k \in 1 .. n : e[i] = ev[k]
    BY <2>2
  <2>4. QED
    BY <1>1, <2>3
<1> HIDE DEF x, d
<1>6. {d[i] : i \in DOMAIN d} = {e[i] : i \in DOMAIN e} \cup {x}
  <2>1. DOMAIN d = DOMAIN e \cup {Len(e) + 1} /\ Len(e) + 1 \notin DOMAIN e
    BY <1>2, <1>3
  <2>2. QED
    BY <2>1, <1>3
<1>7. {ev[i] : i \in {i \in 1 .. n + 1 : Observed(ev[i])}} =
        {ev[i] : i \in {i \in 1 .. n : Observed(ev[i])}} \cup {x}
  <2>1. 1 .. n + 1 = (1 .. n) \cup {n + 1}
    OBVIOUS
  <2>2. {i \in 1 .. n + 1 : Observed(ev[i])} = {i \in 1 .. n : Observed(ev[i])} \cup {n + 1}
    BY <2>1, <1>4 DEF x
  <2>3. QED
    BY <2>2 DEF x
<1>8. ASSUME NEW i \in DOMAIN d, NEW j \in DOMAIN d, i < j
      PROVE  d[i].sequence_no < d[j].sequence_no
  <2>1. i \in DOMAIN e
    BY <1>2, <1>3, <1>8
  <2>2. CASE j \in DOMAIN e
    BY <2>1, <2>2, <1>2, <1>3, <1>8
  <2>3. CASE j = Len(e) + 1
    BY <2>1, <2>3, <1>1, <1>3, <1>5
  <2>4. QED
    BY <2>2, <2>3, <1>2, <1>3
<1>9. Kept(d, ev, n + 1)
  BY <1>2, <1>3, <1>6, <1>7, <1>8 DEF Kept
<1>10. QED
  BY <1>9 DEF d, x

LEMMA DropOne ==
  ASSUME NEW ev, NEW n \in Nat, NEW e, Kept(e, ev, n), ~Observed(ev[n + 1])
  PROVE  Kept(e, ev, n + 1)
<1>1. 1 .. n + 1 = (1 .. n) \cup {n + 1}
  OBVIOUS
<1>2. {i \in 1 .. n + 1 : Observed(ev[i])} = {i \in 1 .. n : Observed(ev[i])}
  BY <1>1
<1>3. QED
  BY <1>2 DEF Kept

LEMMA ReplayIsObserved ==
  ASSUME NEW ev \in Seq(Event), Numbered(ev)
  PROVE  exact_replay(ev) \in Seq(Event) /\ IsObservedPart(exact_replay(ev), ev)
<1> DEFINE L == Len(ev)
<1>1. L \in Nat /\ DOMAIN ev = 1 .. L
  OBVIOUS
<1>2. PICK F : IsKept(F, ev) /\ exact_replay(ev) = F[L]
  BY <1>1, ReplayKeeps
<1>3. \A i \in 0 .. L : F[i] = KeptAt(F, ev, i)
  BY <1>2 DEF IsKept
<1> DEFINE S == {n \in Nat : n <= L => Kept(F[n], ev, n)}
<1>4. 0 \in S
  <2>1. F[0] = <<>>
    BY <1>1, <1>3 DEF KeptAt
  <2>2. 1 .. 0 = {} /\ DOMAIN <<>> = {} /\ <<>> \in Seq(Event)
    OBVIOUS
  <2>3. Kept(<<>>, ev, 0)
    BY <2>2 DEF Kept
  <2>4. QED
    BY <2>1, <2>3
<1>5. ASSUME NEW n \in S PROVE n + 1 \in S
  <2>1. n \in Nat
    OBVIOUS
  <2>2. SUFFICES ASSUME n + 1 <= L PROVE Kept(F[n + 1], ev, n + 1)
    BY <2>1
  <2>3. Kept(F[n], ev, n)
    BY <1>1, <2>1, <2>2
  <2>4. /\ n + 1 \in 0 .. L /\ n + 1 # 0 /\ (n + 1) - 1 = n
    BY <1>1, <2>1, <2>2
  <2>5. F[n + 1] = IF Observed(ev[n + 1]) THEN Append(F[n], ev[n + 1]) ELSE F[n]
    BY <1>3, <2>4 DEF KeptAt
  <2> HIDE DEF S
  <2>6. CASE Observed(ev[n + 1])
    BY <2>1, <2>2, <2>3, <2>5, <2>6, KeepOne
  <2>7. CASE ~Observed(ev[n + 1])
    BY <2>1, <2>3, <2>5, <2>7, DropOne
  <2>8. QED
    BY <2>6, <2>7
<1>6. S = Nat
  <2>1. S \in SUBSET Nat
    OBVIOUS
  <2> HIDE DEF S
  <2>2. QED
    BY <1>4, <1>5, <2>1, AllNumbers
<1>7. Kept(F[L], ev, L)
  BY <1>1, <1>6
<1>8. QED
  BY <1>1, <1>2, <1>7 DEF Kept, IsObservedPart

-----------------------------------------------------------------------------
\* Counting answers.
AnswersIn(ev) == {i \in DOMAIN ev : ev[i].event_type = "message.sent"}

LEMMA AnswersAre ==
  ASSUME NEW ev \in Seq(Event)
  PROVE  IsFiniteSet(AnswersIn(ev)) /\ Answers(ev) = Cardinality(AnswersIn(ev)) /\ Answers(ev) \in Nat
<1>1. DOMAIN ev = 1 .. Len(ev) /\ Len(ev) \in Nat
  OBVIOUS
<1>2. IsFiniteSet(DOMAIN ev)
  BY <1>1, FS_Interval
<1>3. AnswersIn(ev) \subseteq DOMAIN ev
  BY DEF AnswersIn
<1>4. IsFiniteSet(AnswersIn(ev)) /\ Cardinality(AnswersIn(ev)) \in Nat
  BY <1>2, <1>3, FS_Subset, FS_CardinalityType
<1>5. Answers(ev) = Cardinality(AnswersIn(ev))
  BY DEF Answers, AnswersIn
<1>6. QED
  BY <1>4, <1>5

\* A replay has no more answers than what it replays.
LEMMA AnswersKept ==
  ASSUME NEW ev \in Seq(Event), Numbered(ev),
         NEW e \in Seq(Event), IsObservedPart(e, ev)
  PROVE  Answers(e) <= Answers(ev)
<1> DEFINE f == [i \in AnswersIn(e) |-> e[i].sequence_no]
<1>1. \A i \in DOMAIN e : \E k \in DOMAIN ev : e[i] = ev[k]
  <2>1. {e[i] : i \in DOMAIN e} = {ev[i] : i \in {i \in DOMAIN ev : Observed(ev[i])}}
    BY Zenon DEF IsObservedPart
  <2>2. QED
    BY <2>1
<1>2. \A i \in DOMAIN e : e[i].sequence_no \in DOMAIN ev /\ ev[e[i].sequence_no] = e[i]
  BY <1>1 DEF Numbered
<1>3. f \in [AnswersIn(e) -> AnswersIn(ev)]
  BY <1>2 DEF AnswersIn
<1>4. \A i, j \in DOMAIN e : i < j => e[i].sequence_no < e[j].sequence_no
  BY Zenon DEF IsObservedPart
<1>5. \A i, j \in AnswersIn(e) : f[i] = f[j] => i = j
  <2>1. SUFFICES ASSUME NEW i \in AnswersIn(e), NEW j \in AnswersIn(e), i # j PROVE f[i] # f[j]
    OBVIOUS
  <2>2. /\ i \in DOMAIN e /\ j \in DOMAIN e /\ i \in Nat /\ j \in Nat
        /\ f[i] = e[i].sequence_no /\ f[j] = e[j].sequence_no
    BY DEF AnswersIn
  <2>3. e[i].sequence_no \in Nat /\ e[j].sequence_no \in Nat
    BY <1>2, <2>2
  <2>4. i < j \/ j < i
    BY <2>1, <2>2
  <2>5. QED
    BY <1>4, <2>2, <2>3, <2>4
<1>6. f \in Injection(AnswersIn(e), AnswersIn(ev))
  BY <1>3, <1>5 DEF Injection, IsInjective
<1>7. QED
  BY <1>6, FS_Injection, AnswersAre

\* A beginning of the rows has no more answers than all of them, and the rows
\* of a batch add one at most, the last.
Begins(e, ev) == Len(e) <= Len(ev) /\ \A i \in 1 .. Len(e) : ev[i] = e[i]

LEMMA BeginningCounts ==
  ASSUME NEW ev \in Seq(Event), NEW e \in Seq(Event), Begins(e, ev)
  PROVE  /\ Answers(e) <= Answers(ev)
         /\ (\A i \in Len(e) + 1 .. Len(ev) : ev[i].event_type # "message.sent")
              => Answers(ev) = Answers(e)
         /\ (\A i \in Len(e) + 1 .. Len(ev) - 1 : ev[i].event_type # "message.sent")
              => Answers(ev) <= Answers(e) + 1
<1>1. /\ DOMAIN ev = 1 .. Len(ev) /\ Len(ev) \in Nat
      /\ DOMAIN e = 1 .. Len(e) /\ Len(e) \in Nat
  OBVIOUS
<1>2. AnswersIn(e) \subseteq AnswersIn(ev)
  BY <1>1 DEF AnswersIn, Begins
<1>3. Answers(e) <= Answers(ev)
  BY <1>2, AnswersAre, FS_Subset
<1>4. ASSUME \A i \in Len(e) + 1 .. Len(ev) : ev[i].event_type # "message.sent"
      PROVE  Answers(ev) = Answers(e)
  <2>1. AnswersIn(ev) = AnswersIn(e)
    BY <1>1, <1>4 DEF AnswersIn, Begins
  <2>2. QED
    BY <2>1, AnswersAre
<1>5. ASSUME \A i \in Len(e) + 1 .. Len(ev) - 1 : ev[i].event_type # "message.sent"
      PROVE  Answers(ev) <= Answers(e) + 1
  <2>1. AnswersIn(ev) \subseteq AnswersIn(e) \cup {Len(ev)}
    BY <1>1, <1>5 DEF AnswersIn, Begins
  <2>2. /\ IsFiniteSet(AnswersIn(e) \cup {Len(ev)})
        /\ Cardinality(AnswersIn(e) \cup {Len(ev)}) <= Cardinality(AnswersIn(e)) + 1
    <3>1. IsFiniteSet(AnswersIn(e)) /\ Cardinality(AnswersIn(e)) \in Nat
      BY AnswersAre, FS_CardinalityType
    <3>2. /\ IsFiniteSet(AnswersIn(e) \cup {Len(ev)})
          /\ Cardinality(AnswersIn(e) \cup {Len(ev)}) =
               IF Len(ev) \in AnswersIn(e) THEN Cardinality(AnswersIn(e))
               ELSE Cardinality(AnswersIn(e)) + 1
      BY <3>1, FS_AddElement, Zenon
    <3>3. QED
      BY <3>1, <3>2
  <2>3. Cardinality(AnswersIn(ev)) <= Cardinality(AnswersIn(e) \cup {Len(ev)})
    BY <2>1, <2>2, FS_Subset
  <2>4. /\ Answers(ev) = Cardinality(AnswersIn(ev)) /\ Answers(e) = Cardinality(AnswersIn(e))
        /\ Answers(ev) \in Nat /\ Answers(e) \in Nat
    BY AnswersAre
  <2>5. Cardinality(AnswersIn(e) \cup {Len(ev)}) \in Nat
    BY <2>2, FS_CardinalityType
  <2>6. QED
    BY <2>2, <2>3, <2>4, <2>5
<1>6. QED
  BY <1>3, <1>4, <1>5

-----------------------------------------------------------------------------
\* The batches.
Shapes == {Log!Started, Log!Blocked, Log!Plain, Log!Grounded, Log!Finished}

Answering(shape) == shape \in {Log!Plain, Log!Grounded}

LEMMA ShapesAre ==
  ASSUME NEW shape \in Shapes
  PROVE  /\ shape \in Seq(Types) /\ Len(shape) \in Nat /\ Len(shape) >= 1
         /\ shape[Len(shape)] \in Last
         /\ \A i \in 1 .. Len(shape) - 1 : shape[i] # "message.sent"
         /\ ~Answering(shape) => shape[Len(shape)] # "message.sent"
<1> USE DEF Types, Last, Answering
<1>1. CASE shape = Log!Started
  BY <1>1 DEF Log!Started
<1>2. CASE shape = Log!Blocked
  BY <1>2 DEF Log!Blocked
<1>3. CASE shape = Log!Plain
  BY <1>3 DEF Log!Plain
<1>4. CASE shape = Log!Grounded
  BY <1>4 DEF Log!Grounded
<1>5. CASE shape = Log!Finished
  BY <1>5 DEF Log!Finished
<1>6. QED
  BY <1>1, <1>2, <1>3, <1>4, <1>5 DEF Shapes

\* b are the rows of a batch after n others; d is ev and such a batch.
IsBatch(b, n, shape) ==
  /\ b \in Seq(Event) /\ Len(b) = Len(shape)
  /\ \A i \in 1 .. Len(shape) : b[i].sequence_no = n + i /\ b[i].event_type = shape[i]

Appended(d, ev, shape) ==
  /\ d \in Seq(Event) /\ Numbered(d) /\ Begins(ev, d)
  /\ Len(d) = Len(ev) + Len(shape) /\ d # <<>>
  /\ \A i \in 1 .. Len(ev) : d[i] = ev[i]
  /\ \A i \in 1 .. Len(shape) : /\ d[Len(ev) + i].sequence_no = Len(ev) + i
                                /\ d[Len(ev) + i].event_type = shape[i]
  /\ d[Len(d)].event_type \in Last
  /\ Answers(d) <= Answers(ev) + 1
  /\ ~Answering(shape) => Answers(d) = Answers(ev)

LEMMA BatchRows ==
  ASSUME NEW n \in Nat, NEW shape \in Shapes, NEW label \in SourceKinds,
         NEW b, b = [i \in DOMAIN shape |-> [sequence_no |-> n + i, event_type |-> shape[i],
                                             source_kind |-> label]]
  PROVE  IsBatch(b, n, shape)
<1>1. shape \in Seq(Types) /\ DOMAIN shape = 1 .. Len(shape) /\ Len(shape) \in Nat
  BY ShapesAre
<1>2. b = [i \in 1 .. Len(shape) |-> [sequence_no |-> n + i, event_type |-> shape[i],
                                      source_kind |-> label]]
  BY <1>1
<1>3. \A i \in 1 .. Len(shape) : b[i] \in Event
  BY <1>1, <1>2 DEF Event
<1>4. QED
  BY <1>1, <1>2, <1>3 DEF IsBatch

LEMMA BatchIs ==
  ASSUME NEW ev \in Seq(Event), Numbered(ev), NEW shape \in Shapes,
         NEW b, IsBatch(b, Len(ev), shape), NEW d, d = ev \o b
  PROVE  Appended(d, ev, shape)
<1>0. /\ b \in Seq(Event) /\ Len(b) = Len(shape)
      /\ \A i \in 1 .. Len(shape) : b[i].sequence_no = Len(ev) + i /\ b[i].event_type = shape[i]
  BY DEF IsBatch
<1>1. /\ shape \in Seq(Types) /\ DOMAIN shape = 1 .. Len(shape) /\ Len(shape) \in Nat
      /\ Len(shape) >= 1 /\ Len(ev) \in Nat /\ DOMAIN ev = 1 .. Len(ev)
  BY ShapesAre
<1>6. /\ d \in Seq(Event) /\ Len(d) = Len(ev) + Len(shape)
      /\ DOMAIN d = 1 .. Len(ev) + Len(shape)
      /\ \A i \in 1 .. Len(ev) : d[i] = ev[i]
      /\ \A i \in 1 .. Len(shape) : d[Len(ev) + i] = b[i]
  <2>1. d \in Seq(Event) /\ Len(d) = Len(ev) + Len(shape)
    <3>1. ev \o b \in Seq(Event)
      BY <1>0, ConcatProperties
    <3>2. Len(ev \o b) = Len(ev) + Len(b)
      BY <1>0, ConcatProperties
    <3>3. QED
      BY <1>0, <3>1, <3>2, Zenon
  <2>2. DOMAIN d = 1 .. Len(ev) + Len(shape)
    BY <2>1
  <2>3. \A i \in 1 .. Len(ev) + Len(shape) :
          d[i] = IF i <= Len(ev) THEN ev[i] ELSE b[i - Len(ev)]
    BY <1>0, ConcatProperties
  <2>4. \A i \in 1 .. Len(ev) : d[i] = ev[i]
    BY <1>1, <2>3
  <2>5. ASSUME NEW i \in 1 .. Len(shape) PROVE d[Len(ev) + i] = b[i]
    <3>1. /\ Len(ev) + i \in 1 .. Len(ev) + Len(shape) /\ ~(Len(ev) + i <= Len(ev))
          /\ (Len(ev) + i) - Len(ev) = i
      BY <1>1
    <3>2. QED
      BY <2>3, <3>1
  <2>6. QED
    BY <2>1, <2>2, <2>4, <2>5
<1>7. \A i \in 1 .. Len(shape) : /\ d[Len(ev) + i].sequence_no = Len(ev) + i
                                 /\ d[Len(ev) + i].event_type = shape[i]
  BY <1>0, <1>6
<1>8. \A i \in Len(ev) + 1 .. Len(d) : /\ i - Len(ev) \in 1 .. Len(shape)
                                       /\ i = Len(ev) + (i - Len(ev))
  BY <1>1, <1>6
<1>9. Numbered(d)
  <2>1. SUFFICES ASSUME NEW i \in DOMAIN d PROVE d[i].sequence_no = i
    BY DEF Numbered
  <2>2. CASE i <= Len(ev)
    BY <1>1, <1>6, <2>2 DEF Numbered
  <2>3. CASE i > Len(ev)
    <3>1. i \in Len(ev) + 1 .. Len(d)
      BY <1>1, <1>6, <2>3
    <3>2. QED
      BY <1>7, <1>8, <3>1
  <2>4. QED
    BY <1>1, <1>6, <2>2, <2>3
<1>10. Begins(ev, d) /\ d # <<>>
  BY <1>1, <1>6 DEF Begins
<1>11. d[Len(d)].event_type \in Last
  BY <1>1, <1>6, <1>7, ShapesAre
<1>12. Answers(d) <= Answers(ev) + 1
  <2>1. ASSUME NEW i \in Len(ev) + 1 .. Len(d) - 1 PROVE d[i].event_type # "message.sent"
    <3>1. i \in Len(ev) + 1 .. Len(d) /\ i - Len(ev) \in 1 .. Len(shape) - 1
      BY <1>1, <1>6
    <3>2. d[i].event_type = shape[i - Len(ev)]
      BY <1>7, <1>8, <3>1
    <3>3. QED
      BY <3>1, <3>2, ShapesAre
  <2>2. QED
    BY <1>6, <1>10, <2>1, BeginningCounts
<1>13. ASSUME ~Answering(shape) PROVE Answers(d) = Answers(ev)
  <2>1. ASSUME NEW i \in Len(ev) + 1 .. Len(d) PROVE d[i].event_type # "message.sent"
    <3>1. i - Len(ev) \in 1 .. Len(shape) /\ d[i].event_type = shape[i - Len(ev)]
      BY <1>7, <1>8
    <3>2. i - Len(ev) \in 1 .. Len(shape) - 1 \/ i - Len(ev) = Len(shape)
      <4>1. \A n \in Nat : \A k \in 1 .. n : k \in 1 .. n - 1 \/ k = n
        OBVIOUS
      <4>2. QED
        BY <4>1, <3>1, <1>1, Zenon
    <3>3. QED
      BY <1>13, <3>1, <3>2, ShapesAre
  <2>2. QED
    BY <1>6, <1>10, <2>1, BeginningCounts
<1>14. QED
  BY <1>6, <1>7, <1>9, <1>10, <1>11, <1>12, <1>13 DEF Appended

-----------------------------------------------------------------------------
\* The inductive invariant.  The rows of a conversation carry their places as
\* numbers, end a batch and have no more answers than are counted; what a
\* replay read is a beginning of the rows that had that form too, and its
\* counts lie between the answers it read and what is counted now.
Finished(ev) == ev # <<>> => ev[Len(ev)].event_type \in Last

LogIInv ==
  \A c \in Conversations : /\ Numbered(log[c]) /\ Finished(log[c])
                           /\ Answers(log[c]) <= usage[c]

ReplayedIInv(r) ==
  /\ pc[r] # "idle" =>
       /\ tgt[r] \in Conversations
       /\ Numbered(rows[r]) /\ Finished(rows[r]) /\ rows[r] # <<>>
       /\ Begins(rows[r], log[tgt[r]])
       /\ Answers(rows[r]) <= usage[tgt[r]]
  /\ pc[r] \in {"after", "ok"} =>
       Answers(rows[r]) <= before[r] /\ before[r] <= usage[tgt[r]]
  /\ pc[r] = "ok" =>
       /\ result[r].events = exact_replay(rows[r])
       /\ 0 <= result[r].usage_ledger_delta
       /\ before[r] + result[r].usage_ledger_delta <= usage[tgt[r]]

ReplayIInv == ReplayTypeOK /\ LogIInv /\ \A r \in Requests : ReplayedIInv(r)

LEMMA ReplayInitIInv == ReplayInit => ReplayIInv
<1> SUFFICES ASSUME ReplayInit PROVE ReplayIInv
  OBVIOUS
<1> USE DEF ReplayInit, Log!Init
<1>1. DOMAIN <<>> = {} /\ \A S : <<>> \in Seq(S)
  OBVIOUS
<1>2. NoResult \in Result
  BY <1>1 DEF NoResult, Result
<1>3. ReplayTypeOK
  BY <1>1, <1>2 DEF ReplayTypeOK
<1>4. Answers(<<>>) = 0
  <2>1. AnswersIn(<<>>) = {}
    BY <1>1 DEF AnswersIn
  <2>2. QED
    BY <2>1, FS_EmptySet DEF Answers, AnswersIn
<1>5. LogIInv
  BY <1>1, <1>4 DEF LogIInv, Numbered, Finished
<1>6. \A r \in Requests : ReplayedIInv(r)
  BY DEF ReplayedIInv
<1>7. QED
  BY <1>3, <1>5, <1>6 DEF ReplayIInv

\* A batch of rows keeps it, if an answer is counted.
Counts(c, shape) ==
  \/ ~Answering(shape) /\ UNCHANGED usage
  \/ usage' = [usage EXCEPT ![c] = @ + 1]

LEMMA WriteAdds ==
  ASSUME ReplayIInv, NEW c \in Conversations, NEW shape \in Shapes, NEW label \in SourceKinds,
         Write(c, shape, label)
  PROVE  /\ log' \in [Conversations -> Seq(Event)]
         /\ \A d \in Conversations : d # c => log'[d] = log[d]
         /\ Numbered(log'[c]) /\ Finished(log'[c]) /\ Begins(log[c], log'[c])
         /\ Answers(log'[c]) <= Answers(log[c]) + 1
         /\ ~Answering(shape) => Answers(log'[c]) = Answers(log[c])
<1> DEFINE b == Batch(c, shape, label)
<1>1. /\ log \in [Conversations -> Seq(Event)] /\ log[c] \in Seq(Event) /\ Len(log[c]) \in Nat
      /\ Numbered(log[c])
  BY DEF ReplayIInv, ReplayTypeOK, LogIInv
<1>2. IsBatch(b, Len(log[c]), shape)
  <2>1. b = [i \in DOMAIN shape |-> [sequence_no |-> Len(log[c]) + i, event_type |-> shape[i],
                                     source_kind |-> label]]
    BY DEF Batch
  <2> HIDE DEF b
  <2>2. QED
    BY <1>1, <2>1, BatchRows
<1>3. log' = [log EXCEPT ![c] = log[c] \o b]
  BY <1>1 DEF Write
<1> HIDE DEF b
<1>4. PICK d : d = log[c] \o b
  OBVIOUS
<1>5. Appended(d, log[c], shape)
  <2>1. PICK ev : ev = log[c]
    OBVIOUS
  <2>2. ev \in Seq(Event) /\ Numbered(ev) /\ d = ev \o b /\ IsBatch(b, Len(ev), shape)
    BY <1>1, <1>2, <1>4, <2>1, Zenon
  <2>3. Appended(d, ev, shape)
    BY <2>2, BatchIs, Zenon
  <2>4. QED
    BY <2>1, <2>3, Zenon
<1>6. /\ log' = [log EXCEPT ![c] = d] /\ log'[c] = d
      /\ log' \in [Conversations -> Seq(Event)]
      /\ \A e \in Conversations : e # c => log'[e] = log[e]
  BY <1>1, <1>3, <1>4, <1>5 DEF Appended
<1>7. QED
  BY <1>5, <1>6 DEF Finished, Appended

LEMMA StillBegins ==
  ASSUME NEW a \in Seq(Event), NEW b \in Seq(Event), NEW d \in Seq(Event), Begins(a, b), Begins(b, d)
  PROVE  Begins(a, d)
  BY DEF Begins

LEMMA WriteKeeps ==
  ASSUME ReplayIInv, NEW c \in Conversations, NEW shape \in Shapes, NEW label \in SourceKinds,
         Write(c, shape, label), Counts(c, shape)
  PROVE  ReplayIInv'
<1>1. /\ log \in [Conversations -> Seq(Event)] /\ usage \in [Conversations -> Nat]
      /\ pc \in [Requests -> {"idle", "before", "after", "ok"}]
      /\ rows \in [Requests -> Seq(Event)] /\ before \in [Requests -> Nat]
      /\ result \in [Requests -> Result]
      /\ LogIInv /\ \A r \in Requests : ReplayedIInv(r)
  BY DEF ReplayIInv, ReplayTypeOK
<1>2. pc' = pc /\ tgt' = tgt /\ rows' = rows /\ before' = before /\ result' = result
  BY DEF Write
<1>3. /\ log' \in [Conversations -> Seq(Event)]
      /\ \A d \in Conversations : d # c => log'[d] = log[d]
      /\ Numbered(log'[c]) /\ Finished(log'[c]) /\ Begins(log[c], log'[c])
      /\ Answers(log'[c]) <= Answers(log[c]) + 1
      /\ ~Answering(shape) => Answers(log'[c]) = Answers(log[c])
  BY WriteAdds
<1>4. /\ usage' \in [Conversations -> Nat]
      /\ \A d \in Conversations : usage[d] <= usage'[d] /\ (d # c => usage'[d] = usage[d])
      /\ Answering(shape) => usage'[c] = usage[c] + 1
  <2>1. \A d \in Conversations : usage[d] \in Nat
    BY <1>1
  <2>2. CASE ~Answering(shape) /\ UNCHANGED usage
    BY <1>1, <2>1, <2>2
  <2>3. CASE usage' = [usage EXCEPT ![c] = @ + 1]
    BY <1>1, <2>1, <2>3
  <2>4. QED
    BY <2>2, <2>3 DEF Counts
<1>5. ReplayTypeOK'
  BY <1>2, <1>3, <1>4 DEF ReplayIInv, ReplayTypeOK
<1>6. Answers(log'[c]) <= usage'[c]
  <2>1. /\ Answers(log[c]) <= usage[c] /\ Answers(log[c]) \in Nat /\ usage[c] \in Nat
        /\ Answers(log'[c]) \in Nat /\ usage'[c] \in Nat
    BY <1>1, <1>3, <1>4, AnswersAre DEF LogIInv
  <2>2. QED
    BY <2>1, <1>3, <1>4
<1>7. LogIInv'
  BY <1>1, <1>3, <1>4, <1>6 DEF LogIInv
<1>8. ASSUME NEW r \in Requests PROVE ReplayedIInv(r)'
  <2>1. ReplayedIInv(r) /\ Answers(rows[r]) \in Nat /\ before[r] \in Nat
    BY <1>1, AnswersAre
  <2>2. CASE pc[r] = "idle"
    BY <1>2, <2>2 DEF ReplayedIInv
  <2>3. CASE pc[r] # "idle"
    <3>1. tgt[r] \in Conversations /\ Begins(rows[r], log[tgt[r]])
      BY <2>1, <2>3 DEF ReplayedIInv
    <3>2. Begins(log[tgt[r]], log'[tgt[r]])
      <4>1. CASE tgt[r] = c
        BY <1>3, <4>1
      <4>2. CASE tgt[r] # c
        BY <1>1, <1>3, <3>1, <4>2 DEF Begins
      <4>3. QED
        BY <4>1, <4>2
    <3>3. Begins(rows[r], log'[tgt[r]])
      BY <1>1, <1>3, <3>1, <3>2, StillBegins
    <3>4. usage[tgt[r]] <= usage'[tgt[r]] /\ usage[tgt[r]] \in Nat /\ usage'[tgt[r]] \in Nat
      BY <1>1, <1>4, <3>1
    <3>5. pc[r] = "ok" => result[r].usage_ledger_delta \in Int
      BY <1>1 DEF Result
    <3>6. QED
      BY <1>2, <2>1, <2>3, <3>3, <3>4, <3>5 DEF ReplayedIInv
  <2>4. QED
    BY <2>2, <2>3
<1>9. QED
  BY <1>5, <1>7, <1>8 DEF ReplayIInv

-----------------------------------------------------------------------------
\* The steps of a replay keep it.
LEMMA ReadKeeps ==
  ASSUME ReplayIInv, NEW q \in Requests, NEW c \in Conversations, ReadRows(q, c)
  PROVE  ReplayIInv'
<1>1. /\ log \in [Conversations -> Seq(Event)] /\ usage \in [Conversations -> Nat]
      /\ pc \in [Requests -> {"idle", "before", "after", "ok"}]
      /\ tgt \in [Requests -> Conversations \cup {<<>>}]
      /\ rows \in [Requests -> Seq(Event)]
      /\ LogIInv /\ \A r \in Requests : ReplayedIInv(r)
  BY DEF ReplayIInv, ReplayTypeOK
<1>2. /\ log' = log /\ usage' = usage /\ before' = before /\ result' = result
      /\ pc' = [pc EXCEPT ![q] = "before"] /\ tgt' = [tgt EXCEPT ![q] = c]
      /\ rows' = [rows EXCEPT ![q] = log[c]] /\ log[c] # <<>>
  BY DEF ReadRows, Selected, written
<1>3. ReplayTypeOK'
  BY <1>1, <1>2 DEF ReplayIInv, ReplayTypeOK
<1>4. LogIInv'
  BY <1>1, <1>2 DEF LogIInv
<1>5. ASSUME NEW r \in Requests PROVE ReplayedIInv(r)'
  <2>1. CASE r = q
    <3>1. Begins(log[c], log[c])
      BY <1>1 DEF Begins
    <3>2. pc'[r] = "before" /\ tgt'[r] = c /\ rows'[r] = log[c]
      BY <1>1, <1>2, <2>1
    <3>3. QED
      BY <1>1, <1>2, <3>1, <3>2 DEF ReplayedIInv, LogIInv
  <2>2. CASE r # q
    <3>1. pc'[r] = pc[r] /\ tgt'[r] = tgt[r] /\ rows'[r] = rows[r]
      BY <1>1, <1>2, <2>2
    <3>2. QED
      BY <1>1, <1>2, <3>1 DEF ReplayedIInv
  <2>3. QED
    BY <2>1, <2>2
<1>6. QED
  BY <1>3, <1>4, <1>5 DEF ReplayIInv

LEMMA CountBeforeKeeps ==
  ASSUME ReplayIInv, NEW q \in Requests, CountBefore(q)
  PROVE  ReplayIInv'
<1>1. /\ usage \in [Conversations -> Nat] /\ before \in [Requests -> Nat]
      /\ pc \in [Requests -> {"idle", "before", "after", "ok"}]
      /\ LogIInv /\ \A r \in Requests : ReplayedIInv(r)
  BY DEF ReplayIInv, ReplayTypeOK
<1>2. /\ log' = log /\ usage' = usage /\ tgt' = tgt /\ rows' = rows /\ result' = result
      /\ pc[q] = "before" /\ pc' = [pc EXCEPT ![q] = "after"]
      /\ before' = [before EXCEPT ![q] = usage[tgt[q]]]
  BY DEF CountBefore, written
<1>3. tgt[q] \in Conversations /\ usage[tgt[q]] \in Nat
  BY <1>1, <1>2 DEF ReplayedIInv
<1>4. ReplayTypeOK'
  BY <1>1, <1>2, <1>3 DEF ReplayIInv, ReplayTypeOK
<1>5. LogIInv'
  BY <1>1, <1>2 DEF LogIInv
<1>6. ASSUME NEW r \in Requests PROVE ReplayedIInv(r)'
  <2>1. CASE r = q
    <3>1. pc'[r] = "after" /\ before'[r] = usage[tgt[r]]
      BY <1>1, <1>2, <2>1
    <3>2. QED
      BY <1>1, <1>2, <1>3, <2>1, <3>1 DEF ReplayedIInv
  <2>2. CASE r # q
    <3>1. pc'[r] = pc[r] /\ before'[r] = before[r]
      BY <1>1, <1>2, <2>2
    <3>2. QED
      BY <1>1, <1>2, <3>1 DEF ReplayedIInv
  <2>3. QED
    BY <2>1, <2>2
<1>7. QED
  BY <1>4, <1>5, <1>6 DEF ReplayIInv

LEMMA CountAfterKeeps ==
  ASSUME ReplayIInv, NEW q \in Requests, CountAfter(q)
  PROVE  ReplayIInv'
<1> DEFINE d == usage[tgt[q]] - before[q]
           a == Answered(exact_replay(rows[q]), d)
<1>1. /\ usage \in [Conversations -> Nat] /\ before \in [Requests -> Nat]
      /\ pc \in [Requests -> {"idle", "before", "after", "ok"}]
      /\ rows \in [Requests -> Seq(Event)] /\ result \in [Requests -> Result]
      /\ LogIInv /\ \A r \in Requests : ReplayedIInv(r)
  BY DEF ReplayIInv, ReplayTypeOK
<1>2. /\ log' = log /\ usage' = usage /\ tgt' = tgt /\ rows' = rows /\ before' = before
      /\ pc[q] = "after" /\ pc' = [pc EXCEPT ![q] = "ok"]
      /\ result' = [result EXCEPT ![q] = a]
  BY DEF CountAfter, written
<1>3. tgt[q] \in Conversations /\ Numbered(rows[q]) /\ before[q] <= usage[tgt[q]]
  BY <1>1, <1>2 DEF ReplayedIInv
<1>4. /\ d \in Int /\ 0 <= d /\ before[q] + d <= usage[tgt[q]]
  BY <1>1, <1>3
<1>5. exact_replay(rows[q]) \in Seq(Event)
  BY <1>1, <1>3, ReplayIsObserved
<1> HIDE DEF d
<1>6. /\ a \in Result /\ a.events = exact_replay(rows[q]) /\ a.usage_ledger_delta = d
  BY <1>4, <1>5 DEF Answered, Result
<1> HIDE DEF a
<1>7. ReplayTypeOK'
  BY <1>1, <1>2, <1>6 DEF ReplayIInv, ReplayTypeOK
<1>8. LogIInv'
  BY <1>1, <1>2 DEF LogIInv
<1>9. ASSUME NEW r \in Requests PROVE ReplayedIInv(r)'
  <2>1. CASE r = q
    <3>1. pc'[r] = "ok" /\ result'[r] = a
      BY <1>1, <1>2, <2>1
    <3>2. QED
      BY <1>1, <1>2, <1>4, <1>6, <2>1, <3>1 DEF ReplayedIInv
  <2>2. CASE r # q
    <3>1. pc'[r] = pc[r] /\ result'[r] = result[r]
      BY <1>1, <1>2, <2>2
    <3>2. QED
      BY <1>1, <1>2, <3>1 DEF ReplayedIInv
  <2>3. QED
    BY <2>1, <2>2
<1>10. QED
  BY <1>7, <1>8, <1>9 DEF ReplayIInv

LEMMA ShapesDiffer ==
  /\ {Log!Started, Log!Blocked, Log!Finished, Log!Plain, Log!Grounded} = Shapes
  /\ ~Answering(Log!Started) /\ ~Answering(Log!Blocked) /\ ~Answering(Log!Finished)
  /\ Answering(Log!Plain) /\ Answering(Log!Grounded)
<1>1. /\ Len(Log!Started) = 1 /\ Len(Log!Blocked) = 1 /\ Len(Log!Finished) = 1
      /\ Len(Log!Plain) = 3 /\ Len(Log!Grounded) = 4
  BY DEF Log!Started, Log!Blocked, Log!Finished, Log!Plain, Log!Grounded
<1>2. QED
  BY <1>1 DEF Shapes, Answering

LEMMA ReplayStep == ASSUME ReplayIInv, ReplayNext PROVE ReplayIInv'
<1> USE ShapesDiffer
<1>1. ASSUME NEW c \in Conversations, NEW label \in SourceKinds, Start(c, label) PROVE ReplayIInv'
  <2>1. Log!Started \in Shapes /\ Write(c, Log!Started, label) /\ UNCHANGED usage
    BY <1>1 DEF Start
  <2>2. QED
    BY <2>1, WriteKeeps DEF Counts
<1>2. ASSUME NEW c \in Conversations, Refuse(c) PROVE ReplayIInv'
  <2>1. Log!Blocked \in Shapes /\ Write(c, Log!Blocked, "observed") /\ UNCHANGED usage
    BY <1>2 DEF Refuse
  <2>2. QED
    BY <2>1, WriteKeeps, SourceKindsAssumption DEF Counts
<1>3. ASSUME NEW c \in Conversations, NEW shape \in {Log!Plain, Log!Grounded}, Answer(c, shape)
      PROVE  ReplayIInv'
  <2>1. /\ shape \in Shapes /\ Write(c, shape, "observed")
        /\ usage' = [usage EXCEPT ![c] = @ + 1]
    BY <1>3 DEF Answer
  <2>2. QED
    BY <2>1, WriteKeeps, SourceKindsAssumption DEF Counts
<1>4. ASSUME NEW c \in Conversations, Finish(c) PROVE ReplayIInv'
  <2>1. Log!Finished \in Shapes /\ Write(c, Log!Finished, "observed") /\ UNCHANGED usage
    BY <1>4 DEF Finish
  <2>2. QED
    BY <2>1, WriteKeeps, SourceKindsAssumption DEF Counts
<1>5. QED
  BY <1>1, <1>2, <1>3, <1>4, ReadKeeps, CountBeforeKeeps, CountAfterKeeps DEF ReplayNext

LEMMA ReplayInvariance == ReplaySpec => []ReplayIInv
<1>1. ReplayIInv /\ [ReplayNext]_replayVars => ReplayIInv'
  <2>1. SUFFICES ASSUME ReplayIInv, [ReplayNext]_replayVars PROVE ReplayIInv'
    OBVIOUS
  <2>2. CASE ReplayNext
    BY <2>1, <2>2, ReplayStep
  <2>3. CASE UNCHANGED replayVars
    BY <2>1, <2>3 DEF replayVars, ReplayIInv, ReplayTypeOK, LogIInv, ReplayedIInv
  <2>4. QED
    BY <2>1, <2>2, <2>3
<1>2. QED
  BY <1>1, ReplayInitIInv, PTL DEF ReplaySpec

-----------------------------------------------------------------------------
\* Every variable keeps to its values.
THEOREM ReplayTypeCorrectness == ReplaySpec => []ReplayTypeOK
<1>1. ReplayIInv => ReplayTypeOK
  BY DEF ReplayIInv
<1>2. QED
  BY <1>1, ReplayInvariance, PTL

\* The cost a replay reports belongs to no answer that it replays: those were
\* all counted before it counted first.
THEOREM RepliesAreNotCharged == ReplaySpec => []CostIsNotOfReplayed
<1>1. ReplayIInv => CostIsNotOfReplayed
  <2>1. SUFFICES ASSUME ReplayIInv, NEW r \in Requests, pc[r] = "ok"
                 PROVE  /\ result[r].usage_ledger_delta >= 0
                        /\ Answers(result[r].events) + result[r].usage_ledger_delta <= usage[tgt[r]]
    BY DEF CostIsNotOfReplayed
  <2>2. /\ rows[r] \in Seq(Event) /\ result[r] \in Result /\ before[r] \in Nat
        /\ usage \in [Conversations -> Nat] /\ ReplayedIInv(r)
    BY <2>1 DEF ReplayIInv, ReplayTypeOK
  <2>3. /\ tgt[r] \in Conversations /\ Numbered(rows[r])
        /\ Answers(rows[r]) <= before[r] /\ result[r].events = exact_replay(rows[r])
        /\ 0 <= result[r].usage_ledger_delta
        /\ before[r] + result[r].usage_ledger_delta <= usage[tgt[r]]
    BY <2>1, <2>2 DEF ReplayedIInv
  <2>4. /\ exact_replay(rows[r]) \in Seq(Event)
        /\ Answers(exact_replay(rows[r])) <= Answers(rows[r])
    BY <2>2, <2>3, ReplayIsObserved, AnswersKept
  <2>5. /\ Answers(rows[r]) \in Nat /\ Answers(exact_replay(rows[r])) \in Nat
        /\ usage[tgt[r]] \in Nat /\ result[r].usage_ledger_delta \in Int
    BY <2>2, <2>3, <2>4, AnswersAre DEF Result
  <2>6. QED
    BY <2>2, <2>3, <2>4, <2>5
<1>2. QED
  BY <1>1, ReplayInvariance, PTL

\* What was replayed remains the observed part of the history up to the end of
\* a batch, whatever is committed meanwhile and afterwards.
THEOREM ReplaysAreHistory == ReplaySpec => []ReplayIsHistory
<1>1. ReplayIInv => ReplayIsHistory
  <2>1. SUFFICES ASSUME ReplayIInv, NEW r \in Requests, pc[r] = "ok"
                 PROVE  \E n \in DOMAIN log[tgt[r]] :
                          /\ log[tgt[r]][n].event_type \in Last
                          /\ IsObservedPart(result[r].events, SubSeq(log[tgt[r]], 1, n))
    BY DEF ReplayIsHistory
  <2>2. PICK ev : ev = log[tgt[r]]
    OBVIOUS
  <2>3. PICK e : e = rows[r]
    OBVIOUS
  <2>4. ReplayedIInv(r) /\ log \in [Conversations -> Seq(Event)] /\ rows[r] \in Seq(Event)
    BY <2>1 DEF ReplayIInv, ReplayTypeOK
  <2>5. /\ tgt[r] \in Conversations /\ Numbered(e) /\ Finished(e) /\ e # <<>> /\ Begins(e, ev)
        /\ result[r].events = exact_replay(e)
    BY <2>1, <2>2, <2>3, <2>4 DEF ReplayedIInv
  <2>6. ev \in Seq(Event) /\ e \in Seq(Event)
    BY <2>2, <2>3, <2>4, <2>5
  <2>7. Len(e) \in 1 .. Len(ev) /\ ev[Len(e)] = e[Len(e)]
    BY <2>5, <2>6 DEF Begins
  <2>8. SubSeq(ev, 1, Len(e)) = e
    BY <2>5, <2>6, <2>7 DEF Begins
  <2>9. IsObservedPart(exact_replay(e), e)
    BY <2>5, <2>6, ReplayIsObserved
  <2>10. e[Len(e)].event_type \in Last
    BY <2>5 DEF Finished
  <2>11. Len(e) \in DOMAIN ev
    BY <2>6, <2>7
  <2>12. QED
    BY <2>2, <2>5, <2>7, <2>8, <2>9, <2>10, <2>11
<1>2. QED
  BY <1>1, ReplayInvariance, PTL
=============================================================================
