--------------------------- MODULE RevenueAtRiskProofs ---------------------------
(***************************************************************************)
(* What a summary promises, for any cases, windows, amounts, estimates and *)
(* limit.  First the arithmetic of one case, then what requests hold.      *)
(***************************************************************************)
EXTENDS RevenueAtRisk, FiniteSetTheorems, TLAPS

-------------------------------------------------------------------------------
(* Rounding *)

LEMMA ProductGrows ==
  ASSUME NEW a \in Int, NEW b \in Int, NEW m \in Nat, a <= b
  PROVE  m * a \in Int /\ m * b \in Int /\ m * a <= m * b
<1>1. m * a \in Int /\ m * b \in Int /\ m * b - m * a = m * (b - a)
  OBVIOUS
<1>2. m * (b - a) >= 0
  OBVIOUS
<1> QED
  BY <1>1, <1>2

LEMMA Quotient ==
  ASSUME NEW a \in Int, NEW b \in Nat \ {0}
  PROVE  /\ a \div b \in Int
         /\ b * (a \div b) <= a /\ a < b * (a \div b) + b
OBVIOUS

(* Rounded(n, d) is the one integer within half of n / d, ties up.         *)
LEMMA RoundedBounds ==
  ASSUME NEW n \in Int, NEW d \in Nat \ {0}
  PROVE  /\ Rounded(n, d) \in Int
         /\ 2 * (d * Rounded(n, d)) <= 2 * n + d
         /\ 2 * n + d < 2 * (d * Rounded(n, d)) + 2 * d
<1> DEFINE q == (2 * n + d) \div (2 * d)
<1>1. 2 * n + d \in Int /\ 2 * d \in Nat \ {0}
  OBVIOUS
<1>2. q \in Int /\ (2 * d) * q <= 2 * n + d /\ 2 * n + d < (2 * d) * q + 2 * d
  BY <1>1, Quotient
<1>3. (2 * d) * q = 2 * (d * q)
  BY <1>2
<1> QED
  BY <1>2, <1>3 DEF Rounded

LEMMA RoundedGrows ==
  ASSUME NEW m \in Int, NEW n \in Int, NEW d \in Nat \ {0}, m <= n
  PROVE  Rounded(m, d) <= Rounded(n, d)
<1> DEFINE p == Rounded(m, d)
           q == Rounded(n, d)
<1>1. /\ p \in Int /\ q \in Int
      /\ 2 * (d * p) <= 2 * m + d /\ 2 * n + d < 2 * (d * q) + 2 * d
  BY RoundedBounds
<1> HIDE DEF p, q
<1> SUFFICES ASSUME q + 1 <= p
             PROVE  FALSE
  BY <1>1 DEF p, q
<1>2. d * (q + 1) \in Int /\ d * p \in Int /\ d * (q + 1) <= d * p
  BY <1>1, ProductGrows
<1>3. d * (q + 1) = d * q + d
  BY <1>1
<1> QED
  BY <1>1, <1>2, <1>3

LEMMA RoundedExact ==
  ASSUME NEW k \in Int, NEW d \in Nat \ {0}
  PROVE  Rounded(k * d, d) = k
<1> DEFINE p == Rounded(k * d, d)
<1>1. /\ k * d \in Int /\ k * d = d * k
      /\ p \in Int /\ 2 * (d * p) <= 2 * (d * k) + d /\ 2 * (d * k) + d < 2 * (d * p) + 2 * d
  BY RoundedBounds
<1> HIDE DEF p
<1>2. ASSUME p + 1 <= k
      PROVE  FALSE
  <2>1. d * (p + 1) \in Int /\ d * k \in Int /\ d * (p + 1) <= d * k /\ d * (p + 1) = d * p + d
    BY <1>1, <1>2, ProductGrows
  <2> QED
    BY <1>1, <2>1
<1>3. ASSUME k + 1 <= p
      PROVE  FALSE
  <2>1. d * (k + 1) \in Int /\ d * p \in Int /\ d * (k + 1) <= d * p /\ d * (k + 1) = d * k + d
    BY <1>1, <1>3, ProductGrows
  <2> QED
    BY <1>1, <2>1
<1> QED
  BY <1>1, <1>2, <1>3 DEF p

-------------------------------------------------------------------------------
(* What a summary says of one case *)

(* The summaries there can be: when, which cases, which decisions.         *)
SummaryType ==
  UNION {[at : Nat, listed : {cs}, used : [cs -> Decision \cup {NoDecision}]] :
           cs \in SUBSET Cases}

LEMMA SummaryFields ==
  ASSUME NEW s \in SummaryType
  PROVE  /\ s.at \in Nat /\ s.listed \subseteq Cases
         /\ s.used \in [s.listed -> Decision \cup {NoDecision}]
<1>1. PICK cs \in SUBSET Cases :
        s \in [at : Nat, listed : {cs}, used : [cs -> Decision \cup {NoDecision}]]
  BY DEF SummaryType
<1> QED
  BY <1>1

LEMMA NewSummary ==
  ASSUME NEW cs \in SUBSET Cases, NEW i \in Nat
  PROVE  SummaryOf(cs, i) \in SummaryType
<1>1. SummaryOf(cs, i) \in
        [at : Nat, listed : {cs}, used : [cs -> Decision \cup {NoDecision}]]
  BY DEF SummaryOf
<1> QED
  BY <1>1 DEF SummaryType

LEMMA MinOfTwo ==
  ASSUME NEW a \in Int, NEW b \in Int
  PROVE  Min({a, b}) = IF a <= b THEN a ELSE b
BY DEF Min

LEMMA MaxOfTwo ==
  ASSUME NEW a \in Int, NEW b \in Int
  PROVE  Max({a, b}) = IF a >= b THEN a ELSE b
BY DEF Max

LEMMA LengthPositive ==
  ASSUME NEW c \in Cases
  PROVE  Length(c) \in Nat \ {0}
BY WindowAssumption DEF Length

(* What remains of a window is between nothing and all of it, and shrinks. *)
LEMMA RemainingShrinks ==
  ASSUME NEW c \in Cases, NEW i \in Nat, NEW j \in Nat, i <= j
  PROVE  /\ Remaining(c, i) \in 0 .. Length(c)
         /\ Remaining(c, j) \in 0 .. Length(c)
         /\ Remaining(c, j) <= Remaining(c, i)
<1>1. Closes[c] \in Nat /\ Length(c) \in Nat \ {0}
  BY WindowAssumption, LengthPositive
<1> DEFINE Rest(t) == IF Closes[c] - t <= Length(c) THEN Closes[c] - t ELSE Length(c)
<1>2. \A t \in Nat : /\ Rest(t) \in Int /\ Rest(t) <= Length(c)
                      /\ Remaining(c, t) = IF 0 >= Rest(t) THEN 0 ELSE Rest(t)
  <2> SUFFICES ASSUME NEW t \in Nat
               PROVE  /\ Rest(t) \in Int /\ Rest(t) <= Length(c)
                      /\ Remaining(c, t) = IF 0 >= Rest(t) THEN 0 ELSE Rest(t)
    OBVIOUS
  <2>1. Closes[c] - t \in Int /\ Rest(t) \in Int /\ Rest(t) <= Length(c)
    BY <1>1
  <2>2. Min({Closes[c] - t, Length(c)}) = Rest(t)
    BY <1>1, <2>1, MinOfTwo
  <2> HIDE DEF Rest
  <2>3. Max({0, Rest(t)}) = IF 0 >= Rest(t) THEN 0 ELSE Rest(t)
    BY <2>1, MaxOfTwo
  <2> QED
    BY <2>1, <2>2, <2>3 DEF Remaining
<1> QED
  BY <1>1, <1>2

(* What is expected of a case is no more than its amount, and within half  *)
(* a unit of the exact product.                                            *)
LEMMA ExpectedBounds ==
  ASSUME NEW s \in SummaryType, NEW c \in Estimated(s)
  PROVE  /\ Expected(s, c) \in 0 .. Amount[c]
         /\ 2 * (One * Expected(s, c) - Amount[c] * s.used[c].estimate) \in -One .. One
<1> DEFINE a == Amount[c]
           e == s.used[c].estimate
           x == Rounded(a * e, One)
<1>1. c \in Cases /\ a \in Nat \ {0} /\ e \in 0 .. One /\ One \in Nat \ {0}
  BY SummaryFields, ValueAssumption DEF Estimated, IsEstimated
<1> HIDE DEF a, e
<1>2. a * e \in Nat /\ a * e <= a * One /\ 0 * One = 0 /\ a * One \in Int
  BY <1>1, ProductGrows
<1>3. Rounded(0, One) = 0 /\ Rounded(a * One, One) = a
  BY <1>1, <1>2, RoundedExact
<1>4. Rounded(0, One) <= x /\ x <= Rounded(a * One, One)
  BY <1>1, <1>2, RoundedGrows
<1>5. x \in Int /\ 2 * (One * x) <= 2 * (a * e) + One /\ 2 * (a * e) + One < 2 * (One * x) + 2 * One
  BY <1>1, <1>2, RoundedBounds
<1>6. x \in 0 .. a
  BY <1>1, <1>3, <1>4, <1>5
<1> HIDE DEF x
<1>7. One * x \in Int
  BY <1>1, <1>5
<1>8. 2 * (One * x - a * e) \in -One .. One
  BY <1>1, <1>2, <1>5, <1>7
<1> QED
  BY <1>6, <1>8 DEF Expected, a, e, x

LEMMA BasisBounds ==
  ASSUME NEW s \in SummaryType, NEW c \in s.listed
  PROVE  /\ Basis(s, c) \in 0 .. Amount[c]
         /\ c \notin Estimated(s) => Basis(s, c) = Amount[c]
<1>1. c \in Cases /\ Amount[c] \in Nat
  BY SummaryFields, ValueAssumption
<1> QED
  BY <1>1, ExpectedBounds DEF Basis, Estimated

(* The score of a case with basis b at time i.                             *)
Score(c, b, i) == Rounded(b * (2 * Length(c) - Remaining(c, i)), Length(c))

(* The score lies between the basis and twice that, and neither a larger   *)
(* basis nor a later time makes it smaller.                                *)
LEMMA ScoreGrows ==
  ASSUME NEW c \in Cases, NEW b \in Nat, NEW v \in Nat, b <= v,
         NEW i \in Nat, NEW j \in Nat, i <= j
  PROVE  /\ Score(c, b, i) \in Int /\ Score(c, v, j) \in Int
         /\ Score(c, b, i) <= Score(c, v, j)
         /\ Score(c, b, i) \in b .. 2 * b
<1> DEFINE l == Length(c)
           f == 2 * l - Remaining(c, i)
           g == 2 * l - Remaining(c, j)
<1>1. l \in Nat \ {0} /\ f \in l .. 2 * l /\ g \in l .. 2 * l /\ f <= g
  BY LengthPositive, RemainingShrinks
<1> HIDE DEF l, f, g
<1>2. b * f \in Int /\ b * g \in Int /\ v * g \in Int /\ b * f <= b * g
  BY <1>1, ProductGrows
<1>3. g * b <= g * v /\ g * b = b * g /\ g * v = v * g
  BY <1>1, ProductGrows
<1>4. b * l <= b * f /\ b * f <= b * (2 * l) /\ b * (2 * l) = (2 * b) * l
      /\ b * l \in Int /\ (2 * b) * l \in Int
  BY <1>1, ProductGrows
<1>5. Rounded(b * l, l) = b /\ Rounded((2 * b) * l, l) = 2 * b
  BY <1>1, RoundedExact
<1>6. Rounded(b * f, l) \in Int /\ Rounded(v * g, l) \in Int
  BY <1>1, <1>2, RoundedBounds
<1>7. /\ Rounded(b * f, l) <= Rounded(v * g, l)
      /\ Rounded(b * l, l) <= Rounded(b * f, l)
      /\ Rounded(b * f, l) <= Rounded((2 * b) * l, l)
  <2>1. b * f <= v * g
    BY <1>2, <1>3
  <2> QED
    BY <1>1, <1>2, <1>4, <2>1, RoundedGrows
<1>8. Rounded(b * f, l) \in b .. 2 * b
  BY <1>5, <1>6, <1>7
<1> QED
  BY <1>6, <1>7, <1>8 DEF Score, l, f, g

LEMMA ScoreBounds ==
  ASSUME NEW c \in Cases, NEW b \in Nat, NEW i \in Nat
  PROVE  Score(c, b, i) \in Int /\ Score(c, b, i) \in b .. 2 * b
<1>1. b <= b /\ i <= i
  OBVIOUS
<1> QED
  BY <1>1, ScoreGrows

-------------------------------------------------------------------------------
(* What summaries say, one by one and compared *)

LEMMA PriorityBounds ==
  ASSUME NEW s \in SummaryType, NEW c \in s.listed
  PROVE  /\ PriorityScore(s, c) \in Int
         /\ PriorityScore(s, c) \in Basis(s, c) .. 2 * Basis(s, c)
<1>1. c \in Cases /\ s.at \in Nat /\ Basis(s, c) \in Nat
  BY SummaryFields, BasisBounds, ValueAssumption
<1> QED
  <2>1. PriorityScore(s, c) = Score(c, Basis(s, c), s.at)
    BY DEF PriorityScore, Score
  <2> QED
    BY <1>1, <2>1, ScoreBounds

LEMMA PriorityGrows ==
  ASSUME NEW s \in SummaryType, NEW t \in SummaryType, NEW c \in s.listed \cap t.listed,
         t.at >= s.at, t.used[c] = s.used[c]
  PROVE  PriorityScore(t, c) >= PriorityScore(s, c)
<1>1. c \in Cases /\ s.at \in Nat /\ t.at \in Nat /\ Basis(s, c) \in Nat
  BY SummaryFields, BasisBounds, ValueAssumption
<1>2. Basis(t, c) = Basis(s, c)
  BY DEF Basis, IsEstimated, Expected
<1> QED
  <2>1. /\ PriorityScore(s, c) = Score(c, Basis(s, c), s.at)
        /\ PriorityScore(t, c) = Score(c, Basis(s, c), t.at)
    BY <1>2 DEF PriorityScore, Score
  <2>2. Score(c, Basis(s, c), s.at) <= Score(c, Basis(s, c), t.at)
    BY <1>1, ScoreGrows
  <2>3. Score(c, Basis(s, c), s.at) \in Int /\ Score(c, Basis(s, c), t.at) \in Int
    BY <1>1, ScoreBounds
  <2> QED
    BY <2>1, <2>2, <2>3

(* The ranking is transitive: what outranks c outranks all that c does.    *)
LEMMA OutranksTransitive ==
  ASSUME NEW s \in SummaryType, NEW c \in s.listed, NEW d \in s.listed, NEW e \in s.listed,
         Outranks(s, e, c), Outranks(s, c, d)
  PROVE  Outranks(s, e, d)
<1>1. /\ PriorityScore(s, c) \in Int /\ PriorityScore(s, d) \in Int
      /\ PriorityScore(s, e) \in Int
  BY PriorityBounds
<1>2. c \in Cases /\ d \in Cases /\ e \in Cases
  BY SummaryFields
<1>3. /\ Amount[c] \in Int /\ Amount[d] \in Int /\ Amount[e] \in Int
      /\ c \in Int /\ d \in Int /\ e \in Int
  BY <1>2, ValueAssumption, WindowAssumption
<1> QED
  BY <1>1, <1>3 DEF Outranks

LEMMA UnscoredOutranks ==
  ASSUME NEW s \in SummaryType, NEW c \in s.listed \ Estimated(s), NEW d \in s.listed,
         Amount[d] < Amount[c], Opens[d] = Opens[c], Closes[d] = Closes[c]
  PROVE  Outranks(s, c, d)
<1>1. /\ c \in Cases /\ d \in Cases /\ s.at \in Nat
      /\ Basis(s, c) = Amount[c] /\ Basis(s, d) \in 0 .. Amount[d]
      /\ Amount[c] \in Nat /\ Amount[d] \in Nat
  BY SummaryFields, BasisBounds, ValueAssumption
<1>2. Length(d) = Length(c) /\ Remaining(d, s.at) = Remaining(c, s.at)
  BY DEF Length, Remaining
<1>3. /\ PriorityScore(s, c) \in Int /\ PriorityScore(s, d) \in Int
      /\ PriorityScore(s, d) <= PriorityScore(s, c)
  <2>1. /\ PriorityScore(s, c) = Score(c, Amount[c], s.at)
        /\ PriorityScore(s, d) = Score(c, Basis(s, d), s.at)
    BY <1>1, <1>2 DEF PriorityScore, Score
  <2>2. Basis(s, d) \in Nat /\ Basis(s, d) <= Amount[c]
    BY <1>1
  <2>3. Score(c, Basis(s, d), s.at) <= Score(c, Amount[c], s.at)
    <3>1. \A b, v, i \in Nat : b <= v => Score(c, b, i) <= Score(c, v, i)
      BY <1>1, ScoreGrows
    <3> QED
      BY <1>1, <2>2, <3>1
  <2>4. Score(c, Basis(s, d), s.at) \in Int /\ Score(c, Amount[c], s.at) \in Int
    BY <1>1, <2>2, ScoreBounds
  <2> QED
    BY <2>1, <2>3, <2>4
<1> QED
  BY <1>1, <1>3 DEF Outranks

LEMMA UnscoredInTop ==
  ASSUME NEW s \in SummaryType, NEW c \in s.listed \ Estimated(s),
         NEW d \in TopOpportunities(s),
         Amount[d] < Amount[c], Opens[d] = Opens[c], Closes[d] = Closes[c]
  PROVE  c \in TopOpportunities(s)
<1> DEFINE Above(e) == {f \in s.listed : Outranks(s, f, e)}
<1>1. d \in s.listed /\ Cardinality(Above(d)) < TopLimit
  BY DEF TopOpportunities
<1>2. Outranks(s, c, d)
  BY <1>1, UnscoredOutranks
<1>3. Above(c) \subseteq Above(d)
  BY <1>1, <1>2, OutranksTransitive
<1>4. IsFiniteSet(Above(d))
  <2>1. IsFiniteSet(Cases) /\ Above(d) \in SUBSET Cases
    BY SummaryFields, WindowAssumption
  <2> QED
    BY <2>1, FS_Subset
<1>5. IsFiniteSet(Above(c)) /\ Cardinality(Above(c)) <= Cardinality(Above(d))
  BY <1>3, <1>4, FS_Subset
<1>6. Cardinality(Above(c)) \in Nat /\ Cardinality(Above(d)) \in Nat
  BY <1>4, <1>5, FS_CardinalityType
<1>7. Cardinality(Above(c)) < TopLimit
  BY <1>1, <1>5, <1>6, ValueAssumption
<1> QED
  BY <1>7 DEF TopOpportunities

-------------------------------------------------------------------------------
(* Sums over the cases of a currency *)

(* Induction, as a fact about a set of numbers and one about a set of      *)
(* subsets: neither has an operator to be instantiated.                    *)
LEMMA NumbersInduction ==
  ASSUME NEW P \in SUBSET Nat, 0 \in P, \A n \in P : n + 1 \in P
  PROVE  P = Nat
<1> DEFINE B == Nat \ P
           R == {ss \in Nat \X Nat : ss[1] < ss[2]}
<1> SUFFICES ASSUME B # {}
             PROVE  FALSE
  OBVIOUS
<1>1. B \subseteq Nat /\ IsWellFoundedOn(R, Nat)
  BY NatLessThanWellFounded DEF OpToRel
<1>2. PICK n \in B : \A m \in B : ~ (<<m, n>> \in R)
  <2> HIDE DEF B, R
  <2> QED
    BY <1>1, WFMin
<1>3. n \in Nat /\ n # 0 /\ n - 1 \in Nat /\ <<n - 1, n>> \in R
  BY <1>2
<1>4. n - 1 \in P
  BY <1>2, <1>3
<1> QED
  BY <1>2, <1>3, <1>4

LEMMA SubsetsInduction ==
  ASSUME NEW S, IsFiniteSet(S), NEW P \in SUBSET (SUBSET S),
         \A t \in SUBSET S : (\A x \in t : t \ {x} \in P) => t \in P
  PROVE  P = SUBSET S
<1> DEFINE N == {n \in Nat : \A t \in SUBSET S : Cardinality(t) = n => t \in P}
<1>1. \A t \in SUBSET S : IsFiniteSet(t) /\ Cardinality(t) \in Nat
  BY FS_Subset, FS_CardinalityType
<1>2. 0 \in N
  <2> SUFFICES ASSUME NEW t \in SUBSET S, Cardinality(t) = 0
               PROVE  t \in P
    OBVIOUS
  <2>1. t = {}
    BY <1>1, FS_EmptySet
  <2> QED
    BY <2>1
<1>3. ASSUME NEW n \in N
      PROVE  n + 1 \in N
  <2> SUFFICES ASSUME NEW t \in SUBSET S, Cardinality(t) = n + 1
               PROVE  t \in P
    OBVIOUS
  <2> SUFFICES ASSUME NEW x \in t
               PROVE  t \ {x} \in P
    OBVIOUS
  <2>1. t \ {x} \in SUBSET S /\ Cardinality(t \ {x}) = n
    BY <1>1, FS_RemoveElement
  <2> QED
    BY <2>1
<1>4. N = Nat
  <2> HIDE DEF N
  <2>1. N \in SUBSET Nat
    BY DEF N
  <2> QED
    BY <2>1, <1>2, <1>3, NumbersInduction
<1> QED
  BY <1>1, <1>4

(* MapThenSumSet, as the value of a function over the subsets of a set.    *)
Picked(t) == CHOOSE x \in t : TRUE

IsSum(g, f, S) ==
  g = [t \in SUBSET S |-> IF t = {} THEN 0 ELSE f[Picked(t)] + g[t \ {Picked(t)}]]

(* Built up from the sums over smaller subsets.                            *)
LEMMA SumExists ==
  ASSUME NEW S, IsFiniteSet(S), NEW f \in [S -> Int]
  PROVE  \E g : IsSum(g, f, S)
<1> DEFINE Upto(n) == {t \in SUBSET S : Cardinality(t) <= n}
           IsPart(g, n) ==
             \A t \in Upto(n) :
               g[t] = IF t = {} THEN 0 ELSE f[Picked(t)] + g[t \ {Picked(t)}]
           N == {n \in Nat : \E g : IsPart(g, n)}
<1>1. \A t \in SUBSET S : IsFiniteSet(t) /\ Cardinality(t) \in Nat
  BY FS_Subset, FS_CardinalityType
<1>2. 0 \in N
  <2> DEFINE g == [t \in SUBSET S |-> 0]
  <2>1. \A t \in Upto(0) : t = {}
    BY <1>1, FS_EmptySet
  <2>2. IsPart(g, 0)
    BY <2>1
  <2> QED
    BY <2>2
<1>3. ASSUME NEW n \in N
      PROVE  n + 1 \in N
  <2>1. PICK g : IsPart(g, n)
    OBVIOUS
  <2> DEFINE h == [t \in SUBSET S |-> IF t = {} THEN 0 ELSE f[Picked(t)] + g[t \ {Picked(t)}]]
  <2>2. \A t \in Upto(n) : h[t] = g[t]
    BY <2>1
  <2>3. ASSUME NEW t \in Upto(n + 1), t # {}
        PROVE  t \ {Picked(t)} \in Upto(n)
    <3>1. Picked(t) \in t
      BY <2>3 DEF Picked
    <3> QED
      BY <3>1, <1>1, FS_RemoveElement
  <2>4. IsPart(h, n + 1)
    <3> SUFFICES ASSUME NEW t \in Upto(n + 1)
                 PROVE  h[t] = IF t = {} THEN 0 ELSE f[Picked(t)] + h[t \ {Picked(t)}]
      OBVIOUS
    <3>1. h[t] = IF t = {} THEN 0 ELSE f[Picked(t)] + g[t \ {Picked(t)}]
      OBVIOUS
    <3> HIDE DEF h
    <3> QED
      BY <3>1, <2>2, <2>3
  <2>5. n + 1 \in Nat /\ \E i : IsPart(i, n + 1)
    <3> HIDE DEF h, IsPart
    <3> QED
      BY <2>4
  <2> QED
    BY <2>5
<1>4. N = Nat
  <2> HIDE DEF N
  <2>1. N \in SUBSET Nat
    BY DEF N
  <2> QED
    BY <2>1, <1>2, <1>3, NumbersInduction
<1>5. Cardinality(S) \in N
  BY <1>1, <1>4
<1>6. PICK g : IsPart(g, Cardinality(S))
  BY <1>5
<1>7. \A t \in SUBSET S : t \in Upto(Cardinality(S))
  BY <1>1, FS_Subset
<1> DEFINE h == [t \in SUBSET S |-> g[t]]
<1>8. \A t \in SUBSET S : h[t] = IF t = {} THEN 0 ELSE f[Picked(t)] + h[t \ {Picked(t)}]
  <2> SUFFICES ASSUME NEW t \in SUBSET S
               PROVE  h[t] = IF t = {} THEN 0 ELSE f[Picked(t)] + h[t \ {Picked(t)}]
    OBVIOUS
  <2>1. t \ {Picked(t)} \in SUBSET S
    OBVIOUS
  <2>2. g[t] = IF t = {} THEN 0 ELSE f[Picked(t)] + g[t \ {Picked(t)}]
    BY <1>6, <1>7
  <2> QED
    BY <2>1, <2>2
<1>9. h = [t \in SUBSET S |-> h[t]]
  OBVIOUS
<1>10. IsSum(h, f, S)
  <2> HIDE DEF h
  <2> QED
    BY <1>8, <1>9 DEF IsSum
<1> QED
  BY <1>10


(* What a sum g of f over the subsets of S is, whichever order it is taken *)
(* in.                                                                     *)
SumLaws(g, f, S) ==
  /\ g[{}] = 0
  /\ \A t \in SUBSET S : g[t] \in Int
  /\ \A t \in SUBSET S : \A x \in t : g[t] = f[x] + g[t \ {x}]

LEMMA SumAnyOrder ==
  ASSUME NEW S, IsFiniteSet(S), NEW f \in [S -> Int], NEW g, IsSum(g, f, S)
  PROVE  SumLaws(g, f, S)
<1>1. \A t \in SUBSET S :
        t # {} => Picked(t) \in t /\ g[t] = f[Picked(t)] + g[t \ {Picked(t)}]
  <2>1. \A t \in SUBSET S : g[t] = IF t = {} THEN 0 ELSE f[Picked(t)] + g[t \ {Picked(t)}]
    BY DEF IsSum
  <2>2. \A t \in SUBSET S : t # {} => Picked(t) \in t
    BY DEF Picked
  <2> QED
    BY <2>1, <2>2
<1>2. g[{}] = 0
  BY DEF IsSum
<1>3. \A t \in SUBSET S : g[t] \in Int
  <2> DEFINE P == {t \in SUBSET S : g[t] \in Int}
  <2>1. ASSUME NEW t \in SUBSET S, \A x \in t : t \ {x} \in P
        PROVE  t \in P
    <3>1. CASE t = {}
      BY <1>2, <3>1
    <3>2. CASE t # {}
      <4>1. Picked(t) \in t /\ g[t] = f[Picked(t)] + g[t \ {Picked(t)}]
        BY <1>1, <3>2
      <4>2. g[t \ {Picked(t)}] \in Int /\ f[Picked(t)] \in Int
        BY <2>1, <4>1
      <4> QED
        BY <4>1, <4>2
    <3> QED
      BY <3>1, <3>2
  <2> HIDE DEF P
  <2>2. P \in SUBSET (SUBSET S)
    BY DEF P
  <2>3. P = SUBSET S
    BY <2>1, <2>2, SubsetsInduction
  <2> QED
    BY <2>3 DEF P
<1>4. \A t \in SUBSET S : \A x \in t : g[t] = f[x] + g[t \ {x}]
  <2> DEFINE P == {t \in SUBSET S : \A x \in t : g[t] = f[x] + g[t \ {x}]}
  <2>1. ASSUME NEW t \in SUBSET S, \A x \in t : t \ {x} \in P
        PROVE  t \in P
    <3> SUFFICES ASSUME NEW x \in t
                 PROVE  g[t] = f[x] + g[t \ {x}]
      OBVIOUS
    <3> DEFINE c == Picked(t)
    <3>1. /\ c \in t /\ f[c] \in Int /\ f[x] \in Int
          /\ g[t] = f[c] + g[t \ {c}]
      BY <1>1
    <3> HIDE DEF c
    <3>2. CASE x = c
      BY <3>1, <3>2
    <3>3. CASE x # c
      <4>1. g[t \ {c}] = f[x] + g[(t \ {c}) \ {x}]
        BY <2>1, <3>1, <3>3
      <4>2. g[t \ {x}] = f[c] + g[(t \ {x}) \ {c}]
        BY <2>1, <3>1, <3>3
      <4> DEFINE u == (t \ {x}) \ {c}
      <4>3. (t \ {c}) \ {x} = u /\ u \in SUBSET S
        OBVIOUS
      <4>4. g[u] \in Int
        BY <1>3, <4>3
      <4>5. g[t \ {c}] = f[x] + g[u] /\ g[t \ {x}] = f[c] + g[u]
        BY <4>1, <4>2, <4>3
      <4> HIDE DEF u
      <4> QED
        BY <3>1, <4>4, <4>5
    <3> QED
      BY <3>2, <3>3
  <2> HIDE DEF P
  <2>2. P \in SUBSET (SUBSET S)
    BY DEF P
  <2>3. P = SUBSET S
    BY <2>1, <2>2, SubsetsInduction
  <2> QED
    BY <2>3 DEF P
<1> QED
  BY <1>2, <1>3, <1>4 DEF SumLaws

(* Over fewer elements, and with smaller summands, a sum is no larger.     *)
LEMMA SumGrows ==
  ASSUME NEW S, IsFiniteSet(S), NEW f \in [S -> Nat], NEW g, SumLaws(g, f, S),
         NEW U \in SUBSET S, NEW e \in [U -> Nat], NEW h, SumLaws(h, e, U),
         \A x \in U : e[x] <= f[x]
  PROVE  h[U] \in 0 .. g[S]
<1>1. f \in [S -> Int] /\ e \in [U -> Int] /\ IsFiniteSet(U)
  BY FS_Subset
<1>11. g[{}] = 0 /\ \A t \in SUBSET S : g[t] \in Int
  BY DEF SumLaws
<1>12. h[{}] = 0 /\ \A t \in SUBSET U : h[t] \in Int
  BY DEF SumLaws
<1>13. \A t \in SUBSET S : \A x \in t : g[t] = f[x] + g[t \ {x}]
  BY DEF SumLaws
<1>14. \A t \in SUBSET U : \A x \in t : h[t] = e[x] + h[t \ {x}]
  BY DEF SumLaws
<1> DEFINE P == {t \in SUBSET S : h[t \cap U] \in 0 .. g[t]}
<1>2. ASSUME NEW t \in SUBSET S, \A x \in t : t \ {x} \in P
      PROVE  t \in P
  <2>0. /\ t \cap U \in SUBSET U
        /\ g[t] \in Int /\ h[t \cap U] \in Int
    BY <1>11, <1>12
  <2>1. CASE t = {}
    <3>1. t \cap U = {} /\ g[{}] = 0 /\ h[{}] = 0
      BY <1>11, <1>12, <2>1
    <3> QED
      BY <2>1, <3>1
  <2>2. CASE t # {}
    <3>1. PICK x \in t : TRUE
      BY <2>2
    <3> DEFINE r == t \ {x}
    <3>2. /\ r \in SUBSET S /\ g[r] \in Int /\ g[t] = f[x] + g[r] /\ f[x] \in Nat
          /\ h[r \cap U] \in 0 .. g[r]
      BY <1>2, <1>11, <1>13
    <3>3. ASSUME x \in U
          PROVE  h[t \cap U] = e[x] + h[r \cap U] /\ e[x] \in Nat /\ e[x] <= f[x]
      <4>1. x \in t \cap U /\ (t \cap U) \ {x} = r \cap U
        BY <3>3
      <4> QED
        BY <1>14, <2>0, <3>3, <4>1
    <3>4. ASSUME x \notin U
          PROVE  t \cap U = r \cap U
      BY <3>4
    <3> HIDE DEF r
    <3>5. CASE x \in U
      BY <2>0, <3>2, <3>3, <3>5
    <3>6. CASE x \notin U
      BY <2>0, <3>2, <3>4, <3>6
    <3> QED
      BY <3>5, <3>6
  <2> QED
    BY <2>1, <2>2
<1>3. P = SUBSET S
  <2> HIDE DEF P
  <2>1. P \in SUBSET (SUBSET S)
    BY DEF P
  <2> QED
    BY <2>1, <1>2, SubsetsInduction
<1>4. S \cap U = U /\ S \in P
  BY <1>3
<1> QED
  BY <1>4

(* Rounding errors add up, one bound for each element.                     *)
LEMMA ErrorsAdd ==
  ASSUME NEW S, IsFiniteSet(S), NEW k \in Nat,
         NEW f \in [S -> Int], NEW g, SumLaws(g, f, S),
         NEW e \in [S -> Int], NEW h, SumLaws(h, e, S),
         \A x \in S : 2 * (k * f[x] - e[x]) \in -k .. k
  PROVE  2 * (k * g[S] - h[S]) \in -(k * Cardinality(S)) .. k * Cardinality(S)
<1>11. g[{}] = 0 /\ \A t \in SUBSET S : g[t] \in Int
  BY DEF SumLaws
<1>12. h[{}] = 0 /\ \A t \in SUBSET S : h[t] \in Int
  BY DEF SumLaws
<1>13. \A t \in SUBSET S : \A x \in t : g[t] = f[x] + g[t \ {x}]
  BY DEF SumLaws
<1>14. \A t \in SUBSET S : \A x \in t : h[t] = e[x] + h[t \ {x}]
  BY DEF SumLaws
<1> DEFINE Error(t) == 2 * (k * g[t] - h[t])
           Bound(t) == k * Cardinality(t)
           P == {t \in SUBSET S : Error(t) \in -Bound(t) .. Bound(t)}
<1>1. ASSUME NEW t \in SUBSET S, \A x \in t : t \ {x} \in P
      PROVE  t \in P
  <2>1. CASE t = {}
    <3>1. g[{}] = 0 /\ h[{}] = 0 /\ Cardinality({}) = 0
      BY <1>11, <1>12, FS_EmptySet
    <3>2. Error({}) = 0 /\ Bound({}) = 0
      BY <3>1
    <3> HIDE DEF Error, Bound
    <3>3. Error({}) \in -Bound({}) .. Bound({})
      BY <3>2
    <3> QED
      BY <2>1, <3>3
  <2>2. CASE t # {}
    <3>1. PICK x \in t : TRUE
      BY <2>2
    <3> DEFINE r == t \ {x}
    <3>2. /\ r \in SUBSET S /\ g[r] \in Int /\ g[t] = f[x] + g[r] /\ f[x] \in Int
          /\ h[r] \in Int /\ h[t] = e[x] + h[r] /\ e[x] \in Int
      BY <1>11, <1>12, <1>13, <1>14
    <3>3. IsFiniteSet(t) /\ Cardinality(t) \in Nat /\ Cardinality(r) = Cardinality(t) - 1
      BY FS_Subset, FS_CardinalityType, FS_RemoveElement
    <3>4. r \in P
      BY <1>1
    <3>5. Error(r) \in -Bound(r) .. Bound(r)
      BY <3>4
    <3> HIDE DEF r
    <3>6. Error(t) = 2 * (k * f[x] - e[x]) + Error(r)
      BY <3>2
    <3>7. Bound(t) \in Int /\ Bound(t) = k + Bound(r)
      <4> DEFINE n == Cardinality(t)
      <4>1. n \in Nat /\ Cardinality(r) = n - 1
        BY <3>3
      <4> HIDE DEF n
      <4>2. k * n \in Int /\ k * n = k + k * (n - 1)
        BY <4>1
      <4> QED
        BY <4>1, <4>2 DEF n
    <3>8. Error(t) \in Int /\ Error(r) \in Int /\ Bound(r) \in Int
      BY <3>2, <3>3, <3>7
    <3>9. 2 * (k * f[x] - e[x]) \in -k .. k
      OBVIOUS
    <3> DEFINE d == 2 * (k * f[x] - e[x])
    <3>10. d \in -k .. k /\ Error(t) = d + Error(r)
      BY <3>6, <3>9
    <3> HIDE DEF d, Error, Bound
    <3>11. Error(t) \in -Bound(t) .. Bound(t)
      BY <3>5, <3>7, <3>8, <3>10
    <3> QED
      BY <3>11
  <2> QED
    BY <2>1, <2>2
<1>2. P = SUBSET S
  <2> HIDE DEF P
  <2>1. P \in SUBSET (SUBSET S)
    BY DEF P
  <2> QED
    BY <2>1, <1>1, SubsetsInduction
<1> QED
  BY <1>2

(* The three sums of a summary.                                            *)
AmountOf(S) == MapThenSumSet(LAMBDA c : Amount[c], S)
ExpectedOf(s, S) == MapThenSumSet(LAMBDA c : Expected(s, c), S)
ProductOf(s, S) == MapThenSumSet(LAMBDA c : Amount[c] * s.used[c].estimate, S)

LEMMA SumOfAmounts ==
  ASSUME NEW S, IsFiniteSet(S), NEW f \in [S -> Int],
         \A c \in S : f[c] = Amount[c]
  PROVE  \E g : SumLaws(g, f, S) /\ AmountOf(S) = g[S]
<1> DEFINE Is(g) ==
             g = [t \in SUBSET S |->
                    IF t = {} THEN 0 ELSE Amount[CHOOSE x \in t : TRUE] + g[t \ {CHOOSE x \in t : TRUE}]]
           sum == CHOOSE g : Is(g)
<1>1. AmountOf(S) = sum[S]
  BY DEF AmountOf, MapThenSumSet, MapThenFoldSet
<1>2. PICK g : IsSum(g, f, S)
  BY SumExists
<1>3. Is(g)
  BY <1>2 DEF IsSum, Picked
<1>4. Is(sum)
  <2> HIDE DEF Is
  <2> QED
    BY <1>3
<1>5. IsSum(sum, f, S)
  <2> HIDE DEF sum
  <2> QED
    BY <1>4 DEF IsSum, Picked
<1> HIDE DEF sum
<1> QED
  BY <1>1, <1>5, SumAnyOrder

LEMMA SumOfExpected ==
  ASSUME NEW s, NEW S, IsFiniteSet(S), NEW f \in [S -> Int],
         \A c \in S : f[c] = Expected(s, c)
  PROVE  \E g : SumLaws(g, f, S) /\ ExpectedOf(s, S) = g[S]
<1> DEFINE Is(g) ==
             g = [t \in SUBSET S |->
                    IF t = {} THEN 0 ELSE Expected(s, CHOOSE x \in t : TRUE) + g[t \ {CHOOSE x \in t : TRUE}]]
           sum == CHOOSE g : Is(g)
<1>1. ExpectedOf(s, S) = sum[S]
  BY DEF ExpectedOf, MapThenSumSet, MapThenFoldSet
<1>2. PICK g : IsSum(g, f, S)
  BY SumExists
<1>3. Is(g)
  BY <1>2 DEF IsSum, Picked
<1>4. Is(sum)
  <2> HIDE DEF Is
  <2> QED
    BY <1>3
<1>5. IsSum(sum, f, S)
  <2> HIDE DEF sum
  <2> QED
    BY <1>4 DEF IsSum, Picked
<1> HIDE DEF sum
<1> QED
  BY <1>1, <1>5, SumAnyOrder

LEMMA SumOfProducts ==
  ASSUME NEW s, NEW S, IsFiniteSet(S), NEW f \in [S -> Int],
         \A c \in S : f[c] = Amount[c] * s.used[c].estimate
  PROVE  \E g : SumLaws(g, f, S) /\ ProductOf(s, S) = g[S]
<1> DEFINE Is(g) ==
             g = [t \in SUBSET S |->
                    IF t = {} THEN 0 ELSE Amount[CHOOSE x \in t : TRUE] * s.used[CHOOSE x \in t : TRUE].estimate + g[t \ {CHOOSE x \in t : TRUE}]]
           sum == CHOOSE g : Is(g)
<1>1. ProductOf(s, S) = sum[S]
  BY DEF ProductOf, MapThenSumSet, MapThenFoldSet
<1>2. PICK g : IsSum(g, f, S)
  BY SumExists
<1>3. Is(g)
  BY <1>2 DEF IsSum, Picked
<1>4. Is(sum)
  <2> HIDE DEF Is
  <2> QED
    BY <1>3
<1>5. IsSum(sum, f, S)
  <2> HIDE DEF sum
  <2> QED
    BY <1>4 DEF IsSum, Picked
<1> HIDE DEF sum
<1> QED
  BY <1>1, <1>5, SumAnyOrder

(* What a summary expects is no more than what is at risk in the currency, *)
(* and within half a unit per case of the exact sum.                       *)
LEMMA SumsBounds ==
  ASSUME NEW s \in SummaryType, NEW x
  PROVE  LET cs == InCurrency(s, x) \cap Estimated(s)
             exact == MapThenSumSet(LAMBDA c : Amount[c] * s.used[c].estimate, cs)
             error == 2 * (One * ExpectedRecoverable(s, x) - exact)
         IN /\ ExpectedRecoverable(s, x) \in 0 .. RevenueAt(s, x)
            /\ error \in -(One * Cardinality(cs)) .. One * Cardinality(cs)
<1> DEFINE S == InCurrency(s, x)
           cs == S \cap Estimated(s)
           f == [c \in S |-> Amount[c]]
           e == [c \in cs |-> Expected(s, c)]
           p == [c \in cs |-> Amount[c] * s.used[c].estimate]
<1>1. IsFiniteSet(S) /\ IsFiniteSet(cs) /\ cs \in SUBSET S
  <2>1. S \in SUBSET Cases /\ cs \in SUBSET Cases /\ cs \in SUBSET S
    BY SummaryFields DEF InCurrency
  <2> QED
    BY <2>1, FS_Subset, WindowAssumption
<1>2. f \in [S -> Nat] /\ \A c \in S : f[c] = Amount[c]
  BY SummaryFields, ValueAssumption DEF InCurrency
<1>3. \A c \in cs :
        /\ c \in S /\ Amount[c] \in Nat /\ s.used[c].estimate \in Nat
        /\ Expected(s, c) \in 0 .. Amount[c]
        /\ 2 * (One * Expected(s, c) - Amount[c] * s.used[c].estimate) \in -One .. One
  BY <1>2, ExpectedBounds, ValueAssumption DEF Estimated, IsEstimated
<1>4. /\ e \in [cs -> Nat] /\ \A c \in cs : e[c] = Expected(s, c)
      /\ \A c \in cs : e[c] <= f[c]
  BY <1>2, <1>3
<1>5. p \in [cs -> Int] /\ \A c \in cs : p[c] = Amount[c] * s.used[c].estimate
  BY <1>3
<1>6. \A c \in cs : 2 * (One * e[c] - p[c]) \in -One .. One
  BY <1>3
<1> HIDE DEF f, e, p, cs, S
<1>7. f \in [S -> Int] /\ e \in [cs -> Int]
  BY <1>2, <1>4
<1>8. PICK g : SumLaws(g, f, S) /\ AmountOf(S) = g[S]
  BY <1>1, <1>2, <1>7, SumOfAmounts
<1>9. PICK h : SumLaws(h, e, cs) /\ ExpectedOf(s, cs) = h[cs]
  BY <1>1, <1>4, <1>7, SumOfExpected
<1>10. PICK q : SumLaws(q, p, cs) /\ ProductOf(s, cs) = q[cs]
  BY <1>1, <1>5, SumOfProducts
<1>11. RevenueAt(s, x) = g[S] /\ ExpectedRecoverable(s, x) = h[cs]
  BY <1>8, <1>9 DEF RevenueAt, ExpectedRecoverable, AmountOf, ExpectedOf, S, cs
<1>12. h[cs] \in 0 .. g[S]
  BY <1>1, <1>2, <1>4, <1>8, <1>9, SumGrows
<1>13. 2 * (One * h[cs] - q[cs]) \in -(One * Cardinality(cs)) .. One * Cardinality(cs)
  BY <1>1, <1>5, <1>6, <1>7, <1>9, <1>10, ErrorsAdd, ValueAssumption
<1> QED
  BY <1>10, <1>11, <1>12, <1>13 DEF ProductOf, cs, S

-------------------------------------------------------------------------------
(* The ranking *)

(* A ranking of S: whoever comes first in a pair outranks the second.      *)
IsRanking(R, S) ==
  /\ \A c \in S : <<c, c>> \notin R
  /\ \A c, d \in S : c # d => <<c, d>> \in R \/ <<d, c>> \in R
  /\ \A c, d, e \in S : <<c, d>> \in R /\ <<d, e>> \in R => <<c, e>> \in R

(* A finite ranking has a last one.                                        *)
LEMMA LastExists ==
  ASSUME NEW R, NEW S, IsFiniteSet(S), IsRanking(R, S)
  PROVE  \A t \in SUBSET S :
           t # {} => \E m \in t : \A c \in t \ {m} : <<c, m>> \in R
<1> DEFINE HasLast(t) == \E m \in t : \A c \in t \ {m} : <<c, m>> \in R
           P == {t \in SUBSET S : t # {} => HasLast(t)}
<1>1. ASSUME NEW t \in SUBSET S, \A x \in t : t \ {x} \in P
      PROVE  t \in P
  <2> SUFFICES ASSUME t # {}
               PROVE  HasLast(t)
    OBVIOUS
  <2>1. PICK x \in t : TRUE
    OBVIOUS
  <2>2. CASE t = {x}
    BY <2>2
  <2>3. CASE t # {x}
    <3>1. PICK m \in t \ {x} : \A c \in (t \ {x}) \ {m} : <<c, m>> \in R
      BY <1>1, <2>1, <2>3
    <3>2. x \in S /\ m \in S /\ x # m
      BY <2>1, <3>1
    <3>3. CASE <<x, m>> \in R
      BY <3>1, <3>3
    <3>4. CASE <<m, x>> \in R
      <4>1. ASSUME NEW c \in t \ {x}
            PROVE  <<c, x>> \in R
        <5>1. c = m \/ <<c, m>> \in R
          BY <3>1
        <5> QED
          BY <3>2, <3>4, <5>1 DEF IsRanking
      <4> QED
        BY <2>1, <4>1
    <3> QED
      BY <3>2, <3>3, <3>4 DEF IsRanking
  <2> QED
    BY <2>2, <2>3
<1>2. P = SUBSET S
  <2> HIDE DEF P
  <2>1. P \in SUBSET (SUBSET S)
    BY DEF P
  <2> QED
    BY <2>1, <1>1, SubsetsInduction
<1> QED
  BY <1>2

(* Those of S outranked by fewer than n.                                   *)
Before(R, S, c) == {d \in S : <<d, c>> \in R}
Leading(R, S, n) == {c \in S : Cardinality(Before(R, S, c)) < n}

(* They are n, or all of S if it has fewer.                                *)
LEMMA LeadingCount ==
  ASSUME NEW R, NEW S, IsFiniteSet(S), IsRanking(R, S), NEW n \in Nat
  PROVE  Cardinality(Leading(R, S, n)) = IF n <= Cardinality(S) THEN n ELSE Cardinality(S)
<1> DEFINE Counts(t) ==
             Cardinality(Leading(R, t, n)) = IF n <= Cardinality(t) THEN n ELSE Cardinality(t)
           P == {t \in SUBSET S : Counts(t)}
<1>1. ASSUME NEW t \in SUBSET S, \A x \in t : t \ {x} \in P
      PROVE  t \in P
  <2>1. CASE t = {}
    <3>1. Leading(R, t, n) = {} /\ Cardinality({}) = 0
      BY <2>1, FS_EmptySet DEF Leading
    <3> QED
      BY <2>1, <3>1
  <2>2. CASE t # {}
    <3>1. PICK m \in t : \A c \in t \ {m} : <<c, m>> \in R
      BY <2>2, LastExists
    <3> DEFINE r == t \ {m}
    <3>2. IsFiniteSet(t) /\ IsFiniteSet(r) /\ Cardinality(t) \in Nat /\ Cardinality(r) = Cardinality(t) - 1
      BY <3>1, FS_Subset, FS_CardinalityType, FS_RemoveElement
    <3>3. Before(R, t, m) = r
      <4>1. <<m, m>> \notin R
        BY <3>1 DEF IsRanking
      <4> QED
        BY <3>1, <4>1 DEF Before
    <3>4. ASSUME NEW c \in r
          PROVE  Before(R, t, c) = Before(R, r, c)
      <4>1. <<m, c>> \notin R
        BY <3>1 DEF IsRanking
      <4> QED
        BY <4>1 DEF Before
    <3>5. m \notin r /\ t = r \cup {m} /\ r \in P
      BY <1>1, <3>1
    <3>6. Counts(r)
      BY <3>5
    <3> HIDE DEF r
    <3>7. Leading(R, t, n) = Leading(R, r, n) \cup {c \in {m} : Cardinality(r) < n}
      BY <3>3, <3>4, <3>5 DEF Leading
    <3>8. Leading(R, r, n) \in SUBSET r
      BY DEF Leading
    <3>9. IsFiniteSet(Leading(R, r, n)) /\ m \notin Leading(R, r, n)
      BY <3>2, <3>5, <3>8, FS_Subset
    <3>10. CASE Cardinality(r) < n
      <4>1. Leading(R, t, n) = Leading(R, r, n) \cup {m}
        BY <3>7, <3>10
      <4>2. Cardinality(Leading(R, t, n)) = Cardinality(Leading(R, r, n)) + 1
        BY <3>9, <4>1, FS_AddElement
      <4> QED
        BY <3>2, <3>6, <3>10, <4>2
    <3>11. CASE ~(Cardinality(r) < n)
      <4>1. Leading(R, t, n) = Leading(R, r, n)
        BY <3>7, <3>11
      <4> QED
        BY <3>2, <3>6, <3>11, <4>1
    <3> QED
      BY <3>10, <3>11
  <2> QED
    BY <2>1, <2>2
<1>2. P = SUBSET S
  <2> HIDE DEF P
  <2>1. P \in SUBSET (SUBSET S)
    BY DEF P
  <2> QED
    BY <2>1, <1>1, SubsetsInduction
<1> QED
  BY <1>2

(* So the top ones are a leading part of the list, as long as the limit.   *)
LEMMA TopIsLeadingPart ==
  ASSUME NEW s \in SummaryType
  PROVE  /\ Cardinality(TopOpportunities(s)) =
              IF TopLimit <= Cardinality(s.listed) THEN TopLimit ELSE Cardinality(s.listed)
         /\ \A c \in TopOpportunities(s), d \in s.listed \ TopOpportunities(s) :
              Outranks(s, c, d)
<1> DEFINE S == s.listed
           R == {p \in S \X S : Outranks(s, p[1], p[2])}
<1>1. IsFiniteSet(S)
  <2>1. S \in SUBSET Cases
    BY SummaryFields
  <2> QED
    BY <2>1, FS_Subset, WindowAssumption
<1>2. \A c \in S : PriorityScore(s, c) \in Int /\ Amount[c] \in Int /\ c \in Int
  <2> SUFFICES ASSUME NEW c \in S
               PROVE  PriorityScore(s, c) \in Int /\ Amount[c] \in Int /\ c \in Int
    OBVIOUS
  <2>1. PriorityScore(s, c) \in Int
    BY PriorityBounds
  <2>2. c \in Cases
    BY SummaryFields
  <2> QED
    BY <2>1, <2>2, ValueAssumption, WindowAssumption
<1>3. \A c, d \in S : <<c, d>> \in R <=> Outranks(s, c, d)
  OBVIOUS
<1> HIDE DEF R
<1>4. /\ \A c \in S : ~Outranks(s, c, c)
      /\ \A c, d \in S : c # d => Outranks(s, c, d) \/ Outranks(s, d, c)
  BY <1>2 DEF Outranks
<1>5. IsRanking(R, S)
  BY <1>3, <1>4, OutranksTransitive DEF IsRanking
<1>6. \A c \in S : Before(R, S, c) = {d \in s.listed : Outranks(s, d, c)}
  BY <1>3 DEF Before
<1>7. TopOpportunities(s) = Leading(R, S, TopLimit)
  BY <1>6 DEF TopOpportunities, Leading
<1>8. Cardinality(TopOpportunities(s)) =
              IF TopLimit <= Cardinality(s.listed) THEN TopLimit ELSE Cardinality(s.listed)
  <2>1. TopLimit \in Nat
    BY ValueAssumption
  <2> QED
    BY <1>1, <1>5, <1>7, <2>1, LeadingCount
<1>9. ASSUME NEW c \in TopOpportunities(s), NEW d \in s.listed \ TopOpportunities(s),
             ~Outranks(s, c, d)
      PROVE  FALSE
  <2>1. c \in S /\ d \in S /\ c # d
    BY DEF TopOpportunities
  <2>2. Outranks(s, d, c)
    BY <1>4, <1>9, <2>1
  <2>3. Before(R, S, d) \in SUBSET Before(R, S, c)
    BY <1>3, <2>1, <2>2, OutranksTransitive DEF Before
  <2>4. Before(R, S, c) \in SUBSET S
    BY DEF Before
  <2>5. /\ Cardinality(Before(R, S, d)) <= Cardinality(Before(R, S, c))
        /\ Cardinality(Before(R, S, d)) \in Nat /\ Cardinality(Before(R, S, c)) \in Nat
    BY <1>1, <2>3, <2>4, FS_Subset, FS_CardinalityType
  <2>6. Cardinality(Before(R, S, c)) < TopLimit /\ ~(Cardinality(Before(R, S, d)) < TopLimit)
    BY <1>7, <2>1 DEF Leading
  <2> QED
    BY <2>5, <2>6, ValueAssumption
<1> QED
  BY <1>8, <1>9

-------------------------------------------------------------------------------
(* The invariant *)

RequestType ==
  {Idle} \cup [pc : {"list", "decide", "answered"}, summary : SummaryType,
               expiring : SUBSET Cases]

TypeOK ==
  /\ now \in Nat
  /\ status \in [Cases -> {"NONE", "AT_RISK", "TERMINAL"}]
  /\ decisions \subseteq Decision
  /\ request \in [Requests -> RequestType]
  /\ screen \in SummaryType \cup {Nothing}

(* What a request is going to expire was due before it listed the cases,   *)
(* and what it listed was not.                                             *)
ListedBetween ==
  \A r \in Requests :
    /\ request[r].pc = "list" => \A c \in request[r].expiring : Closes[c] <= now
    /\ request[r].pc \in {"decide", "answered"} =>
         /\ \A c \in request[r].expiring : Closes[c] <= request[r].summary.at
         /\ \A c \in request[r].summary.listed : Closes[c] > request[r].summary.at

(* Summaries use decisions that are still there, of the case itself.       *)
UsedIsStored ==
  \A s \in Summaries : \A c \in s.listed :
    s.used[c] # NoDecision => s.used[c] \in decisions /\ s.used[c].case = c

(* A case with decisions has a latest one.                                 *)
LatestExists ==
  \A d \in decisions : \E l \in decisions :
    /\ l.case = d.case
    /\ \A e \in decisions : e.case = d.case => l.at >= e.at

Inv == TypeOK /\ ListedBetween /\ UsedIsStored /\ LatestExists

LEMMA SummariesType ==
  ASSUME TypeOK
  PROVE  Summaries \subseteq SummaryType
<1>1. ASSUME NEW r \in Answered
      PROVE  request[r].summary \in SummaryType
  <2>1. request[r] \in RequestType /\ request[r] # Idle
    BY DEF TypeOK, Answered, Idle
  <2> QED
    BY <2>1 DEF RequestType
<1> QED
  BY <1>1 DEF Summaries, TypeOK

LEMMA LatestIsLatest ==
  ASSUME Inv, NEW d \in decisions
  PROVE  /\ Latest(d.case) \in decisions
         /\ Latest(d.case).case = d.case
         /\ Latest(d.case).at >= d.at
<1> DEFINE of == {e \in decisions : e.case = d.case}
<1>1. \E l \in of : \A e \in of : l.at >= e.at
  BY DEF Inv, LatestExists
<1>2. of # {} /\ d \in of
  OBVIOUS
<1>3. Latest(d.case) = CHOOSE l \in of : \A e \in of : l.at >= e.at
  BY <1>2 DEF Latest
<1> QED
  BY <1>1, <1>2, <1>3

LEMMA LatestType ==
  ASSUME Inv, NEW c \in Cases
  PROVE  /\ Latest(c) \in Decision \cup {NoDecision}
         /\ Latest(c) # NoDecision => Latest(c) \in decisions /\ Latest(c).case = c
<1>1. CASE \E d \in decisions : d.case = c
  BY <1>1, LatestIsLatest DEF Inv, TypeOK
<1>2. CASE ~ \E d \in decisions : d.case = c
  BY <1>2 DEF Latest
<1> QED
  BY <1>1, <1>2

-------------------------------------------------------------------------------
(* Each step keeps the invariant *)

LEMMA UsedKept ==
  ASSUME Inv, decisions \subseteq decisions', Summaries' \subseteq Summaries
  PROVE  UsedIsStored'
BY DEF Inv, UsedIsStored

LEMMA TablesStep ==
  ASSUME Inv, Tick \/ \E c \in Cases : CreateCase(c) \/ EndCase(c)
  PROVE  Inv'
<1>1. /\ now' \in Nat /\ now' >= now /\ UNCHANGED <<decisions, request, screen>>
      /\ status' \in [Cases -> {"NONE", "AT_RISK", "TERMINAL"}]
  BY DEF Tick, CreateCase, EndCase, table, Inv, TypeOK
<1>2. TypeOK'
  BY <1>1 DEF Inv, TypeOK
<1>3. ListedBetween'
  <2> SUFFICES ASSUME NEW r \in Requests, request[r].pc = "list", NEW c \in request[r].expiring
               PROVE  Closes[c] <= now'
    BY <1>1 DEF Inv, ListedBetween
  <2>1. request[r] \in RequestType /\ request[r] # Idle
    BY DEF Inv, TypeOK, Idle
  <2>2. c \in Cases
    BY <2>1 DEF RequestType
  <2>3. Closes[c] \in Nat /\ Closes[c] <= now
    BY <2>2, WindowAssumption DEF Inv, ListedBetween
  <2> QED
    BY <1>1, <2>3 DEF Inv, TypeOK
<1>4. UsedIsStored'
  BY <1>1, UsedKept DEF Summaries, Answered
<1>5. LatestExists'
  BY <1>1 DEF Inv, LatestExists
<1> QED
  BY <1>2, <1>3, <1>4, <1>5 DEF Inv

LEMMA AddDecisionStep ==
  ASSUME Inv, NEW d \in Decision, AddDecision(d)
  PROVE  Inv'
<1>1. decisions' = decisions \cup {d} /\ UNCHANGED <<now, status, request, screen>>
  BY DEF AddDecision
<1>2. TypeOK' /\ ListedBetween'
  BY <1>1 DEF Inv, TypeOK, ListedBetween
<1>3. UsedIsStored'
  BY <1>1, UsedKept DEF Summaries, Answered
<1>4. \A e \in decisions' : e \in Decision /\ e.at \in Int
  BY <1>1 DEF Inv, TypeOK, Decision
<1>5. LatestExists'
  <2> SUFFICES ASSUME NEW a \in decisions'
               PROVE  \E l \in decisions' :
                        /\ l.case = a.case
                        /\ \A e \in decisions' : e.case = a.case => l.at >= e.at
    BY DEF LatestExists
  <2>1. CASE \E b \in decisions : b.case = a.case
    <3>1. PICK l \in decisions : /\ l.case = a.case
                                 /\ \A e \in decisions : e.case = a.case => l.at >= e.at
      BY <2>1 DEF Inv, LatestExists
    <3>2. CASE d.case = a.case /\ d.at > l.at
      BY <1>1, <1>4, <3>1, <3>2
    <3>3. CASE d.case # a.case \/ l.at >= d.at
      BY <1>1, <3>1, <3>3
    <3> QED
      BY <1>1, <1>4, <3>1, <3>2, <3>3
  <2>2. CASE ~ \E b \in decisions : b.case = a.case
    BY <1>1, <1>4, <2>2
  <2> QED
    BY <2>1, <2>2
<1> QED
  BY <1>2, <1>3, <1>5 DEF Inv

(* A request that has no answer yet says nothing.                          *)
LEMMA RequestStep ==
  ASSUME Inv, NEW r \in Requests, NEW new \in RequestType,
         request' = [request EXCEPT ![r] = new], UNCHANGED <<now, decisions>>,
         new.pc = "list" => \A c \in new.expiring : Closes[c] <= now,
         new.pc \in {"decide", "answered"} =>
           /\ \A c \in new.expiring : Closes[c] <= new.summary.at
           /\ \A c \in new.summary.listed : Closes[c] > new.summary.at,
         status' \in [Cases -> {"NONE", "AT_RISK", "TERMINAL"}],
         screen' \in SummaryType \cup {Nothing}
  PROVE  TypeOK' /\ ListedBetween' /\ LatestExists'
<1>1. \A q \in Requests : request'[q] = IF q = r THEN new ELSE request[q]
  BY DEF Inv, TypeOK
<1>2. TypeOK'
  BY DEF Inv, TypeOK
<1>3. ListedBetween'
  <2> SUFFICES ASSUME NEW q \in Requests
               PROVE  /\ request'[q].pc = "list" => \A c \in request'[q].expiring : Closes[c] <= now
                      /\ request'[q].pc \in {"decide", "answered"} =>
                           /\ \A c \in request'[q].expiring : Closes[c] <= request'[q].summary.at
                           /\ \A c \in request'[q].summary.listed : Closes[c] > request'[q].summary.at
    BY DEF ListedBetween
  <2>1. CASE q = r
    BY <1>1, <2>1
  <2>2. CASE q # r
    BY <1>1, <2>2 DEF Inv, ListedBetween
  <2> QED
    BY <2>1, <2>2
<1> QED
  BY <1>2, <1>3 DEF Inv, LatestExists

LEMMA PollStep ==
  ASSUME Inv, NEW r \in Requests, Poll(r)
  PROVE  Inv'
<1> DEFINE new == [pc |-> "list", summary |-> SummaryOf({}, 0),
                   expiring |-> {c \in Cases : status[c] = "AT_RISK" /\ Closes[c] <= now}]
<1>1. /\ request[r] = Idle /\ request' = [request EXCEPT ![r] = new]
      /\ UNCHANGED <<now, status, decisions, screen>>
  BY DEF Poll, table
<1>2. SummaryOf({}, 0) \in SummaryType
  BY NewSummary
<1>3. new \in RequestType /\ new.pc = "list" /\ \A c \in new.expiring : Closes[c] <= now
  BY <1>2 DEF RequestType
<1> HIDE DEF new
<1>4. TypeOK' /\ ListedBetween' /\ LatestExists'
  BY <1>1, <1>3, RequestStep DEF Inv, TypeOK
<1>5. Summaries' \subseteq Summaries
  <2>1. \A q \in Answered' : q \in Answered /\ request'[q] = request[q]
    BY <1>1, <1>3 DEF Answered, Inv, TypeOK
  <2> QED
    BY <1>1, <2>1 DEF Summaries
<1> QED
  BY <1>1, <1>4, <1>5, UsedKept DEF Inv

LEMMA ListActiveStep ==
  ASSUME Inv, NEW r \in Requests, ListActive(r)
  PROVE  Inv'
<1> DEFINE old == request[r]
           summary == SummaryOf({c \in Cases : Active(c)}, now)
           new == [old EXCEPT !.pc = "decide", !.summary = summary]
<1>1. /\ old.pc = "list"
      /\ request' = [request EXCEPT ![r].pc = "decide", ![r].summary = summary]
      /\ UNCHANGED <<now, status, decisions, screen>>
  BY DEF ListActive, table
<1>2. /\ old \in [pc : {"list", "decide", "answered"}, summary : SummaryType,
                  expiring : SUBSET Cases]
      /\ \A c \in old.expiring : Closes[c] <= now
  BY <1>1 DEF Inv, TypeOK, RequestType, Idle, ListedBetween
<1>3. request' = [request EXCEPT ![r] = new]
  BY <1>1 DEF Inv, TypeOK
<1>4. summary \in SummaryType /\ summary.at = now /\ \A c \in summary.listed : Closes[c] > now
  <2>1. summary \in SummaryType
    BY NewSummary DEF Inv, TypeOK
  <2> QED
    BY <2>1 DEF SummaryOf, Active
<1>5. new \in RequestType /\ new.pc = "decide" /\ new.summary = summary
      /\ new.expiring = old.expiring
  BY <1>2, <1>4 DEF RequestType
<1> HIDE DEF new, summary
<1>6. TypeOK' /\ ListedBetween' /\ LatestExists'
  BY <1>1, <1>2, <1>3, <1>4, <1>5, RequestStep DEF Inv, TypeOK
<1>7. Summaries' \subseteq Summaries
  <2>1. \A q \in Answered' : q \in Answered /\ request'[q] = request[q]
    BY <1>3, <1>5 DEF Answered, Inv, TypeOK
  <2> QED
    BY <1>1, <2>1 DEF Summaries
<1> QED
  BY <1>1, <1>6, <1>7, UsedKept DEF Inv

(* The snapshot: what is built of which request.                           *)
LEMMA SnapshotFacts ==
  ASSUME Inv, NEW r \in Requests, BuildSnapshot(r)
  PROVE  LET old == request[r]
             new == request'[r]
         IN /\ old.pc = "decide" /\ old \in RequestType \ {Idle}
            /\ new \in RequestType /\ request' = [request EXCEPT ![r] = new]
            /\ new.pc = "answered" /\ new.expiring = old.expiring
            /\ new.summary.at = old.summary.at
            /\ new.summary.listed = old.summary.listed
            /\ \A c \in new.summary.listed : new.summary.used[c] = Latest(c)
            /\ UNCHANGED <<now, decisions, screen>>
            /\ status' \in [Cases -> {"NONE", "AT_RISK", "TERMINAL"}]
<1> DEFINE old == request[r]
           listed == old.summary.listed
           used == [c \in listed |-> Latest(c)]
           summary == [old.summary EXCEPT !.used = used]
           new == [old EXCEPT !.pc = "answered", !.summary = summary]
<1>1. /\ old.pc = "decide"
      /\ request' = [request EXCEPT ![r].pc = "answered", ![r].summary.used = used]
      /\ UNCHANGED <<now, decisions, screen>>
  BY DEF BuildSnapshot
<1>2. old \in RequestType \ {Idle} /\ old.summary \in SummaryType
  BY <1>1 DEF Inv, TypeOK, RequestType, Idle
<1>3. PICK cs \in SUBSET Cases :
        old.summary \in [at : Nat, listed : {cs}, used : [cs -> Decision \cup {NoDecision}]]
  BY <1>2 DEF SummaryType
<1>4. used \in [cs -> Decision \cup {NoDecision}] /\ listed = cs
  BY <1>3, LatestType
<1> HIDE DEF used
<1>5. summary \in [at : Nat, listed : {cs}, used : [cs -> Decision \cup {NoDecision}]]
  BY <1>3, <1>4
<1>6. summary \in SummaryType
  BY <1>5 DEF SummaryType
<1>7. summary.at = old.summary.at /\ summary.listed = listed /\ summary.used = used
  BY <1>3
<1>8. request' = [request EXCEPT ![r] = new] /\ request'[r] = new
  <2>1. old \in [pc : {"list", "decide", "answered"}, summary : SummaryType,
                 expiring : SUBSET Cases]
    BY <1>2 DEF RequestType
  <2>2. [old EXCEPT !.pc = "answered"].summary = old.summary
    BY <2>1
  <2>3. request'[r] = [[old EXCEPT !.pc = "answered"] EXCEPT !.summary =
                         [[old EXCEPT !.pc = "answered"].summary EXCEPT !.used = used]]
    BY <1>1 DEF Inv, TypeOK
  <2>4. request'[r] = new
    BY <2>2, <2>3
  <2> HIDE DEF new
  <2> QED
    BY <1>1, <2>4 DEF Inv, TypeOK
<1> HIDE DEF summary
<1>9. new \in RequestType /\ new.pc = "answered" /\ new.summary = summary
      /\ new.expiring = old.expiring
  BY <1>2, <1>6 DEF RequestType
<1>10. status' \in [Cases -> {"NONE", "AT_RISK", "TERMINAL"}]
  BY DEF BuildSnapshot, Inv, TypeOK
<1>11. \A c \in listed : used[c] = Latest(c)
  BY DEF used
<1> HIDE DEF new
<1> QED
  BY <1>1, <1>2, <1>7, <1>8, <1>9, <1>10, <1>11

LEMMA BuildSnapshotStep ==
  ASSUME Inv, NEW r \in Requests, BuildSnapshot(r)
  PROVE  Inv'
<1> DEFINE new == request'[r]
<1>1. /\ request[r].pc = "decide" /\ request[r] \in RequestType \ {Idle}
      /\ new \in RequestType /\ request' = [request EXCEPT ![r] = new]
      /\ new.pc = "answered" /\ new.expiring = request[r].expiring
      /\ new.summary.at = request[r].summary.at
      /\ new.summary.listed = request[r].summary.listed
      /\ \A c \in new.summary.listed : new.summary.used[c] = Latest(c)
      /\ UNCHANGED <<now, decisions, screen>>
      /\ status' \in [Cases -> {"NONE", "AT_RISK", "TERMINAL"}]
  BY SnapshotFacts
<1>2. /\ \A c \in new.expiring : Closes[c] <= new.summary.at
      /\ \A c \in new.summary.listed : Closes[c] > new.summary.at
  BY <1>1 DEF Inv, ListedBetween
<1>3. TypeOK' /\ ListedBetween' /\ LatestExists'
  BY <1>1, <1>2, RequestStep DEF Inv, TypeOK
<1>4. UsedIsStored'
  <2> SUFFICES ASSUME NEW s \in Summaries', NEW c \in s.listed, s.used[c] # NoDecision
               PROVE  s.used[c] \in decisions /\ s.used[c].case = c
    BY <1>1 DEF UsedIsStored
  <2>1. \A q \in Answered' : q = r \/ (q \in Answered /\ request'[q] = request[q])
    BY <1>1 DEF Answered, Inv, TypeOK
  <2>2. s \in Summaries \/ s = new.summary
    BY <1>1, <2>1 DEF Summaries
  <2>3. CASE s \in Summaries
    BY <2>3 DEF Inv, UsedIsStored
  <2>4. CASE s = new.summary
    <3>1. new.summary \in SummaryType
      BY <1>1 DEF RequestType, Idle
    <3>2. c \in Cases /\ s.used[c] = Latest(c)
      BY <1>1, <2>4, <3>1, SummaryFields
    <3> QED
      BY <3>2, LatestType
  <2> QED
    BY <2>2, <2>3, <2>4
<1> QED
  BY <1>3, <1>4 DEF Inv

LEMMA AnswerStep ==
  ASSUME Inv, NEW r \in Requests, Show(r) \/ RequestFails(r)
  PROVE  Inv'
<1>1. /\ request' = [request EXCEPT ![r] = Idle]
      /\ UNCHANGED <<now, status, decisions>>
      /\ \/ screen' = screen
         \/ r \in Answered /\ screen' = request[r].summary
  BY DEF Show, RequestFails, table, Answered
<1>2. screen' \in SummaryType \cup {Nothing}
  BY <1>1, SummariesType DEF Inv, TypeOK, Summaries
<1>3. Idle \in RequestType /\ Idle.pc = "idle"
  BY DEF RequestType, Idle
<1>4. TypeOK' /\ ListedBetween' /\ LatestExists'
  BY <1>1, <1>2, <1>3, RequestStep DEF Inv, TypeOK
<1>5. Summaries' \subseteq Summaries
  <2>1. \A q \in Answered' : q \in Answered /\ request'[q] = request[q]
    BY <1>1, <1>3 DEF Answered, Inv, TypeOK
  <2> QED
    BY <1>1, <2>1 DEF Summaries
<1> QED
  BY <1>1, <1>4, <1>5, UsedKept DEF Inv

LEMMA InvHolds == Spec => []Inv
<1>1. Init => Inv
  <2> SUFFICES ASSUME Init
               PROVE  Inv
    OBVIOUS
  <2>1. TypeOK
    BY DEF Init, TypeOK, RequestType
  <2>2. Summaries = {}
    BY DEF Init, Summaries, Answered, Idle
  <2> QED
    BY <2>1, <2>2 DEF Init, Inv, ListedBetween, UsedIsStored, LatestExists, Idle
<1>2. Inv /\ [Next]_vars => Inv'
  <2> SUFFICES ASSUME Inv, [Next]_vars
               PROVE  Inv'
    OBVIOUS
  <2>1. CASE UNCHANGED vars
    BY <2>1 DEF vars, table, Inv, TypeOK, ListedBetween, UsedIsStored, LatestExists,
                Summaries, Answered
  <2>2. CASE Tick \/ \E c \in Cases : CreateCase(c) \/ EndCase(c)
    BY <2>2, TablesStep
  <2>3. CASE \E d \in Decision : AddDecision(d)
    BY <2>3, AddDecisionStep
  <2>4. CASE \E r \in Requests : Poll(r) \/ Serve(r) \/ RequestFails(r)
    BY <2>4, PollStep, ListActiveStep, BuildSnapshotStep, AnswerStep DEF Serve
  <2> QED
    BY <2>1, <2>2, <2>3, <2>4 DEF Next
<1> QED
  BY <1>1, <1>2, PTL DEF Spec

-------------------------------------------------------------------------------
(* The theorems *)

(* _expire_due before list_active, with the clock running on: no summary   *)
(* lists a case that it expires itself or whose window is over.            *)
THEOREM ListedIsLiveHolds == Spec => []ListedIsLive
<1>1. Inv => ListedIsLive
  <2> SUFFICES ASSUME Inv, NEW r \in Answered
               PROVE  /\ request[r].summary.listed \cap request[r].expiring = {}
                      /\ \A c \in request[r].summary.listed : Closes[c] > request[r].summary.at
    BY DEF ListedIsLive
  <2>1. /\ \A c \in request[r].expiring : Closes[c] <= request[r].summary.at
        /\ \A c \in request[r].summary.listed : Closes[c] > request[r].summary.at
    BY DEF Inv, ListedBetween, Answered
  <2>2. request[r].summary \in SummaryType
    BY SummariesType DEF Inv, Summaries
  <2>3. request[r].summary.listed \subseteq Cases /\ request[r].summary.at \in Int
    BY <2>2, SummaryFields
  <2>4. \A c \in Cases : Closes[c] \in Int
    BY WindowAssumption
  <2> QED
    BY <2>1, <2>3, <2>4
<1> QED
  BY <1>1, InvHolds, PTL

(* revenue_at_risk.py priority_score: between one and two times the basis, *)
(* and never falling while a case's amount and decision stay, for every    *)
(* window, amount and estimate.                                            *)
THEOREM UrgencyGrowsHolds == Spec => []UrgencyGrows
<1>1. Inv => UrgencyGrows
  BY SummariesType, PriorityBounds, PriorityGrows DEF Inv, UrgencyGrows
<1> QED
  BY <1>1, InvHolds, PTL

(* The ranking of top_opportunities: however the others are estimated and  *)
(* however short the list, an unscored case stays before every smaller one *)
(* of its window.                                                          *)
THEOREM UnscoredStaysVisibleHolds == Spec => []UnscoredStaysVisible
<1>1. Inv => UnscoredStaysVisible
  BY SummariesType, UnscoredInTop DEF Inv, UnscoredStaysVisible
<1> QED
  BY <1>1, InvHolds, PTL

(* _latest_decisions: whatever the order in which decisions commit, a later*)
(* snapshot never goes back to an older decision.                          *)
THEOREM LaterShowsNewerHolds == Spec => LaterShowsNewer
<1>1. Inv /\ [Next]_vars =>
        [\A r \in Requests : BuildSnapshot(r) =>
           \A s \in Summaries : \A c \in s.listed \cap request'[r].summary.listed :
             s.used[c] # NoDecision =>
               /\ request'[r].summary.used[c] # NoDecision
               /\ request'[r].summary.used[c].at >= s.used[c].at]_vars
  <2> SUFFICES ASSUME Inv, NEW r \in Requests, BuildSnapshot(r), NEW s \in Summaries,
                      NEW c \in s.listed \cap request'[r].summary.listed,
                      s.used[c] # NoDecision
               PROVE  /\ request'[r].summary.used[c] # NoDecision
                      /\ request'[r].summary.used[c].at >= s.used[c].at
    OBVIOUS
  <2>1. s.used[c] \in decisions /\ s.used[c].case = c
    BY DEF Inv, UsedIsStored
  <2>2. request'[r].summary.used[c] = Latest(c)
    BY SnapshotFacts
  <2>3. Latest(c) \in decisions /\ Latest(c).at >= s.used[c].at
    BY <2>1, LatestIsLatest
  <2> QED
    BY <2>2, <2>3, NullAssumption DEF Inv, TypeOK
<1> QED
  BY <1>1, InvHolds, PTL DEF Spec, LaterShowsNewer

(* quantize(1, ROUND_HALF_UP) of amount times probability, the summand of  *)
(* expected_recoverable_revenue: no more than the amount, and within half a*)
(* unit of the product.                                                    *)
THEOREM ExpectedPerCase ==
  Spec => [](\A s \in Summaries : \A c \in Estimated(s) :
               /\ Expected(s, c) \in 0 .. Amount[c]
               /\ 2 * (One * Expected(s, c) - Amount[c] * s.used[c].estimate)
                    \in -One .. One)
<1>1. Inv => \A s \in Summaries : \A c \in Estimated(s) :
               /\ Expected(s, c) \in 0 .. Amount[c]
               /\ 2 * (One * Expected(s, c) - Amount[c] * s.used[c].estimate)
                    \in -One .. One
  BY SummariesType, ExpectedBounds DEF Inv
<1> QED
  BY <1>1, InvHolds, PTL

(* expected_recoverable_revenue against revenue_at_risk, per currency: no  *)
(* more is expected than is at risk, and quantizing case by case strays    *)
(* from the exact sum by at most half a unit per estimated case.           *)
THEOREM ExpectedIsWithinRevenueHolds == Spec => []ExpectedIsWithinRevenue
<1>1. Inv => ExpectedIsWithinRevenue
  <2> SUFFICES ASSUME Inv, NEW s \in Summaries, NEW x
               PROVE  LET cs == InCurrency(s, x) \cap Estimated(s)
                          exact == MapThenSumSet(LAMBDA c : Amount[c] * s.used[c].estimate, cs)
                          error == 2 * (One * ExpectedRecoverable(s, x) - exact)
                      IN /\ ExpectedRecoverable(s, x) \in 0 .. RevenueAt(s, x)
                         /\ error \in -(One * Cardinality(cs)) .. One * Cardinality(cs)
    BY DEF ExpectedIsWithinRevenue
  <2>1. s \in SummaryType
    BY SummariesType DEF Inv
  <2> QED
    BY <2>1, SumsBounds
<1> QED
  BY <1>1, InvHolds, PTL

(* opportunities.sort(...) and [:top_limit]: the top opportunities are as  *)
(* many as the limit and the list allow, and each outranks every case that *)
(* is left out.                                                            *)
THEOREM TopIsLeading ==
  Spec => [](\A s \in Summaries :
               /\ Cardinality(TopOpportunities(s)) = Min({TopLimit, Cardinality(s.listed)})
               /\ \A c \in TopOpportunities(s), d \in s.listed \ TopOpportunities(s) :
                    Outranks(s, c, d))
<1>1. Inv => \A s \in Summaries :
               /\ Cardinality(TopOpportunities(s)) = Min({TopLimit, Cardinality(s.listed)})
               /\ \A c \in TopOpportunities(s), d \in s.listed \ TopOpportunities(s) :
                    Outranks(s, c, d)
  <2> SUFFICES ASSUME Inv, NEW s \in Summaries
               PROVE  /\ Cardinality(TopOpportunities(s)) = Min({TopLimit, Cardinality(s.listed)})
                      /\ \A c \in TopOpportunities(s), d \in s.listed \ TopOpportunities(s) :
                           Outranks(s, c, d)
    OBVIOUS
  <2>1. s \in SummaryType
    BY SummariesType DEF Inv
  <2>2. s.listed \in SUBSET Cases
    BY <2>1, SummaryFields
  <2>3. TopLimit \in Int /\ Cardinality(s.listed) \in Int
    BY <2>2, FS_Subset, FS_CardinalityType, WindowAssumption, ValueAssumption
  <2> QED
    BY <2>1, <2>3, TopIsLeadingPart, MinOfTwo
<1> QED
  BY <1>1, InvHolds, PTL
===============================================================================
