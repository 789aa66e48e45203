----------------------------- MODULE SiteAuditProofs -----------------------------
(***************************************************************************)
(* The audit of a site as a whole (SiteAudit, FindableScore): its reports     *)
(* agree, and its score is a mean that rises with the site.                   *)
(***************************************************************************)
EXTENDS SitePartsProofs

LEMMA TimesIs == ASSUME NEW q PROVE Q!Times(q) \in 1..3
BY DEF Q!Times

\* The questions of an audit and how often each counts.
Counted(A, t) == t = [q \in A |-> Q!Times(q)]

LEMMA CountsAre ==
  ASSUME NEW A, IsFiniteSet(A), NEW t, Counted(A, t), NEW S \in SUBSET A
  PROVE  /\ IsFiniteSet(S) /\ \A q \in S : t[q] \in Nat /\ t[q] >= 1 /\ t[q] <= 3 /\ t[q] = Q!Times(q)
         /\ Q!SumOver([q \in S |-> Q!Times(q)]) = SumOn(t, S) /\ SumOn(t, S) \in Nat
<1>1. IsFiniteSet(S)
  BY FS_Subset
<1>2. \A q \in S : t[q] \in Nat /\ t[q] >= 1 /\ t[q] <= 3 /\ t[q] = Q!Times(q)
  <2> TAKE q \in S
  <2>1. t[q] = Q!Times(q)
    BY DEF Counted
  <2> QED BY <2>1, TimesIs
<1>3. Q!SumOver([q \in S |-> Q!Times(q)]) = SumOn(t, S)
  <2>1. PICK w : w = [q \in S |-> Q!Times(q)]
    OBVIOUS
  <2>2. \A q \in S : w[q] = t[q] /\ w[q] \in Int
    BY <1>2, <2>1
  <2>3. Q!SumOver(w) = SumOn(w, S)
    BY <2>1, QSum
  <2>4. SumOn(w, S) = SumOn(t, S)
    <3>1. Numbers(w, S)
      BY <1>1, <2>2 DEF Numbers
    <3> QED BY <2>2, <3>1, SumAgree
  <2> QED BY <2>1, <2>3, <2>4
<1>4. SumOn(t, S) \in Nat
  BY <1>1, <1>2, SumNat
<1> QED BY <1>1, <1>2, <1>3, <1>4

\* A mean over the questions.
LEMMA MeanOver ==
  ASSUME NEW A, IsFiniteSet(A), NEW t, Counted(A, t), NEW S \in SUBSET A, S # {},
         NEW w, NEW k \in Nat, \A q \in S : w[q] \in Nat /\ w[q] <= k
  PROVE  /\ Q!SumOver([q \in S |-> Q!Times(q) * w[q]]) \in Nat
         /\ SumOn(t, S) \in Nat /\ SumOn(t, S) > 0
         /\ Q!SumOver([q \in S |-> Q!Times(q) * w[q]]) \div SumOn(t, S) \in Nat
         /\ Q!SumOver([q \in S |-> Q!Times(q) * w[q]]) \div SumOn(t, S) <= k
<1>1. IsFiniteSet(S) /\ \A q \in S : t[q] \in Nat /\ t[q] >= 1 /\ t[q] = Q!Times(q)
  BY CountsAre
<1>2. PICK v : v = [q \in S |-> Q!Times(q) * w[q]]
  OBVIOUS
<1>3. \A q \in S : v[q] \in Nat /\ v[q] <= k * t[q]
  <2> TAKE q \in S
  <2>1. PICK x \in Nat, y \in Nat : x = t[q] /\ y = w[q] /\ y <= k
    BY <1>1
  <2>2. v[q] = x * y
    BY <1>1, <1>2, <2>1
  <2>3. x * y \in Nat /\ x * y <= k * x
    BY <2>1, SMT
  <2> QED BY <2>1, <2>2, <2>3
<1>4. Q!SumOver(v) = SumOn(v, S)
  BY <1>2, QSum
<1>5. SumOn(v, S) \in Nat
  BY <1>1, <1>3, SumNat
<1>6. /\ SumOn(t, S) \in Nat /\ SumOn(t, S) > 0
      /\ SumOn(v, S) \div SumOn(t, S) \in Nat /\ SumOn(v, S) \div SumOn(t, S) <= k
  BY <1>1, <1>3, Mean
<1> QED BY <1>2, <1>4, <1>5, <1>6

\* Questions with their results.
Rated(A, results, evidence) ==
  /\ IsFiniteSet(A) /\ Q!Universal \subseteq A /\ DOMAIN results = A
  /\ \A q \in A : q.category \in Q!Categories /\ q.signals \in 0..4 /\ Results(q, results[q])
  /\ \A c \in Q!Categories : Evidences(evidence[c])

LEMMA AnswersAreRated ==
  ASSUME NEW txt, NEW A, NEW evidence, NEW rep, Answered(txt, A, evidence, rep)
  PROVE  Rated(A, rep.results, evidence)
<1>1. Asked(A) /\ \A c \in Q!Categories : Evidences(evidence[c])
  BY Zenon DEF Answered
<1>2. /\ DOMAIN rep.results = A
      /\ \A q \in A : q.category \in Q!Categories /\ q.signals \in 0..4 /\ Results(q, rep.results[q])
  BY ResultsAre
<1> QED BY <1>1, <1>2 DEF Rated, Asked

\* A question of every category is among those of every site.
LEMMA EveryCategoryIsAsked ==
  ASSUME NEW c \in Q!Categories
  PROVE  \E q \in Q!Universal : q.category = c /\ q.signals >= 3
<1> DEFINE a == Q!Asks(<<"UQ", 1>>, "identity", 3, "")
           b == Q!Asks(<<"UQ", 4>>, "offerings", 3, "")
           e == Q!Asks(<<"UQ", 9>>, "contact", 3, "")
           f == Q!Asks(<<"UQ", 10>>, "trust", 4, "")
           g == Q!Asks(<<"UQ", 14>>, "differentiation", 3, "")
<1>1. a \in Q!Universal /\ b \in Q!Universal /\ e \in Q!Universal /\ f \in Q!Universal /\ g \in Q!Universal
  BY Zenon DEF Q!Universal
<1>2. /\ a.category = "identity" /\ a.signals = 3 /\ b.category = "offerings" /\ b.signals = 3
      /\ e.category = "contact" /\ e.signals = 3 /\ f.category = "trust" /\ f.signals = 4
      /\ g.category = "differentiation" /\ g.signals = 3
  BY DEF Q!Asks
<1>3. c \in {"identity", "offerings", "contact", "trust", "differentiation"}
  BY DEF Q!Categories
<1> HIDE DEF a, b, e, f, g
<1>4. \A q : q.signals = 3 \/ q.signals = 4 => q.signals >= 3
  OBVIOUS
<1> QED BY <1>1, <1>2, <1>3, <1>4, Zenon

LEMMA OfIs ==
  ASSUME NEW A, NEW results, NEW evidence, Rated(A, results, evidence), NEW c \in Q!Categories
  PROVE  /\ Q!Of(results, c) \in SUBSET A /\ Q!Of(results, c) # {}
         /\ Q!Of(results, c) = {q \in A : q.category = c}
<1>1. Q!Of(results, c) = {q \in A : q.category = c}
  BY DEF Rated, Q!Of
<1>2. \E q \in A : q.category = c
  BY EveryCategoryIsAsked DEF Rated
<1> QED BY <1>1, <1>2

LEMMA CategoryScoreIs ==
  ASSUME NEW A, NEW results, NEW evidence, Rated(A, results, evidence), NEW c \in Q!Categories,
         NEW k \in Nat, \A q \in Q!Of(results, c) : results[q].score \in Nat /\ results[q].score <= k
  PROVE  Q!CategoryScore(results, c) \in Nat /\ Q!CategoryScore(results, c) <= k
<1>1. PICK S \in SUBSET A : S = Q!Of(results, c) /\ S # {}
  BY OfIs
<1>2. PICK t : Counted(A, t)
  BY DEF Counted
<1>3. IsFiniteSet(A)
  BY DEF Rated
<1>4. PICK w : w = [q \in S |-> results[q].score]
  OBVIOUS
<1>5. \A q \in S : w[q] \in Nat /\ w[q] <= k /\ w[q] = results[q].score
  BY <1>1, <1>4
<1>6. /\ Q!SumOver([q \in S |-> Q!Times(q) * w[q]]) \div SumOn(t, S) \in Nat
      /\ Q!SumOver([q \in S |-> Q!Times(q) * w[q]]) \div SumOn(t, S) <= k
  BY <1>1, <1>2, <1>3, <1>5, MeanOver
<1>7. Q!SumOver([q \in S |-> Q!Times(q)]) = SumOn(t, S)
  BY <1>2, <1>3, CountsAre
<1>8. [q \in S |-> Q!Times(q) * w[q]] = [q \in S |-> Q!Times(q) * results[q].score]
  BY <1>5
<1>9. Q!CategoryScore(results, c) = Q!SumOver([q \in S |-> Q!Times(q) * results[q].score]) \div Q!SumOver([q \in S |-> Q!Times(q)])
  BY <1>1, Zenon DEF Q!CategoryScore
<1> QED BY <1>6, <1>7, <1>8, <1>9

LEMMA ByCategoryIs ==
  ASSUME NEW A, NEW results, NEW evidence, Rated(A, results, evidence)
  PROVE  Q!ByCategory(results) \in Nat /\ Q!ByCategory(results) <= 100000
<1> DEFINE w == [c \in Q!Categories |-> (Q!CategoryWeights[c] * Q!CategoryScore(results, c)) \div 60]
<1>1. ASSUME NEW c \in Q!Categories PROVE Q!CategoryScore(results, c) \in Nat /\ Q!CategoryScore(results, c) <= 60000
  <2>1. PICK k \in Nat : k = 60000
    BY SMT
  <2>2. \A q \in Q!Of(results, c) : results[q].score \in Nat /\ results[q].score <= k
    <3> TAKE q \in Q!Of(results, c)
    <3>1. q \in A
      BY OfIs
    <3>2. Results(q, results[q])
      BY <3>1 DEF Rated
    <3> QED BY <2>1, <3>2, SMT DEF Results
  <2>3. Q!CategoryScore(results, c) \in Nat /\ Q!CategoryScore(results, c) <= k
    BY <2>2, CategoryScoreIs
  <2> QED BY <2>1, <2>3
<1>2. \A s, k \in Nat : (s <= 60000 /\ k >= 1) => ((k * s) \div 60) \in Nat /\ (k * s) \div 60 <= 1000 * k
  <2> TAKE s, k \in Nat
  <2> HAVE s <= 60000 /\ k >= 1
  <2>1. PICK a \in Nat, m \in Nat, b \in Nat : a = k * s /\ m = 1000 * k /\ b = 60
    BY SMT
  <2>2. k * s <= k * 60000
    BY SMT
  <2>3. a < m * b + b
    BY <2>1, <2>2, SMT
  <2>4. b > 0
    BY <2>1, SMT
  <2>5. a \div b \in Nat /\ a \div b <= m
    BY <2>3, <2>4, QuotientBound
  <2> QED BY <2>1, <2>5, SMT
<1>3. \A c \in Q!Categories : Q!CategoryWeights[c] \in Nat /\ Q!CategoryWeights[c] >= 1
  BY DEF Q!Categories, Q!CategoryWeights
<1>4. \A c \in Q!Categories : w[c] \in Nat /\ w[c] <= 1000 * Q!CategoryWeights[c]
  <2> TAKE c \in Q!Categories
  <2>1. PICK s \in Nat, k \in Nat : s = Q!CategoryScore(results, c) /\ k = Q!CategoryWeights[c] /\ s <= 60000 /\ k >= 1
    BY <1>1, <1>3
  <2>2. w[c] = (k * s) \div 60
    BY <2>1
  <2> HIDE DEF w
  <2>3. s <= 60000 /\ k >= 1
    BY <2>1
  <2>4. ((k * s) \div 60) \in Nat /\ (k * s) \div 60 <= 1000 * k
    BY <1>2, <2>3
  <2> QED BY <2>1, <2>2, <2>4
<1>5. PICK v : v = w
  OBVIOUS
<1>6. Q!ByCategory(results) = SumOn(v, Q!Categories)
  <2>1. Q!ByCategory(results) = Q!SumOver(v) /\ DOMAIN v = Q!Categories
    BY <1>5, Zenon DEF Q!ByCategory
  <2> QED BY <2>1, QSum
<1> DEFINE C1 == {"identity"} C2 == C1 \cup {"offerings"} C3 == C2 \cup {"contact"} C4 == C3 \cup {"trust"}
           C5 == C4 \cup {"differentiation"}
<1>7. C5 = Q!Categories
  BY DEF Q!Categories
<1>8. IsFiniteSet(Q!Categories) /\ Numbers(v, Q!Categories)
  <2>1. IsFiniteSet(C1) /\ \A S, x : IsFiniteSet(S) => IsFiniteSet(S \cup {x})
    BY FS_Singleton, FS_AddElement
  <2>2. IsFiniteSet(C5)
    BY <2>1
  <2>3. \A c \in Q!Categories : v[c] \in Nat
    BY <1>4, <1>5
  <2> HIDE DEF w
  <2> QED BY <1>7, <2>2, <2>3, SumNat
<1>9. /\ "identity" \in Q!Categories /\ "offerings" \in Q!Categories /\ "contact" \in Q!Categories
      /\ "trust" \in Q!Categories /\ "differentiation" \in Q!Categories
  BY DEF Q!Categories
<1> HIDE DEF w
<1>10. /\ SumOn(v, C1) = v["identity"]
       /\ SumOn(v, C2) = v["offerings"] + SumOn(v, C1) /\ SumOn(v, C3) = v["contact"] + SumOn(v, C2)
       /\ SumOn(v, C4) = v["trust"] + SumOn(v, C3) /\ SumOn(v, C5) = v["differentiation"] + SumOn(v, C4)
  <2>1. SumOn(v, C1) = v["identity"]
    <3>1. v["identity"] \in Int
      BY <1>4, <1>5, <1>9
    <3> QED BY <3>1, SumOfOne
  <2>2. C1 \in SUBSET Q!Categories /\ "offerings" \notin C1
    BY <1>7
  <2>3. C2 \in SUBSET Q!Categories /\ "contact" \notin C2
    BY <1>7
  <2>4. C3 \in SUBSET Q!Categories /\ "trust" \notin C3
    BY <1>7
  <2>5. C4 \in SUBSET Q!Categories /\ "differentiation" \notin C4
    BY <1>7
  <2>6. SumOn(v, C2) = v["offerings"] + SumOn(v, C1)
    BY <1>8, <1>9, <2>2, SumAdd
  <2> HIDE DEF C1
  <2>7. SumOn(v, C3) = v["contact"] + SumOn(v, C2)
    BY <1>8, <1>9, <2>3, SumAdd
  <2> HIDE DEF C2
  <2>8. SumOn(v, C4) = v["trust"] + SumOn(v, C3)
    BY <1>8, <1>9, <2>4, SumAdd
  <2> HIDE DEF C3
  <2>9. SumOn(v, C5) = v["differentiation"] + SumOn(v, C4)
    BY <1>8, <1>9, <2>5, SumAdd
  <2> QED BY <2>1, <2>6, <2>7, <2>8, <2>9
<1>11. /\ Q!CategoryWeights["identity"] = 25 /\ Q!CategoryWeights["offerings"] = 30
       /\ Q!CategoryWeights["contact"] = 15 /\ Q!CategoryWeights["trust"] = 15
       /\ Q!CategoryWeights["differentiation"] = 15
  BY DEF Q!CategoryWeights
<1>12. PICK a \in Nat, b \in Nat, c \in Nat, d \in Nat, e \in Nat :
         /\ a = v["identity"] /\ b = v["offerings"] /\ c = v["contact"] /\ d = v["trust"] /\ e = v["differentiation"]
         /\ a <= 1000 * Q!CategoryWeights["identity"] /\ b <= 1000 * Q!CategoryWeights["offerings"]
         /\ c <= 1000 * Q!CategoryWeights["contact"] /\ d <= 1000 * Q!CategoryWeights["trust"]
         /\ e <= 1000 * Q!CategoryWeights["differentiation"]
  <2>1. \A c \in Q!Categories : v[c] \in Nat /\ v[c] <= 1000 * Q!CategoryWeights[c]
    BY <1>4, <1>5
  <2>2. /\ v["identity"] \in Nat /\ v["offerings"] \in Nat /\ v["contact"] \in Nat
        /\ v["trust"] \in Nat /\ v["differentiation"] \in Nat
    BY <1>9, <2>1
  <2>3. /\ v["identity"] <= 1000 * Q!CategoryWeights["identity"]
        /\ v["offerings"] <= 1000 * Q!CategoryWeights["offerings"]
        /\ v["contact"] <= 1000 * Q!CategoryWeights["contact"]
        /\ v["trust"] <= 1000 * Q!CategoryWeights["trust"]
        /\ v["differentiation"] <= 1000 * Q!CategoryWeights["differentiation"]
    BY <1>9, <2>1
  <2> QED BY <2>2, <2>3
<1>14. a <= 25000 /\ b <= 30000 /\ c <= 15000 /\ d <= 15000 /\ e <= 15000
  BY <1>11, <1>12, SMT
<1> HIDE DEF C1, C2, C3, C4, C5
<1>13. SumOn(v, C5) = e + (d + (c + (b + a)))
  BY <1>10, <1>12
<1> QED BY <1>6, <1>7, <1>12, <1>13, <1>14, SMT

\* The sum of some numbers of the questions.
OverAll(A, w) == Q!SumOver([q \in A |-> Q!Times(q) * w[q]])

\* Such sums grow with the numbers, and are no more than the bound allows.
LEMMA OverAllIs ==
  ASSUME NEW A, IsFiniteSet(A), NEW t, Counted(A, t),
         NEW v, NEW w, \A q \in A : v[q] \in Nat /\ w[q] \in Nat /\ v[q] <= w[q],
         NEW k \in Nat, \A q \in A : w[q] <= k
  PROVE  /\ OverAll(A, v) \in Nat /\ OverAll(A, w) \in Nat /\ SumOn(t, A) \in Nat
         /\ OverAll(A, v) <= OverAll(A, w) /\ OverAll(A, w) <= k * SumOn(t, A)
<1>1. PICK x : x = [q \in A |-> Q!Times(q) * v[q]]
  OBVIOUS
<1>2. PICK y : y = [q \in A |-> Q!Times(q) * w[q]]
  OBVIOUS
<1>3. A \in SUBSET A
  OBVIOUS
<1>4. \A q \in A : t[q] \in Nat /\ t[q] = Q!Times(q)
  BY <1>3, CountsAre
<1>5. \A q \in A : x[q] \in Nat /\ y[q] \in Nat /\ x[q] <= y[q] /\ y[q] <= k * t[q]
  <2> TAKE q \in A
  <2>1. PICK a \in Nat, b \in Nat, n \in Nat : a = v[q] /\ b = w[q] /\ n = t[q] /\ a <= b /\ b <= k
    BY <1>4
  <2>2. x[q] = n * a /\ y[q] = n * b
    BY <1>1, <1>2, <1>4, <2>1
  <2>3. n * a \in Nat /\ n * b \in Nat /\ n * a <= n * b /\ n * b <= k * n
    BY <2>1, SMT
  <2> QED BY <2>1, <2>2, <2>3
<1>6. OverAll(A, v) = SumOn(x, A) /\ OverAll(A, w) = SumOn(y, A)
  <2>1. Q!SumOver(x) = SumOn(x, A) /\ Q!SumOver(y) = SumOn(y, A)
    BY <1>1, <1>2, QSum
  <2> QED BY <1>1, <1>2, <2>1 DEF OverAll
<1>7. Numbers(x, A) /\ SumOn(x, A) \in Nat /\ Numbers(y, A)
  BY <1>5, SumNat
<1>8. SumOn(x, A) <= SumOn(y, A)
  BY <1>5, <1>7, SumMono
<1>9. SumOn(y, A) \in Nat /\ SumOn(t, A) \in Nat /\ SumOn(y, A) <= k * SumOn(t, A)
  BY <1>4, <1>5, MeanBound
<1> QED BY <1>6, <1>7, <1>8, <1>9

\* Where a number is not zero, the sum is not.
LEMMA OverAllIsThere ==
  ASSUME NEW A, IsFiniteSet(A), NEW w, \A q \in A : w[q] \in Nat, NEW p \in A, w[p] >= 1
  PROVE  OverAll(A, w) >= 1
<1>1. PICK y : y = [q \in A |-> Q!Times(q) * w[q]]
  OBVIOUS
<1>2. \A q \in A : y[q] \in Nat
  <2> TAKE q \in A
  <2>1. Q!Times(q) \in 1..3 /\ w[q] \in Nat /\ y[q] = Q!Times(q) * w[q]
    BY <1>1, TimesIs
  <2> QED BY <2>1, SMT
<1>3. y[p] >= 1
  <2>1. Q!Times(p) \in 1..3 /\ w[p] \in Nat /\ w[p] >= 1 /\ y[p] = Q!Times(p) * w[p]
    BY <1>1, TimesIs
  <2> QED BY <2>1, SMT
<1>4. OverAll(A, w) = SumOn(y, A)
  <2>1. Q!SumOver(y) = SumOn(y, A)
    BY <1>1, QSum
  <2> QED BY <1>1, <2>1 DEF OverAll
<1>5. Numbers(y, A)
  BY <1>2, SumNat
<1>6. SumOn(y, A) = y[p] + SumOn(y, A \ {p})
  BY <1>5, SumStep
<1>7. SumOn(y, A \ {p}) \in Nat
  <2>1. A \ {p} \in SUBSET A
    OBVIOUS
  <2> QED BY <1>2, <2>1, SumOfPartLess
<1> QED BY <1>2, <1>3, <1>4, <1>6, <1>7

LEMMA TenthsAre == \A c \in {"high", "medium", "low"} : Q!Tenths[c] \in Nat /\ Q!Tenths[c] <= 10
BY DEF Q!Tenths

LEMMA CriteriaIs ==
  ASSUME NEW A, NEW results, NEW evidence, Rated(A, results, evidence)
  PROVE  Q!Criteria(evidence, results) \in Nat /\ Q!Criteria(evidence, results) <= 89356
<1>1. IsFiniteSet(A) /\ DOMAIN results = A /\ Q!Universal \subseteq A
  BY DEF Rated
<1>2. PICK t : Counted(A, t)
  BY DEF Counted
<1>3. PICK rel : rel = [q \in A |-> evidence[q.category].relevance]
  OBVIOUS
<1>4. PICK found : found = [q \in A |-> results[q].found]
  OBVIOUS
<1>5. PICK signals : signals = [q \in A |-> q.signals]
  OBVIOUS
<1>6. PICK tenths : tenths = [q \in A |-> Q!Tenths[results[q].confidence]]
  OBVIOUS
<1>7. PICK best : best = [q \in A |-> evidence[q.category].best]
  OBVIOUS
<1>8. PICK n : n = SumOn(t, A)
  OBVIOUS
<1>9. Q!Criteria(evidence, results) =
        35 * (OverAll(A, rel) \div n) + (35000 * OverAll(A, found)) \div OverAll(A, signals)
          + (2000 * OverAll(A, tenths)) \div n + 7 * (OverAll(A, best) \div n)
  <2>1. A \in SUBSET A
    OBVIOUS
  <2>2. Q!SumOver([q \in A |-> Q!Times(q)]) = n
    BY <1>1, <1>2, <1>8, <2>1, CountsAre
  <2> QED BY <1>1, <1>3, <1>4, <1>5, <1>6, <1>7, <2>2, SMT DEF Q!Criteria, OverAll
<1>10. \A q \in A : /\ evidence[q.category].relevance \in Nat /\ evidence[q.category].relevance <= 818
                    /\ evidence[q.category].best \in Nat /\ evidence[q.category].best <= 818
                    /\ results[q].found \in Nat /\ results[q].found <= q.signals
                    /\ q.signals \in 0..4 /\ results[q].confidence \in {"high", "medium", "low"}
  <2> TAKE q \in A
  <2>1. Evidences(evidence[q.category]) /\ q.signals \in 0..4 /\ Results(q, results[q])
    BY DEF Rated
  <2>2. results[q].found \in Nat /\ results[q].found <= q.signals /\ results[q].confidence \in {"high", "medium", "low"}
    BY <2>1, SMT DEF Results
  <2> QED BY <2>1, <2>2, SMT DEF Evidences
<1>11. PICK p \in A : p \in Q!Universal /\ p.signals >= 3
  <2>1. "identity" \in Q!Categories
    BY DEF Q!Categories
  <2> QED BY <1>1, <2>1, EveryCategoryIsAsked
<1>12. A # {} /\ A \in SUBSET A
  BY <1>11
<1>13. n \in Nat /\ n > 0 /\ OverAll(A, rel) \div n \in Nat /\ OverAll(A, rel) \div n <= 818
  <2>1. PICK k \in Nat : k = 818
    BY SMT
  <2>2. \A q \in A : rel[q] \in Nat /\ rel[q] <= k
    BY <1>3, <1>10, <2>1
  <2>3. /\ SumOn(t, A) \in Nat /\ SumOn(t, A) > 0
        /\ Q!SumOver([q \in A |-> Q!Times(q) * rel[q]]) \div SumOn(t, A) \in Nat
        /\ Q!SumOver([q \in A |-> Q!Times(q) * rel[q]]) \div SumOn(t, A) <= k
    BY <1>1, <1>2, <1>12, <2>2, MeanOver
  <2> QED BY <1>8, <2>1, <2>3 DEF OverAll
<1>14. OverAll(A, best) \div n \in Nat /\ OverAll(A, best) \div n <= 818
  <2>1. PICK k \in Nat : k = 818
    BY SMT
  <2>2. \A q \in A : best[q] \in Nat /\ best[q] <= k
    BY <1>7, <1>10, <2>1
  <2>3. /\ Q!SumOver([q \in A |-> Q!Times(q) * best[q]]) \div SumOn(t, A) \in Nat
        /\ Q!SumOver([q \in A |-> Q!Times(q) * best[q]]) \div SumOn(t, A) <= k
    BY <1>1, <1>2, <1>12, <2>2, MeanOver
  <2> QED BY <1>8, <2>1, <2>3 DEF OverAll
<1>15. /\ (2000 * OverAll(A, tenths)) \div n \in Nat
       /\ (2000 * OverAll(A, tenths)) \div n <= 20000
  <2>1. PICK k \in Nat : k = 10
    BY SMT
  <2>2. \A q \in A : tenths[q] \in Nat /\ tenths[q] <= k /\ tenths[q] <= tenths[q]
    BY <1>6, <1>10, <2>1, TenthsAre
  <2>3. OverAll(A, tenths) \in Nat /\ OverAll(A, tenths) <= k * n
    BY <1>1, <1>2, <1>8, <2>2, OverAllIs
  <2>7. PICK z \in Nat : z = OverAll(A, tenths)
    BY <2>3
  <2>4. PICK a \in Nat, m \in Nat : a = 2000 * z /\ m = 20000
    BY SMT
  <2>5. a < m * n + n
    BY <1>13, <2>1, <2>3, <2>4, <2>7, SMT
  <2>6. a \div n \in Nat /\ a \div n <= m
    BY <1>13, <2>5, QuotientBound
  <2> QED BY <2>4, <2>6, <2>7
<1>16. /\ (35000 * OverAll(A, found)) \div OverAll(A, signals) \in Nat
       /\ (35000 * OverAll(A, found)) \div OverAll(A, signals) <= 35000
  <2>1. PICK k \in Nat : k = 4
    BY SMT
  <2>2. \A q \in A : found[q] \in Nat /\ signals[q] \in Nat /\ found[q] <= signals[q] /\ signals[q] <= k
    BY <1>4, <1>5, <1>10, <2>1
  <2>3. OverAll(A, found) \in Nat /\ OverAll(A, signals) \in Nat /\ OverAll(A, found) <= OverAll(A, signals)
    BY <1>1, <1>2, <2>2, OverAllIs
  <2>4. OverAll(A, signals) >= 1
    <3>1. signals[p] >= 1
      BY <1>5, <1>10, <1>11
    <3> QED BY <1>1, <2>2, <3>1, OverAllIsThere
  <2>5. PICK f \in Nat, b \in Nat : f = OverAll(A, found) /\ b = OverAll(A, signals)
    BY <2>3
  <2>6. PICK a \in Nat, m \in Nat : a = 35000 * f /\ m = 35000
    BY SMT
  <2>7. b > 0 /\ a < m * b + b
    BY <2>3, <2>4, <2>5, <2>6, SMT
  <2>8. a \div b \in Nat /\ a \div b <= m
    BY <2>7, QuotientBound
  <2> QED BY <2>5, <2>6, <2>8
<1>17. PICK w \in Nat, x \in Nat, y \in Nat, z \in Nat :
         /\ w = OverAll(A, rel) \div n /\ x = (35000 * OverAll(A, found)) \div OverAll(A, signals)
         /\ y = (2000 * OverAll(A, tenths)) \div n /\ z = OverAll(A, best) \div n
  BY <1>13, <1>14, <1>15, <1>16
<1>18. Q!Criteria(evidence, results) = 35 * w + x + y + 7 * z
  BY <1>9, <1>17
<1>19. w <= 818 /\ x <= 35000 /\ y <= 20000 /\ z <= 818
  BY <1>13, <1>14, <1>15, <1>16, <1>17, SMT
<1> QED BY <1>18, <1>19, SMT

LEMMA ScoreIs ==
  ASSUME NEW A, NEW results, NEW evidence, Rated(A, results, evidence)
  PROVE  Q!Score(evidence, results) \in Nat /\ Q!Score(evidence, results) <= 97900
<1>1. PICK x \in Nat, y \in Nat : x = Q!Criteria(evidence, results) /\ y = Q!ByCategory(results)
  BY CriteriaIs, ByCategoryIs
<1>2. x <= 89356 /\ y <= 100000
  BY <1>1, CriteriaIs, ByCategoryIs, SMT
<1>3. Q!Score(evidence, results) = (7 * x + 3 * y) \div 10
  BY <1>1 DEF Q!Score
<1>4. PICK a \in Nat, b \in Nat, k \in Nat : a = 7 * x + 3 * y /\ b = 10 /\ k = 97900
  BY SMT
<1>5. b > 0 /\ a < k * b + b
  BY <1>2, <1>4, SMT
<1>6. a \div b \in Nat /\ a \div b <= k
  BY <1>5, QuotientBound
<1> QED BY <1>3, <1>4, <1>6, SMT

\* What a share is.
LEMMA QuotientIs ==
  ASSUME NEW a \in Nat, NEW b \in Nat, b > 0
  PROVE  /\ a \div b \in Nat /\ b * (a \div b) <= a
         /\ \A k \in Nat : a \div b < k => a < b * k
<1>1. PICK d \in Nat : d = a \div b
  BY SMT
<1>2. b * d <= a /\ a < b * d + b
  BY <1>1, SMT
<1>3. \A k \in Nat : d < k => a < b * k
  <2> TAKE k \in Nat
  <2> HAVE d < k
  <2>1. PICK j \in Nat : k = d + 1 + j
    <3>1. k - (d + 1) \in Nat /\ k = d + 1 + (k - (d + 1))
      BY SMT
    <3> QED BY <3>1
  <2>2. b * k = b * d + b + b * j
    BY <2>1, SMT
  <2>3. b * j >= 0 /\ b * j \in Int /\ b * d \in Int
    BY SMT
  <2> QED BY <1>2, <2>2, <2>3
<1> QED BY <1>1, <1>2, <1>3

\* The questions of some categories that have one of some answers.
Answering(A, results, S, answers) == {q \in A : q.category \in S /\ results[q].answer \in answers}

LEMMA HavingIs ==
  ASSUME NEW A, NEW results, NEW evidence, Rated(A, results, evidence), NEW t, Counted(A, t),
         NEW S, NEW answers
  PROVE  /\ Q!Having(results, S, answers) = SumOn(t, Answering(A, results, S, answers))
         /\ Q!Having(results, S, answers) \in Nat
<1>1. PICK B \in SUBSET A : B = Answering(A, results, S, answers)
  BY DEF Answering
<1>2. IsFiniteSet(A) /\ DOMAIN results = A
  BY DEF Rated
<1>3. Q!SumOver([q \in B |-> Q!Times(q)]) = SumOn(t, B) /\ SumOn(t, B) \in Nat
  BY <1>2, CountsAre
<1>4. Q!Having(results, S, answers) = Q!SumOver([q \in B |-> Q!Times(q)])
  BY <1>1, <1>2 DEF Q!Having, Answering
<1> QED BY <1>1, <1>3, <1>4

\* They add up.
LEMMA TimesAddUp ==
  ASSUME NEW A, IsFiniteSet(A), NEW t, Counted(A, t),
         NEW X \in SUBSET A, NEW Y \in SUBSET A, X \cap Y = {}
  PROVE  SumOn(t, X \cup Y) = SumOn(t, X) + SumOn(t, Y)
<1>1. A \in SUBSET A
  OBVIOUS
<1>2. \A q \in A : t[q] \in Nat
  BY <1>1, CountsAre
<1>3. X \cup Y \in SUBSET A
  OBVIOUS
<1>4. IsFiniteSet(X \cup Y) /\ \A q \in X \cup Y : t[q] \in Nat
  BY <1>2, <1>3, FS_Subset
<1>5. Numbers(t, X \cup Y)
  BY <1>4, SumNat
<1> QED BY <1>5, SumUnion

LEMMA HavingOfBoth ==
  ASSUME NEW A, NEW results, NEW evidence, Rated(A, results, evidence),
         NEW S, NEW R, S \cap R = {}, NEW answers
  PROVE  Q!Having(results, S \cup R, answers) = Q!Having(results, S, answers) + Q!Having(results, R, answers)
<1>1. PICK t : Counted(A, t)
  BY DEF Counted
<1>2. PICK X \in SUBSET A : X = Answering(A, results, S, answers)
  BY DEF Answering
<1>3. PICK Y \in SUBSET A : Y = Answering(A, results, R, answers)
  BY DEF Answering
<1>4. X \cap Y = {} /\ Answering(A, results, S \cup R, answers) = X \cup Y
  BY <1>2, <1>3 DEF Answering
<1>5. SumOn(t, X \cup Y) = SumOn(t, X) + SumOn(t, Y)
  BY <1>1, <1>4, TimesAddUp DEF Rated
<1>6. Q!Having(results, S \cup R, answers) = SumOn(t, X \cup Y)
  BY <1>1, <1>4, HavingIs
<1>7. Q!Having(results, S, answers) = SumOn(t, X)
  BY <1>1, <1>2, HavingIs
<1>8. Q!Having(results, R, answers) = SumOn(t, Y)
  BY <1>1, <1>3, HavingIs
<1> QED BY <1>5, <1>6, <1>7, <1>8

LEMMA HavingEither ==
  ASSUME NEW A, NEW results, NEW evidence, Rated(A, results, evidence),
         NEW S, NEW answers, NEW others, answers \cap others = {}, NEW all, all = answers \cup others
  PROVE  Q!Having(results, S, all) = Q!Having(results, S, answers) + Q!Having(results, S, others)
<1>1. PICK t : Counted(A, t)
  BY DEF Counted
<1>2. PICK X \in SUBSET A : X = Answering(A, results, S, answers)
  BY DEF Answering
<1>3. PICK Y \in SUBSET A : Y = Answering(A, results, S, others)
  BY DEF Answering
<1>4. X \cap Y = {} /\ Answering(A, results, S, all) = X \cup Y
  BY <1>2, <1>3 DEF Answering
<1>5. SumOn(t, X \cup Y) = SumOn(t, X) + SumOn(t, Y)
  BY <1>1, <1>4, TimesAddUp DEF Rated
<1>6. Q!Having(results, S, all) = SumOn(t, X \cup Y)
  BY <1>1, <1>4, HavingIs
<1>7. Q!Having(results, S, answers) = SumOn(t, X)
  BY <1>1, <1>2, HavingIs
<1>8. Q!Having(results, S, others) = SumOn(t, Y)
  BY <1>1, <1>3, HavingIs
<1> QED BY <1>5, <1>6, <1>7, <1>8

\* Questions of every category were answered somehow.
LEMMA HavingSome ==
  ASSUME NEW A, NEW results, NEW evidence, Rated(A, results, evidence),
         NEW S, NEW c \in Q!Categories, c \in S
  PROVE  Q!Having(results, S, {"full", "partial", "none"}) > 0
<1>1. PICK t : Counted(A, t)
  BY DEF Counted
<1>2. PICK B \in SUBSET A : B = Answering(A, results, S, {"full", "partial", "none"})
  BY DEF Answering
<1>3. PICK p : p \in B
  <2>1. PICK p \in Q!Universal : p.category = c
    BY EveryCategoryIsAsked
  <2>2. p \in A /\ Results(p, results[p])
    BY DEF Rated
  <2>3. results[p].answer \in {"full", "partial", "none"}
    BY <2>2, SMT DEF Results
  <2> QED BY <1>2, <2>1, <2>2, <2>3 DEF Answering
<1>4. IsFiniteSet(A)
  BY DEF Rated
<1>5. IsFiniteSet(B) /\ \A q \in B : t[q] \in Nat /\ t[q] >= 1
  BY <1>1, <1>4, CountsAre
<1>6. Numbers(t, B)
  BY <1>5, SumNat
<1>7. SumOn(t, B) = t[p] + SumOn(t, B \ {p})
  BY <1>3, <1>6, SumStep
<1>8. SumOn(t, B \ {p}) \in Nat
  <2>1. B \ {p} \in SUBSET B /\ \A q \in B : t[q] \in Nat
    BY <1>5
  <2> QED BY <1>5, <2>1, SumOfPartLess
<1>9. t[p] \in Nat /\ t[p] >= 1
  BY <1>3, <1>5
<1>10. Q!Having(results, S, {"full", "partial", "none"}) = SumOn(t, B)
  BY <1>1, <1>2, HavingIs
<1> QED BY <1>7, <1>8, <1>9, <1>10

LEMMA CoverageIs ==
  ASSUME NEW A, NEW results, NEW evidence, Rated(A, results, evidence)
  PROVE  Q!Coverage(results) \in Nat /\ Q!Coverage(results) <= 100000
<1>1. PICK t : Counted(A, t)
  BY DEF Counted
<1>2. PICK f \in Nat, p \in Nat, n \in Nat, z \in Nat :
        /\ f = Q!Having(results, Q!Categories, {"full"}) /\ p = Q!Having(results, Q!Categories, {"partial"})
        /\ z = Q!Having(results, Q!Categories, {"none"})
        /\ n = Q!Having(results, Q!Categories, {"full", "partial", "none"})
  BY <1>1, HavingIs
<1>3. n = f + p + z
  <2>1. PICK both, F, P, N, all : both = {"full", "partial"} /\ F = {"full"} /\ P = {"partial"} /\ N = {"none"}
                               /\ all = {"full", "partial", "none"}
    OBVIOUS
  <2>2. F \cap P = {} /\ both = F \cup P
    BY <2>1
  <2>3. both \cap N = {} /\ all = both \cup N
    BY <2>1
  <2>4. Q!Having(results, Q!Categories, both) = Q!Having(results, Q!Categories, F) + Q!Having(results, Q!Categories, P)
    BY <2>2, HavingEither
  <2>5. Q!Having(results, Q!Categories, all) = Q!Having(results, Q!Categories, both) + Q!Having(results, Q!Categories, N)
    BY <2>3, HavingEither
  <2> QED BY <1>2, <2>1, <2>4, <2>5
<1>4. n > 0
  <2>1. "identity" \in Q!Categories
    BY DEF Q!Categories
  <2> QED BY <1>2, <2>1, HavingSome
<1>5. Q!Coverage(results) = (50000 * (2 * f + p)) \div n
  BY <1>2, SMT DEF Q!Coverage
<1>6. PICK a \in Nat, k \in Nat : a = 50000 * (2 * f + p) /\ k = 100000
  BY SMT
<1>7. a < k * n + n
  BY <1>3, <1>4, <1>6, SMT
<1>8. a \div n \in Nat /\ a \div n <= k
  BY <1>4, <1>7, QuotientBound
<1> QED BY <1>5, <1>6, <1>8

\* Of two parts one has at least the share of the whole, if the part counts more.
LEMMA Mediant ==
  ASSUME NEW p \in Nat, NEW q \in Nat, NEW m \in Nat, NEW n \in Nat, m > 0, n > 0,
         NEW w \in Nat, w <= 100000 * (p + q)
  PROVE  w \div (m + n) <= (100000 * p) \div m \/ w \div (m + n) <= (100000 * q) \div n
<1>1. PICK a \in Nat, b \in Nat, s \in Nat : a = 100000 * p /\ b = 100000 * q /\ s = m + n
  BY SMT
<1>2. w <= a + b /\ s > 0
  BY <1>1, SMT
<1>3. PICK k \in Nat : k = w \div s /\ s * k <= w
  BY <1>2, QuotientIs
<1>4. s * k = m * k + n * k
  BY <1>1, SMT
<1>5. a \div m \in Nat /\ b \div n \in Nat
  BY QuotientIs
<1>6. ASSUME a \div m < k, b \div n < k
      PROVE  FALSE
  <2>1. a < m * k
    BY <1>6, QuotientIs
  <2>2. b < n * k
    BY <1>6, QuotientIs
  <2>3. m * k \in Int /\ n * k \in Int /\ s * k \in Int
    BY SMT
  <2> QED BY <1>2, <1>3, <1>4, <2>1, <2>2, <2>3
<1> QED BY <1>1, <1>3, <1>5, <1>6, SMT

\* One of the buckets has at least the share of answers that the whole has.
LEMMA BucketsAgree ==
  ASSUME NEW A, NEW results, NEW evidence, Rated(A, results, evidence)
  PROVE  \E b \in {Q!EntityBucket, Q!Categories \ Q!EntityBucket} :
           Q!Coverage(results) <= Q!BucketCoverage(results, b)
<1>1. PICK t : Counted(A, t)
  BY DEF Counted
<1>2. PICK R : R = Q!Categories \ Q!EntityBucket
  OBVIOUS
<1>3. PICK E : E = Q!EntityBucket
  OBVIOUS
<1>4. E \cap R = {} /\ Q!Categories = E \cup R /\ "identity" \in E /\ "offerings" \in R
  BY <1>2, <1>3 DEF Q!Categories, Q!EntityBucket
<1>5. PICK all : all = {"full", "partial", "none"}
  OBVIOUS
<1>6. PICK some : some = {"full", "partial"}
  OBVIOUS
<1>7. PICK f \in Nat, h \in Nat, p \in Nat, q \in Nat, m \in Nat, n \in Nat :
        /\ f = Q!Having(results, Q!Categories, {"full"}) /\ h = Q!Having(results, Q!Categories, {"partial"})
        /\ p = Q!Having(results, E, some) /\ q = Q!Having(results, R, some)
        /\ m = Q!Having(results, E, all) /\ n = Q!Having(results, R, all)
  BY <1>1, HavingIs
<1>8. f + h = p + q
  <2>4. PICK F, P : F = {"full"} /\ P = {"partial"}
    OBVIOUS
  <2>1. F \cap P = {} /\ some = F \cup P
    BY <1>6, <2>4
  <2>5. Q!Having(results, Q!Categories, some) = Q!Having(results, Q!Categories, F) + Q!Having(results, Q!Categories, P)
    BY <2>1, HavingEither
  <2>2. Q!Having(results, Q!Categories, some) = f + h
    BY <1>7, <2>4, <2>5
  <2>3. Q!Having(results, E \cup R, some) = p + q
    BY <1>4, <1>7, HavingOfBoth
  <2> QED BY <1>4, <2>2, <2>3
<1>9. Q!Having(results, Q!Categories, all) = m + n
  <2>1. Q!Having(results, E \cup R, all) = m + n
    BY <1>4, <1>7, HavingOfBoth
  <2> QED BY <1>4, <2>1
<1>10. m > 0
  <2>1. "identity" \in Q!Categories
    BY DEF Q!Categories
  <2> QED BY <1>4, <1>5, <1>7, <2>1, HavingSome
<1>11. n > 0
  <2>1. "offerings" \in Q!Categories
    BY DEF Q!Categories
  <2> QED BY <1>4, <1>5, <1>7, <2>1, HavingSome
<1>12. PICK w \in Nat : w = 50000 * (2 * f + h)
  BY SMT
<1>13. w <= 100000 * (p + q)
  BY <1>8, <1>12, SMT
<1>14. Q!Coverage(results) = w \div (m + n)
  BY <1>5, <1>7, <1>9, <1>12, SMT DEF Q!Coverage
<1>15. Q!BucketCoverage(results, E) = (100000 * p) \div m /\ Q!BucketCoverage(results, R) = (100000 * q) \div n
  BY <1>5, <1>6, <1>7, SMT DEF Q!BucketCoverage
<1>16. w \div (m + n) <= (100000 * p) \div m \/ w \div (m + n) <= (100000 * q) \div n
  BY <1>10, <1>11, <1>13, Mediant
<1>17. Q!Coverage(results) <= Q!BucketCoverage(results, E) \/ Q!Coverage(results) <= Q!BucketCoverage(results, R)
  BY <1>14, <1>15, <1>16, SMT
<1> QED BY <1>2, <1>3, <1>17

\* What is recommended for a category is asked for, and the category is no strong one.
CategoryAgrees(rep, c) ==
  /\ Q!Status(rep.results, c) # "Strong performance"
  /\ \E f \in DOMAIN rep.plan : \E q \in rep.plan[f] : q.category = c

LEMMA RecommendedAgree ==
  ASSUME NEW txt, NEW A, NEW evidence, NEW rep, Answered(txt, A, evidence, rep),
         NEW c \in Q!Recommended(rep.results)
  PROVE  CategoryAgrees(rep, c)
<1>1. PICK results : results = rep.results
  OBVIOUS
<1>2. Rated(A, results, evidence)
  BY <1>1, AnswersAreRated
<1>3. PICK q \in Q!Of(results, c) : c \in Q!Categories /\ results[q].answer = "none"
  BY <1>1 DEF Q!Recommended
<1>4. Q!Of(results, c) = {p \in A : p.category = c}
  BY <1>2, <1>3, OfIs
<1>5. /\ DOMAIN results = A
      /\ \A p \in A : p.signals \in 0..4 /\ Evidences(evidence[p.category])
                       /\ results[p] = Q!Result(p, evidence[p.category])
  BY <1>1, ResultsAre
<1>6. PICK e : e = evidence[c]
  OBVIOUS
<1>7. q.signals \in 0..4 /\ Evidences(e) /\ Q!Result(q, e).answer = "none"
  BY <1>3, <1>4, <1>5, <1>6
<1>8. PICK k \in Nat : k = 42000
  BY SMT
<1>9. \A p \in Q!Of(results, c) : results[p].score \in Nat /\ results[p].score <= k
  <2> TAKE p \in Q!Of(results, c)
  <2>1. p.signals \in 0..4 /\ results[p] = Q!Result(p, e)
    BY <1>4, <1>5, <1>6
  <2>2. Q!Result(p, e).score \in Nat /\ Q!Result(p, e).score <= 42000
    BY <1>7, <2>1, NoneIsWeak
  <2> QED BY <1>8, <2>1, <2>2
<1>10. Q!CategoryScore(results, c) \in Nat /\ Q!CategoryScore(results, c) <= k
  BY <1>2, <1>3, <1>9, CategoryScoreIs
<1>11. Q!Status(results, c) # "Strong performance"
  BY <1>8, <1>10, SMT DEF Q!Status
<1>12. Q!Problem(results[q]) /\ q \in DOMAIN results /\ q.category = c
  BY <1>3, <1>4, <1>5 DEF Q!Problem
<1>13. rep.plan = Q!Plan(evidence, results)
  BY <1>1, Zenon DEF Answered
<1>14. \E f \in DOMAIN rep.plan : q \in rep.plan[f]
  BY <1>12, <1>13, PlanAddresses
<1> QED BY <1>1, <1>11, <1>12, <1>14 DEF CategoryAgrees

\* The report on the questions is in range, and agrees with itself.
TextAgrees ==
  /\ Cardinality(DOMAIN textReport.results \ Q!Universal) <= 5
  /\ textReport.score \in Nat /\ textReport.score <= 97900
  /\ Q!Coverage(textReport.results) \in Nat /\ Q!Coverage(textReport.results) <= 100000

LEMMA TextReportAgrees == TextInv /\ textReport.results # << >> => TextAgrees /\ Q!BreakdownAgrees
<1> SUFFICES ASSUME TextInv, textReport.results # << >> PROVE TextAgrees /\ Q!BreakdownAgrees
  OBVIOUS
<1>1a. PICK txt \in Seq(Q!Chunk) : \E A, evidence : Answered(txt, A, evidence, textReport)
  BY DEF TextInv
<1>1. PICK A, evidence : Answered(txt, A, evidence, textReport)
  BY <1>1a, Zenon
<1>2. Rated(A, textReport.results, evidence)
  BY <1>1, AnswersAreRated
<1>3. DOMAIN textReport.results = A /\ Cardinality(A \ Q!Universal) <= 5
  BY <1>1, ResultsAre DEF Answered, Asked
<1>4. textReport.score = Q!Score(evidence, textReport.results)
  BY <1>1, Zenon DEF Answered
<1>5. textReport.score \in Nat /\ textReport.score <= 97900
  BY <1>2, <1>4, ScoreIs
<1>6. Q!Coverage(textReport.results) \in Nat /\ Q!Coverage(textReport.results) <= 100000
  BY <1>2, CoverageIs
<1>7. \A c \in Q!Recommended(textReport.results) :
        /\ Q!Status(textReport.results, c) # "Strong performance"
        /\ \E f \in DOMAIN textReport.plan : \E q \in textReport.plan[f] : q.category = c
  <2> TAKE c \in Q!Recommended(textReport.results)
  <2>1. PICK rep : rep = textReport /\ Answered(txt, A, evidence, rep) /\ c \in Q!Recommended(rep.results)
    BY <1>1
  <2>2. CategoryAgrees(rep, c)
    BY <2>1, RecommendedAgree
  <2> QED BY <2>1, <2>2 DEF CategoryAgrees
<1>8. \E b \in {Q!EntityBucket, Q!Categories \ Q!EntityBucket} :
        Q!Coverage(textReport.results) <= Q!BucketCoverage(textReport.results, b)
  BY <1>2, BucketsAgree
<1>9. TextAgrees
  BY <1>3, <1>5, <1>6 DEF TextAgrees
<1>10. Q!BreakdownAgrees
  BY <1>7, <1>8, Zenon DEF Q!BreakdownAgrees
<1> QED BY <1>9, <1>10

\* Pairs of a number to be reached and of points, at most k.
Thresholds(th, k) ==
  IsFiniteSet(th) /\ \A t \in th : t[1] \in Nat /\ t[2] \in Nat /\ t[2] <= k

LEMMA ReachedGrows ==
  ASSUME NEW th, NEW k \in Nat, Thresholds(th, k), NEW n \in Nat, NEW m \in Nat, n <= m
  PROVE  /\ Reached(n, th) \in Nat /\ Reached(m, th) \in Nat
         /\ Reached(n, th) <= Reached(m, th) /\ Reached(m, th) <= k
<1> DEFINE P(x) == {0} \cup {t[2] : t \in {t \in th : x >= t[1]}}
<1>1. ASSUME NEW x \in Nat
      PROVE  IsFiniteSet(P(x)) /\ P(x) # {} /\ P(x) \in SUBSET Nat /\ P(x) \in SUBSET Int
             /\ (\A y \in P(x) : y <= k) /\ Reached(x, th) = Max(P(x))
  <2>1. PICK U \in SUBSET th : U = {t \in th : x >= t[1]}
    OBVIOUS
  <2>2. IsFiniteSet(U)
    BY FS_Subset DEF Thresholds
  <2>3. PICK f : f = [t \in U |-> t[2]]
    OBVIOUS
  <2>4. IsFiniteSet({f[t] : t \in U})
    <3>1. PICK R : R = {f[t] : t \in U} /\ DOMAIN f = U
      BY <2>3
    <3>2. IsFiniteSet(R)
      BY <2>2, <3>1, ImageIsFinite
    <3> QED BY <3>1, <3>2
  <2>5. {f[t] : t \in U} = {t[2] : t \in U}
    BY <2>3
  <2>6. \A S, y : IsFiniteSet(S) => IsFiniteSet(S \cup {y})
    BY FS_AddElement
  <2>7. IsFiniteSet({f[t] : t \in U} \cup {0})
    BY <2>4, <2>6
  <2>8. P(x) = {f[t] : t \in U} \cup {0}
    BY <2>1, <2>5
  <2>9. \A t \in U : t[2] \in Nat /\ t[2] <= k
    BY DEF Thresholds
  <2>10. \A y \in P(x) : y \in Nat /\ y <= k
    <3> TAKE y \in P(x)
    <3>1. CASE y = 0
      BY <3>1
    <3>2. CASE y # 0
      <4>1. PICK t \in U : y = t[2]
        BY <2>1, <3>2
      <4> QED BY <2>9, <4>1
    <3> QED BY <3>1, <3>2
  <2>11. Reached(x, th) = Max(P(x))
    BY Zenon DEF Reached
  <2>12. IsFiniteSet(P(x)) /\ P(x) # {}
    BY <2>7, <2>8
  <2> HIDE DEF P
  <2>13. P(x) \in SUBSET Nat /\ P(x) \in SUBSET Int
    BY <2>10
  <2> QED BY <2>10, <2>11, <2>12, <2>13
<1>2. P(n) \subseteq P(m)
  <2>1. \A t \in th : n >= t[1] => m >= t[1]
    BY DEF Thresholds
  <2> QED BY <2>1
<1> HIDE DEF P
<1>3. Max(P(n)) \in P(n) /\ \A y \in P(n) : Max(P(n)) >= y
  BY <1>1, LargestOf
<1>4. Max(P(m)) \in P(m) /\ \A y \in P(m) : Max(P(m)) >= y
  BY <1>1, LargestOf
<1>5. Reached(n, th) = Max(P(n)) /\ Reached(m, th) = Max(P(m))
  BY <1>1
<1>6. Max(P(n)) \in Nat /\ Max(P(m)) \in Nat /\ Max(P(m)) <= k
  BY <1>1, <1>3, <1>4
<1>7. Max(P(n)) <= Max(P(m))
  BY <1>2, <1>3, <1>4, <1>6
<1> QED BY <1>5, <1>6, <1>7

LEMMA PairsAre ==
  ASSUME NEW n1 \in Nat, NEW p1 \in Nat, NEW n2 \in Nat, NEW p2 \in Nat, NEW n3 \in Nat, NEW p3 \in Nat,
         NEW n4 \in Nat, NEW p4 \in Nat, NEW n5 \in Nat, NEW p5 \in Nat,
         NEW k \in Nat, p1 <= k, p2 <= k, p3 <= k, p4 <= k, p5 <= k
  PROVE  Thresholds({<<n1, p1>>, <<n2, p2>>, <<n3, p3>>, <<n4, p4>>, <<n5, p5>>}, k)
<1>1. IsFiniteSet({<<n1, p1>>, <<n2, p2>>, <<n3, p3>>, <<n4, p4>>, <<n5, p5>>})
  BY FiveAreFinite
<1>2. \A t \in {<<n1, p1>>, <<n2, p2>>, <<n3, p3>>, <<n4, p4>>, <<n5, p5>>} :
         t[1] \in Nat /\ t[2] \in Nat /\ t[2] <= k
  OBVIOUS
<1> QED BY <1>1, <1>2 DEF Thresholds

\* The thresholds of what is known of a brand.
Chars == {<<2001, 1>>, <<5001, 3>>, <<10001, 5>>}
Citations == {<<6, 1>>, <<21, 3>>, <<51, 5>>}
CategoriesOf == {<<6, 1>>, <<11, 2>>}
Properties == {<<11, 1>>, <<21, 2>>, <<51, 4>>}
Links == {<<2, 1>>, <<6, 2>>, <<21, 3>>, <<51, 4>>}
Years == {<<1, 1>>, <<2, 3>>, <<5, 5>>, <<10, 8>>, <<20, 10>>}
Hits == {<<1001, 1>>, <<10001, 3>>, <<100001, 6>>, <<1000001, 9>>, <<10000001, 12>>}

LEMMA BrandThresholds ==
  /\ Thresholds(Chars, 5) /\ Thresholds(Citations, 5) /\ Thresholds(CategoriesOf, 2)
  /\ Thresholds(Properties, 4) /\ Thresholds(Links, 4) /\ Thresholds(Years, 10) /\ Thresholds(Hits, 12)
<1>1. Thresholds(Chars, 5)
  <2>1. PICK k \in Nat, l \in Nat, m \in Nat, n \in Nat, o \in Nat : k = 2001 /\ l = 5001 /\ m = 10001 /\ n = 10001 /\ o = 10001
    BY SMT
  <2>2. PICK a, b, c, d, e : a = <<k, 1>> /\ b = <<l, 3>> /\ c = <<m, 5>> /\ d = <<n, 5>> /\ e = <<o, 5>>
    OBVIOUS
  <2>3. Chars = {a, b, c, d, e}
    BY <2>1, <2>2, SMT DEF Chars
  <2>4. \A t \in Chars : t[1] \in Nat /\ t[2] \in Nat /\ t[2] <= 5
    BY SMT DEF Chars
  <2>5. IsFiniteSet(Chars)
    BY <2>3, FiveAreFinite
  <2> QED BY <2>4, <2>5, SMT DEF Thresholds
<1>2. Thresholds(Citations, 5)
  <2>1. PICK a, b, c, d, e : a = <<6, 1>> /\ b = <<21, 3>> /\ c = <<51, 5>> /\ d = <<51, 5>> /\ e = <<51, 5>>
    OBVIOUS
  <2>3. Citations = {a, b, c, d, e}
    BY <2>1, SMT DEF Citations
  <2>4. \A t \in Citations : t[1] \in Nat /\ t[2] \in Nat /\ t[2] <= 5
    BY SMT DEF Citations
  <2>5. IsFiniteSet(Citations)
    BY <2>3, FiveAreFinite
  <2> QED BY <2>4, <2>5, SMT DEF Thresholds
<1>3. Thresholds(CategoriesOf, 2)
  <2>1. PICK a, b, c, d, e : a = <<6, 1>> /\ b = <<11, 2>> /\ c = <<11, 2>> /\ d = <<11, 2>> /\ e = <<11, 2>>
    OBVIOUS
  <2>3. CategoriesOf = {a, b, c, d, e}
    BY <2>1, SMT DEF CategoriesOf
  <2>4. \A t \in CategoriesOf : t[1] \in Nat /\ t[2] \in Nat /\ t[2] <= 2
    BY SMT DEF CategoriesOf
  <2>5. IsFiniteSet(CategoriesOf)
    BY <2>3, FiveAreFinite
  <2> QED BY <2>4, <2>5, SMT DEF Thresholds
<1>4. Thresholds(Properties, 4)
  <2>1. PICK a, b, c, d, e : a = <<11, 1>> /\ b = <<21, 2>> /\ c = <<51, 4>> /\ d = <<51, 4>> /\ e = <<51, 4>>
    OBVIOUS
  <2>3. Properties = {a, b, c, d, e}
    BY <2>1, SMT DEF Properties
  <2>4. \A t \in Properties : t[1] \in Nat /\ t[2] \in Nat /\ t[2] <= 4
    BY SMT DEF Properties
  <2>5. IsFiniteSet(Properties)
    BY <2>3, FiveAreFinite
  <2> QED BY <2>4, <2>5, SMT DEF Thresholds
<1>5. Thresholds(Links, 4)
  <2>1. PICK a, b, c, d, e : a = <<2, 1>> /\ b = <<6, 2>> /\ c = <<21, 3>> /\ d = <<51, 4>> /\ e = <<51, 4>>
    OBVIOUS
  <2>3. Links = {a, b, c, d, e}
    BY <2>1, SMT DEF Links
  <2>4. \A t \in Links : t[1] \in Nat /\ t[2] \in Nat /\ t[2] <= 4
    BY SMT DEF Links
  <2>5. IsFiniteSet(Links)
    BY <2>3, FiveAreFinite
  <2> QED BY <2>4, <2>5, SMT DEF Thresholds
<1>6. Thresholds(Years, 10)
  <2>1. PICK a, b, c, d, e : a = <<1, 1>> /\ b = <<2, 3>> /\ c = <<5, 5>> /\ d = <<10, 8>> /\ e = <<20, 10>>
    OBVIOUS
  <2>3. Years = {a, b, c, d, e}
    BY <2>1, SMT DEF Years
  <2>4. \A t \in Years : t[1] \in Nat /\ t[2] \in Nat /\ t[2] <= 10
    BY SMT DEF Years
  <2>5. IsFiniteSet(Years)
    BY <2>3, FiveAreFinite
  <2> QED BY <2>4, <2>5, SMT DEF Thresholds
<1>7. Thresholds(Hits, 12)
  <2>1. PICK k \in Nat, l \in Nat, m \in Nat, n \in Nat, o \in Nat : k = 1001 /\ l = 10001 /\ m = 100001 /\ n = 1000001 /\ o = 10000001
    BY SMT
  <2>2. PICK a, b, c, d, e : a = <<k, 1>> /\ b = <<l, 3>> /\ c = <<m, 6>> /\ d = <<n, 9>> /\ e = <<o, 12>>
    OBVIOUS
  <2>3. Hits = {a, b, c, d, e}
    BY <2>1, <2>2, SMT DEF Hits
  <2>4. \A t \in Hits : t[1] \in Nat /\ t[2] \in Nat /\ t[2] <= 12
    BY SMT DEF Hits
  <2>5. IsFiniteSet(Hits)
    BY <2>3, FiveAreFinite
  <2> QED BY <2>4, <2>5, SMT DEF Thresholds
<1> QED BY <1>1, <1>2, <1>3, <1>4, <1>5, <1>6, <1>7, SMT

LEMMA EstimateIs ==
  /\ \A w \in 0..2 : Estimate(w) \in Nat
  /\ \A w \in 0..2 : \A v \in 0..2 : w <= v => Estimate(w) <= Estimate(v)
<1>1. Estimate(0) = 0 /\ Estimate(1) = 100000 /\ Estimate(2) = 1000000
  BY SMT DEF Estimate
<1>2. \A w \in 0..2 : w = 0 \/ w = 1 \/ w = 2
  BY SMT
<1> QED BY <1>1, <1>2, SMT

LEMMA KnownIs ==
  ASSUME NEW k \in Knowledge
  PROVE  /\ \A f \in Known : k[f] \in Nat
         /\ k.page \in Nat /\ k.chars \in Nat /\ k.citations \in Nat /\ k.infobox \in Nat /\ k.categories \in Nat
         /\ k.fresh \in Nat /\ k.item \in Nat /\ k.properties \in Nat /\ k.sitelinks \in Nat
         /\ k.registered \in Nat /\ k.years \in Nat /\ k.web \in 0..2
         /\ k.page <= 1 /\ k.infobox <= 1 /\ k.fresh <= 1 /\ k.item <= 1 /\ k.registered <= 1
<1>1. k \in [Known -> Nat] /\ k.page \in 0..1 /\ k.infobox \in 0..1 /\ k.fresh \in 0..1 /\ k.item \in 0..1
      /\ k.registered \in 0..1 /\ k.web \in 0..2
  BY DEF Knowledge
<1>2. \A f \in Known : k[f] \in Nat
  BY <1>1
<1>3. {"page", "chars", "citations", "infobox", "categories", "fresh", "item", "properties", "sitelinks",
       "registered", "years", "web"} \subseteq Known
  BY DEF Known, Article, Item
<1>4. /\ k.chars \in Nat /\ k.citations \in Nat /\ k.categories \in Nat
      /\ k.properties \in Nat /\ k.sitelinks \in Nat /\ k.years \in Nat
  BY <1>2, <1>3
<1> QED BY <1>1, <1>2, <1>4

LEMMA NoWorseIs ==
  ASSUME NEW k, NEW m, NoWorse(k, m)
  PROVE  /\ k.page <= m.page /\ k.chars <= m.chars /\ k.citations <= m.citations /\ k.infobox <= m.infobox
         /\ k.categories <= m.categories /\ k.fresh <= m.fresh /\ k.item <= m.item
         /\ k.properties <= m.properties /\ k.sitelinks <= m.sitelinks /\ k.registered <= m.registered
         /\ k.years <= m.years /\ k.web <= m.web
<1>1. {"page", "chars", "citations", "infobox", "categories", "fresh", "item", "properties", "sitelinks",
       "registered", "years", "web"} \subseteq Known
  BY DEF Known, Article, Item
<1> QED BY <1>1 DEF NoWorse

\* What is known in four parts, each of which is in range and no worse.
LEMMA WikipediaGrows ==
  ASSUME NEW k \in Knowledge, NEW m \in Knowledge, NoWorse(k, m)
  PROVE  /\ WikipediaScore(k) \in Nat /\ WikipediaScore(m) \in Nat
         /\ WikipediaScore(k) <= WikipediaScore(m) /\ WikipediaScore(m) <= 30
<1>1. /\ k.page \in Nat /\ k.infobox \in Nat /\ k.fresh \in Nat /\ m.page \in Nat /\ m.infobox \in Nat /\ m.fresh \in Nat
      /\ m.page <= 1 /\ m.infobox <= 1 /\ m.fresh <= 1
      /\ k.page <= m.page /\ k.infobox <= m.infobox /\ k.fresh <= m.fresh
  BY KnownIs, NoWorseIs
<1>2. /\ Reached(k.chars, Chars) \in Nat /\ Reached(m.chars, Chars) \in Nat
      /\ Reached(k.chars, Chars) <= Reached(m.chars, Chars) /\ Reached(m.chars, Chars) <= 5
  <2>1. k.chars \in Nat /\ m.chars \in Nat /\ k.chars <= m.chars
    BY KnownIs, NoWorseIs
  <2> QED BY <2>1, BrandThresholds, ReachedGrows
<1>3. /\ Reached(k.citations, Citations) \in Nat /\ Reached(m.citations, Citations) \in Nat
      /\ Reached(k.citations, Citations) <= Reached(m.citations, Citations) /\ Reached(m.citations, Citations) <= 5
  <2>1. k.citations \in Nat /\ m.citations \in Nat /\ k.citations <= m.citations
    BY KnownIs, NoWorseIs
  <2> QED BY <2>1, BrandThresholds, ReachedGrows
<1>4. /\ Reached(k.categories, CategoriesOf) \in Nat /\ Reached(m.categories, CategoriesOf) \in Nat
      /\ Reached(k.categories, CategoriesOf) <= Reached(m.categories, CategoriesOf)
      /\ Reached(m.categories, CategoriesOf) <= 2
  <2>1. k.categories \in Nat /\ m.categories \in Nat /\ k.categories <= m.categories
    BY KnownIs, NoWorseIs
  <2> QED BY <2>1, BrandThresholds, ReachedGrows
<1>5. ASSUME NEW x
      PROVE  WikipediaScore(x) = IF x.page = 0 THEN 0
               ELSE 15 + Reached(x.chars, Chars) + Reached(x.citations, Citations) + 2 * x.infobox
                       + Reached(x.categories, CategoriesOf) + x.fresh
  BY SMT DEF WikipediaScore, Chars, Citations, CategoriesOf
<1>6. PICK a \in Nat, b \in Nat, c \in Nat, d \in Nat, e \in Nat, f \in Nat :
        a = Reached(k.chars, Chars) /\ b = Reached(k.citations, Citations) /\ c = Reached(k.categories, CategoriesOf)
        /\ d = k.page /\ e = k.infobox /\ f = k.fresh
  BY <1>1, <1>2, <1>3, <1>4
<1>7. PICK aa \in Nat, bb \in Nat, cc \in Nat, dd \in Nat, ee \in Nat, ff \in Nat :
        aa = Reached(m.chars, Chars) /\ bb = Reached(m.citations, Citations) /\ cc = Reached(m.categories, CategoriesOf)
        /\ dd = m.page /\ ee = m.infobox /\ ff = m.fresh
  BY <1>1, <1>2, <1>3, <1>4
<1>8. WikipediaScore(k) = (IF d = 0 THEN 0 ELSE 15 + a + b + 2 * e + c + f)
      /\ WikipediaScore(m) = (IF dd = 0 THEN 0 ELSE 15 + aa + bb + 2 * ee + cc + ff)
  BY <1>5, <1>6, <1>7
<1>9. a <= aa /\ b <= bb /\ c <= cc /\ d <= dd /\ e <= ee /\ f <= ff /\ aa <= 5 /\ bb <= 5 /\ cc <= 2 /\ ee <= 1 /\ ff <= 1
  BY <1>1, <1>2, <1>3, <1>4, <1>6, <1>7
<1> QED BY <1>8, <1>9, SMT

LEMMA WikidataGrows ==
  ASSUME NEW k \in Knowledge, NEW m \in Knowledge, NoWorse(k, m)
  PROVE  /\ WikidataScore(k) \in Nat /\ WikidataScore(m) \in Nat
         /\ WikidataScore(k) <= WikidataScore(m) /\ WikidataScore(m) <= 18
<1>1. k.item \in Nat /\ m.item \in Nat /\ k.item <= m.item
  BY KnownIs, NoWorseIs
<1>2. /\ Reached(k.properties, Properties) \in Nat /\ Reached(m.properties, Properties) \in Nat
      /\ Reached(k.properties, Properties) <= Reached(m.properties, Properties) /\ Reached(m.properties, Properties) <= 4
  <2>1. k.properties \in Nat /\ m.properties \in Nat /\ k.properties <= m.properties
    BY KnownIs, NoWorseIs
  <2> QED BY <2>1, BrandThresholds, ReachedGrows
<1>3. /\ Reached(k.sitelinks, Links) \in Nat /\ Reached(m.sitelinks, Links) \in Nat
      /\ Reached(k.sitelinks, Links) <= Reached(m.sitelinks, Links) /\ Reached(m.sitelinks, Links) <= 4
  <2>1. k.sitelinks \in Nat /\ m.sitelinks \in Nat /\ k.sitelinks <= m.sitelinks
    BY KnownIs, NoWorseIs
  <2> QED BY <2>1, BrandThresholds, ReachedGrows
<1>4. ASSUME NEW x
      PROVE  WikidataScore(x) = IF x.item = 0 THEN 0
               ELSE 10 + Reached(x.properties, Properties) + Reached(x.sitelinks, Links)
  BY SMT DEF WikidataScore, Properties, Links
<1> QED BY <1>1, <1>2, <1>3, <1>4, SMT

LEMMA DomainGrows ==
  ASSUME NEW k \in Knowledge, NEW m \in Knowledge, NoWorse(k, m),
         NEW domain, domain.tld \in DOMAIN TldScore, domain.letters \in Nat
  PROVE  /\ DomainScore(k, domain) \in Nat /\ DomainScore(m, domain) \in Nat
         /\ DomainScore(k, domain) <= DomainScore(m, domain) /\ DomainScore(m, domain) <= 18
<1>1. k.registered \in Nat /\ m.registered \in Nat /\ k.registered <= m.registered
  BY KnownIs, NoWorseIs
<1>2. /\ Reached(k.years, Years) \in Nat /\ Reached(m.years, Years) \in Nat
      /\ Reached(k.years, Years) <= Reached(m.years, Years) /\ Reached(m.years, Years) <= 10
  <2>1. k.years \in Nat /\ m.years \in Nat /\ k.years <= m.years
    BY KnownIs, NoWorseIs
  <2> QED BY <2>1, BrandThresholds, ReachedGrows
<1>3. TldScore[domain.tld] \in Nat /\ TldScore[domain.tld] <= 5
  BY DEF TldScore
<1>4. PICK n \in Nat : n = (IF domain.letters <= 6 THEN 3 ELSE IF domain.letters <= 10 THEN 1 ELSE 0) /\ n <= 3
  BY SMT
<1>5. ASSUME NEW x
      PROVE  DomainScore(x, domain) = IF x.registered = 0 THEN 0 ELSE Reached(x.years, Years) + TldScore[domain.tld] + n
  BY <1>4, SMT DEF DomainScore, Years
<1>6. PICK a \in Nat, b \in Nat, c \in Nat : a = Reached(k.years, Years) /\ b = Reached(m.years, Years) /\ c = TldScore[domain.tld]
  BY <1>2, <1>3
<1>7. DomainScore(k, domain) = (IF k.registered = 0 THEN 0 ELSE a + c + n)
      /\ DomainScore(m, domain) = (IF m.registered = 0 THEN 0 ELSE b + c + n)
  BY <1>5, <1>6
<1>8. a <= b /\ b <= 10 /\ c <= 5 /\ n <= 3
  BY <1>2, <1>3, <1>4, <1>6
<1> QED BY <1>1, <1>7, <1>8, SMT

LEMMA WebGrows ==
  ASSUME NEW k \in Knowledge, NEW m \in Knowledge, NoWorse(k, m)
  PROVE  /\ WebScore(k) \in Nat /\ WebScore(m) \in Nat
         /\ WebScore(k) <= WebScore(m) /\ WebScore(m) <= 12
<1>1. k.web \in 0..2 /\ m.web \in 0..2 /\ k.web <= m.web
  BY KnownIs, NoWorseIs
<1>2. PICK a \in Nat, b \in Nat : a = Estimate(k.web) /\ b = Estimate(m.web) /\ a <= b
  BY <1>1, EstimateIs
<1>3. PICK t \in Nat : t = 12
  BY SMT
<1>4. Thresholds(Hits, t)
  BY <1>3, BrandThresholds, SMT
<1>5. /\ Reached(a, Hits) \in Nat /\ Reached(b, Hits) \in Nat
      /\ Reached(a, Hits) <= Reached(b, Hits) /\ Reached(b, Hits) <= t
  BY <1>2, <1>4, ReachedGrows
<1>6. WebScore(k) = Reached(a, Hits) /\ WebScore(m) = Reached(b, Hits)
  BY <1>2, SMT DEF WebScore, Hits
<1> QED BY <1>3, <1>5, <1>6

\* The more is known of a brand, the more points it has, at most two thirds of all.
LEMMA EntityGrows ==
  ASSUME NEW k \in Knowledge, NEW m \in Knowledge, NoWorse(k, m),
         NEW domain, domain.tld \in DOMAIN TldScore, domain.letters \in Nat
  PROVE  /\ EntityScore(k, domain) \in Nat /\ EntityScore(m, domain) \in Nat
         /\ EntityScore(k, domain) <= EntityScore(m, domain) /\ EntityScore(m, domain) <= 66666
<1>1. PICK a \in Nat, b \in Nat, c \in Nat, d \in Nat :
        a = WikipediaScore(k) /\ b = WikidataScore(k) /\ c = DomainScore(k, domain) /\ d = WebScore(k)
  BY WikipediaGrows, WikidataGrows, DomainGrows, WebGrows
<1>2. PICK aa \in Nat, bb \in Nat, cc \in Nat, dd \in Nat :
        aa = WikipediaScore(m) /\ bb = WikidataScore(m) /\ cc = DomainScore(m, domain) /\ dd = WebScore(m)
  BY WikipediaGrows, WikidataGrows, DomainGrows, WebGrows
<1>3. /\ a <= aa /\ b <= bb /\ c <= cc /\ d <= dd
      /\ aa <= 30 /\ bb <= 18 /\ cc <= 18 /\ dd <= 12
  BY <1>1, <1>2, WikipediaGrows, WikidataGrows, DomainGrows, WebGrows
<1>4. EntityScore(k, domain) = (2500 * (2 + a + b + c + d)) \div 3
      /\ EntityScore(m, domain) = (2500 * (2 + aa + bb + cc + dd)) \div 3
  BY <1>1, <1>2, SMT DEF EntityScore, Reinforcement
<1> QED BY <1>3, <1>4, SMT

LEMMA EntitySame ==
  ASSUME NEW k, NEW domain, NEW other, domain.tld = other.tld, domain.letters = other.letters
  PROVE  EntityScore(k, domain) = EntityScore(k, other)
<1>1. DomainScore(k, domain) = DomainScore(k, other)
  BY SMT DEF DomainScore
<1> QED BY <1>1, SMT DEF EntityScore

LEMMA WeightIs == ASSUME NEW w, NEW S PROVE Weight(w, S) = SumOn(w, S)
BY Zenon DEF SumOn, AddsUp, Weight, MapThenSumSet, MapThenFoldSet

LEMMA PillarsAreFinite == IsFiniteSet(Pillars)
<1>1. /\ IsFiniteSet({"technical", "structure", "schema", "authority", "entity_recognition"})
      /\ \A S, x : IsFiniteSet(S) => IsFiniteSet(S \cup {x})
  BY FiveAreFinite, FS_AddElement
<1>2. IsFiniteSet(({"technical", "structure", "schema", "authority", "entity_recognition"} \cup {"retrieval"}) \cup {"coverage"})
  BY <1>1
<1>3. Pillars = ({"technical", "structure", "schema", "authority", "entity_recognition"} \cup {"retrieval"}) \cup {"coverage"}
  BY DEF Pillars
<1> QED BY <1>2, <1>3

LEMMA WeightsInForce ==
  \A p \in Pillars : InForce(Weights)[p] \in Nat /\ InForce(Weights)[p] >= 1
<1>1. \A p \in Pillars : DefaultWeights[p] \in Nat /\ DefaultWeights[p] >= 1
  BY DEF DefaultWeights, Pillars
<1>2. \A p \in Pillars : Weights[p] \in Nat /\ Weights[p] >= 1
  <2>1. Weights \in [Pillars -> Nat \ {0}]
    BY WeightsAssumption DEF WeightsAssumption
  <2>2. \A p \in Pillars : Weights[p] \in Nat \ {0}
    BY <2>1
  <2> QED BY <2>2
<1>3. InForce(Weights) = Weights \/ InForce(Weights) = DefaultWeights
  BY Zenon DEF InForce
<1> QED BY <1>1, <1>2, <1>3

\* Raw scores of some pillars.
RawScored(raw) ==
  /\ DOMAIN raw \in SUBSET Pillars /\ "retrieval" \in DOMAIN raw
  /\ \A p \in DOMAIN raw : raw[p] \in Nat

\* What the scores add up to, and the weights.
LEMMA TotalOf ==
  ASSUME NEW raw, RawScored(raw)
  PROVE  \E t, v : /\ t = InForce(Weights) /\ v = [p \in DOMAIN raw |-> t[p] * raw[p]]
                   /\ IsFiniteSet(DOMAIN raw) /\ (\A p \in DOMAIN raw : t[p] \in Nat /\ t[p] >= 1)
                   /\ (\A p \in DOMAIN raw : v[p] \in Nat /\ v[p] = t[p] * raw[p])
                   /\ SumOn(v, DOMAIN raw) \in Nat /\ SumOn(t, DOMAIN raw) \in Nat /\ SumOn(t, DOMAIN raw) > 0
                   /\ Total(Weights, raw) = (IF DOMAIN raw \cap Checks = {} THEN raw["retrieval"]
                                             ELSE SumOn(v, DOMAIN raw) \div SumOn(t, DOMAIN raw))
<1>1. PICK S \in SUBSET Pillars : S = DOMAIN raw /\ S # {}
  BY DEF RawScored
<1>2. PICK t : t = InForce(Weights)
  OBVIOUS
<1>3. PICK v : v = [p \in S |-> t[p] * raw[p]]
  OBVIOUS
<1>4. IsFiniteSet(S)
  BY PillarsAreFinite, FS_Subset
<1>5. \A p \in S : t[p] \in Nat /\ t[p] >= 1
  BY <1>2, WeightsInForce
<1>6. \A p \in S : v[p] \in Nat /\ v[p] = t[p] * raw[p]
  <2> TAKE p \in S
  <2>1. PICK a \in Nat, b \in Nat : a = t[p] /\ b = raw[p]
    BY <1>1, <1>5 DEF RawScored
  <2>2. v[p] = a * b
    BY <1>3, <2>1
  <2>3. a * b \in Nat
    BY SMT
  <2> QED BY <2>1, <2>2, <2>3
<1>7. SumOn(v, S) \in Nat /\ SumOn(t, S) \in Nat
  BY <1>4, <1>5, <1>6, SumNat
<1>8. SumOn(t, S) > 0
  <2>1. PICK x \in S : TRUE
    BY <1>1
  <2>2. Numbers(t, S)
    BY <1>4, <1>5, SumNat
  <2>3. SumOn(t, S) = t[x] + SumOn(t, S \ {x})
    BY <2>2, SumStep
  <2>4. SumOn(t, S \ {x}) \in Nat
    <3>1. S \ {x} \in SUBSET S /\ \A y \in S : t[y] \in Nat
      BY <1>5
    <3> QED BY <1>4, <3>1, SumOfPartLess
  <2>5. t[x] \in Nat /\ t[x] >= 1
    BY <1>5
  <2> QED BY <2>3, <2>4, <2>5
<1>9. Total(Weights, raw) = (IF S \cap Checks = {} THEN raw["retrieval"] ELSE Weight(v, S) \div Weight(t, S))
  BY <1>1, <1>2, <1>3, Zenon DEF Total, Evaluated
<1>10. Total(Weights, raw) = (IF S \cap Checks = {} THEN raw["retrieval"] ELSE SumOn(v, S) \div SumOn(t, S))
  BY <1>9, WeightIs
<1> QED BY <1>1, <1>2, <1>3, <1>4, <1>5, <1>6, <1>7, <1>8, <1>10

\* The total is a number between two of the raw scores.
LEMMA TotalIsMean ==
  ASSUME NEW raw, RawScored(raw)
  PROVE  /\ Total(Weights, raw) \in Nat
         /\ \E p \in DOMAIN raw : raw[p] <= Total(Weights, raw)
         /\ \E p \in DOMAIN raw : raw[p] >= Total(Weights, raw)
<1>1. PICK t, v : /\ IsFiniteSet(DOMAIN raw) /\ (\A p \in DOMAIN raw : t[p] \in Nat /\ t[p] >= 1)
                  /\ (\A p \in DOMAIN raw : v[p] \in Nat /\ v[p] = t[p] * raw[p])
                  /\ SumOn(v, DOMAIN raw) \in Nat /\ SumOn(t, DOMAIN raw) \in Nat /\ SumOn(t, DOMAIN raw) > 0
                  /\ Total(Weights, raw) = (IF DOMAIN raw \cap Checks = {} THEN raw["retrieval"]
                                            ELSE SumOn(v, DOMAIN raw) \div SumOn(t, DOMAIN raw))
  BY TotalOf
<1>2. "retrieval" \in DOMAIN raw /\ \A p \in DOMAIN raw : raw[p] \in Nat
  BY DEF RawScored
<1>3. CASE DOMAIN raw \cap Checks = {}
  <2>1. PICK a \in Nat : a = raw["retrieval"]
    BY <1>2
  <2>2. Total(Weights, raw) = a
    BY <1>1, <1>3, <2>1
  <2> QED BY <1>2, <2>1, <2>2
<1>4. CASE DOMAIN raw \cap Checks # {}
  <2>1. PICK S, m : S = DOMAIN raw /\ m = SumOn(v, S) \div SumOn(t, S)
    OBVIOUS
  <2>2. Total(Weights, raw) = m
    BY <1>1, <1>4, <2>1
  <2>3. IsFiniteSet(S) /\ S # {} /\ (\A p \in S : t[p] \in Nat /\ t[p] >= 1) /\ (\A p \in S : raw[p] \in Nat)
        /\ \A p \in S : v[p] \in Nat /\ v[p] = t[p] * raw[p]
    BY <1>1, <1>2, <2>1
  <2>4. (\E p \in S : raw[p] <= m) /\ \E p \in S : raw[p] >= m
    BY <2>1, <2>3, MeanLies
  <2>5. m \in Nat
    <3>1. PICK a \in Nat, b \in Nat : a = SumOn(v, S) /\ b = SumOn(t, S) /\ b > 0
      BY <1>1, <2>1
    <3>2. a \div b \in Nat
      BY <3>1, QuotientIs
    <3> QED BY <2>1, <3>1, <3>2
  <2> QED BY <2>1, <2>2, <2>4, <2>5
<1> QED BY <1>3, <1>4

\* Whoever gains in some pillars and loses in none does not lose in all.
LEMMA MeanGrows ==
  ASSUME NEW raw, NEW new, RawScored(raw), RawScored(new), DOMAIN raw = DOMAIN new,
         \A p \in DOMAIN raw : raw[p] <= new[p]
  PROVE  Total(Weights, raw) <= Total(Weights, new)
<1>1. PICK S : S = DOMAIN raw /\ S = DOMAIN new
  OBVIOUS
<1>2. PICK t, v : /\ t = InForce(Weights)
                  /\ IsFiniteSet(S) /\ (\A p \in S : t[p] \in Nat /\ t[p] >= 1)
                  /\ (\A p \in S : v[p] \in Nat /\ v[p] = t[p] * raw[p])
                  /\ SumOn(v, S) \in Nat /\ SumOn(t, S) \in Nat /\ SumOn(t, S) > 0
                  /\ Total(Weights, raw) = (IF S \cap Checks = {} THEN raw["retrieval"] ELSE SumOn(v, S) \div SumOn(t, S))
  BY <1>1, TotalOf
<1>3. PICK s, w : /\ s = InForce(Weights)
                  /\ (\A p \in S : w[p] \in Nat /\ w[p] = s[p] * new[p])
                  /\ SumOn(w, S) \in Nat
                  /\ Total(Weights, new) = (IF S \cap Checks = {} THEN new["retrieval"] ELSE SumOn(w, S) \div SumOn(s, S))
  BY <1>1, TotalOf
<1>4. s = t
  BY <1>2, <1>3
<1>5. "retrieval" \in S /\ (\A p \in S : raw[p] \in Nat) /\ (\A p \in S : new[p] \in Nat)
  BY <1>1 DEF RawScored
<1>6. CASE S \cap Checks = {}
  BY <1>1, <1>2, <1>3, <1>5, <1>6
<1>7. CASE S \cap Checks # {}
  <2>1. \A p \in S : v[p] <= w[p]
    <3> TAKE p \in S
    <3>1. PICK a \in Nat, b \in Nat, c \in Nat : a = t[p] /\ b = raw[p] /\ c = new[p] /\ b <= c
      BY <1>1, <1>2, <1>5
    <3>2. a * b <= a * c
      BY <3>1, SMT
    <3>3. v[p] = a * b /\ w[p] = a * c
      BY <1>2, <1>3, <1>4, <3>1
    <3> QED BY <3>2, <3>3
  <2>2. Numbers(v, S) /\ Numbers(w, S)
    BY <1>2, <1>3 DEF Numbers
  <2>3. SumOn(v, S) <= SumOn(w, S)
    BY <2>1, <2>2, SumMono
  <2>4. PICK a \in Nat, b \in Nat, c \in Nat :
          a = SumOn(v, S) /\ b = SumOn(w, S) /\ c = SumOn(t, S) /\ c > 0 /\ a <= b
    BY <1>2, <1>3, <2>3
  <2>5. Total(Weights, raw) = a \div c /\ Total(Weights, new) = b \div c
    BY <1>2, <1>3, <1>4, <1>7, <2>4
  <2>6. PICK k \in Nat : k = a \div c /\ c * k <= a
    BY <2>4, QuotientIs
  <2>7. k * c <= b
    BY <2>4, <2>6, SMT
  <2>8. b \div c >= k /\ b \div c \in Nat
    BY <2>4, <2>7, QuotientAtLeast
  <2> QED BY <2>5, <2>6, <2>8
<1> QED BY <1>6, <1>7

PagePillars == {"structure", "schema", "authority"}

\* Where the raw scores come from.
FromReports(raw) ==
  /\ DOMAIN raw \in SUBSET Pillars /\ "retrieval" \in DOMAIN raw /\ "coverage" \in DOMAIN raw
  /\ "technical" \in DOMAIN raw => raw["technical"] = T!Total(techReport) \div 660
  /\ \A p \in PagePillars : p \in DOMAIN raw => raw[p] = pages[p]
  /\ "entity_recognition" \in DOMAIN raw => raw["entity_recognition"] = EntityScore(seen, brand)
  /\ raw["retrieval"] = textReport.score
  /\ raw["coverage"] = Q!Coverage(textReport.results)

\* The score is of the reports there are.
ScoreInv ==
  /\ moves \subseteq Parts
  /\ pages \in [PagePillars -> RawScores] /\ brand \in Brand /\ seen \in Knowledge
  /\ score.raw # << >> =>
       /\ textReport.results # << >>
       /\ FromReports(score.raw)
       /\ score.total = Total(Weights, score.raw)

LEMMA NothingKnown == [f \in Known |-> 0] \in Knowledge
<1>1. PICK k : k = [f \in Known |-> 0]
  OBVIOUS
<1>2. \A f \in Known : k[f] = 0
  BY <1>1
<1>3. {"page", "infobox", "fresh", "item", "registered", "web"} \subseteq Known
  BY DEF Known, Article, Item
<1>4. k.page = 0 /\ k.infobox = 0 /\ k.fresh = 0 /\ k.item = 0 /\ k.registered = 0 /\ k.web = 0
  BY <1>2, <1>3
<1>5. k \in [Known -> Nat]
  BY <1>1
<1>6. k \in Knowledge
  BY <1>4, <1>5, SMT DEF Knowledge
<1> QED BY <1>1, <1>6

LEMMA SeenIs ==
  ASSUME NEW k \in Knowledge, NEW domain, NEW failed
  PROVE  Seen(k, domain, failed) \in Knowledge
<1>1. PICK L : L = Lost(failed, domain)
  OBVIOUS
<1>2. PICK s : s = [f \in Known |-> IF f \in L THEN 0 ELSE k[f]]
  OBVIOUS
<1>3. Seen(k, domain, failed) = s
  BY <1>1, <1>2, Zenon DEF Seen
<1>4. \A f \in Known : s[f] = 0 \/ s[f] = k[f]
  BY <1>2
<1>5. \A f \in Known : k[f] \in Nat
  BY DEF Knowledge
<1>6. s \in [Known -> Nat]
  BY <1>2, <1>4, <1>5
<1>7. /\ k.page \in 0..1 /\ k.infobox \in 0..1 /\ k.fresh \in 0..1 /\ k.item \in 0..1
      /\ k.registered \in 0..1 /\ k.web \in 0..2
  BY DEF Knowledge
<1>8. {"page", "infobox", "fresh", "item", "registered", "web"} \subseteq Known
  BY DEF Known, Article, Item
<1>9. /\ s.page \in 0..1 /\ s.infobox \in 0..1 /\ s.fresh \in 0..1 /\ s.item \in 0..1
      /\ s.registered \in 0..1 /\ s.web \in 0..2
  BY <1>4, <1>7, <1>8, SMT
<1>10. s \in Knowledge
  BY <1>6, <1>9, SMT DEF Knowledge
<1> QED BY <1>3, <1>10

LEMMA ScoreInit == Init => ScoreInv
<1> SUFFICES ASSUME Init PROVE ScoreInv
  OBVIOUS
<1>1. PICK s \in Sites : moves = s.moves /\ pages = s.pages /\ brand = s.brand
  BY DEF Init
<1>2. s.moves \subseteq Parts /\ s.pages \in [PagePillars -> RawScores] /\ s.brand \in Brand
  BY SitesAssumption, Zenon DEF SitesAssumption, PagePillars
<1>3. seen \in Knowledge
  BY NothingKnown, Zenon DEF Init
<1>4. score.raw = << >>
  BY DEF Init
<1> QED BY <1>1, <1>2, <1>3, <1>4 DEF ScoreInv

\* What leaves the reports, the pages and the score alone.
LEMMA ScoreStays ==
  ASSUME ScoreInv, UNCHANGED <<moves, techReport, textReport, pages, seen, score>>,
         brand' = brand \/ \E known \in Brands : brand' = [brand EXCEPT !.known = known]
  PROVE  ScoreInv'
<1>1. brand' \in Brand /\ brand'.tld = brand.tld /\ brand'.letters = brand.letters
  <2>1. brand \in Brand
    BY DEF ScoreInv
  <2>2. CASE brand' = brand
    BY <2>1, <2>2
  <2>3. ASSUME NEW known \in Brands, brand' = [brand EXCEPT !.known = known]
        PROVE  brand' \in Brand /\ brand'.tld = brand.tld /\ brand'.letters = brand.letters
    <3>1. known \in Knowledge
      BY SitesAssumption, Zenon DEF SitesAssumption
    <3> QED BY <2>1, <2>3, <3>1 DEF Brand
  <2> QED BY <2>2, <2>3
<1>2. EntityScore(seen', brand') = EntityScore(seen, brand)
  BY <1>1, EntitySame
<1>3. FromReports(score.raw) => FromReports(score.raw)'
  BY <1>2, Zenon DEF FromReports
<1> QED BY <1>1, <1>3 DEF ScoreInv

LEMMA RawIs ==
  ASSUME NEW skipped \in SUBSET Checks, pages' = pages, brand' = brand, pages \in [PagePillars -> RawScores],
         score'.raw = Raw(skipped)
  PROVE  FromReports(score.raw)' /\ DOMAIN score'.raw = Pillars \ skipped
<1>1. PICK raw : raw = score'.raw
  OBVIOUS
<1>2. PICK t : t = T!Total(techReport') \div 660
  OBVIOUS
<1>3. PICK c : c = Q!Coverage(textReport'.results)
  OBVIOUS
<1>4. PICK e : e = EntityScore(seen', brand)
  OBVIOUS
<1>5. raw = [p \in Pillars \ skipped |->
               CASE p = "technical" -> t
                 [] p \in DOMAIN pages -> pages[p]
                 [] p = "entity_recognition" -> e
                 [] p = "retrieval" -> textReport'.score
                 [] p = "coverage" -> c]
  BY <1>1, <1>2, <1>3, <1>4 DEF Raw
<1>6. DOMAIN pages = PagePillars
  OBVIOUS
<1>7. DOMAIN raw = Pillars \ skipped
  BY <1>5
<1>8. /\ "retrieval" \in DOMAIN raw /\ "coverage" \in DOMAIN raw /\ DOMAIN raw \in SUBSET Pillars
  BY <1>7 DEF Pillars, Checks
<1>9. "technical" \in DOMAIN raw => raw["technical"] = t
  BY <1>5, <1>6, <1>7 DEF PagePillars
<1>10. "entity_recognition" \in DOMAIN raw => raw["entity_recognition"] = e
  BY <1>5, <1>6, <1>7 DEF PagePillars
<1>11. raw["retrieval"] = textReport'.score /\ raw["coverage"] = c
  BY <1>5, <1>6, <1>7, <1>8 DEF PagePillars
<1>12. \A p \in PagePillars : p \in DOMAIN raw => raw[p] = pages[p]
  BY <1>5, <1>6, <1>7 DEF PagePillars
<1> QED BY <1>1, <1>2, <1>3, <1>4, <1>7, <1>8, <1>9, <1>10, <1>11, <1>12 DEF FromReports

LEMMA ScoreAudit == TextInv' /\ ScoreInv /\ Audit => ScoreInv'
<1> SUFFICES ASSUME TextInv', ScoreInv, Audit PROVE ScoreInv'
  OBVIOUS
<1>1. PICK skipped \in SUBSET Checks :
        /\ \E failed : seen' = Seen(brand.known, brand, failed)
        /\ score' = [raw |-> Raw(skipped), total |-> Total(Weights, Raw(skipped))]
  <2>1. Skips \subseteq SUBSET Checks
    BY SitesAssumption, Zenon DEF SitesAssumption
  <2>2. PICK failed \in (IF "brand" \in moves THEN Failures ELSE {{}}),
             skipped \in (IF "brand" \in moves THEN Skips ELSE {{}}) :
           /\ seen' = Seen(brand.known, brand, failed)
           /\ \E raw \in {Raw(skipped)} : score' = [raw |-> raw, total |-> Total(Weights, raw)]
    BY Zenon DEF Audit
  <2>3. skipped \in SUBSET Checks
    BY <2>1, <2>2
  <2>4. score' = [raw |-> Raw(skipped), total |-> Total(Weights, Raw(skipped))]
    <3>1. PICK raw \in {Raw(skipped)} : score' = [raw |-> raw, total |-> Total(Weights, raw)]
      BY <2>2
    <3>2. raw = Raw(skipped)
      OBVIOUS
    <3> QED BY <3>1, <3>2, Zenon
  <2>5. seen' = Seen(brand.known, brand, failed)
    BY <2>2
  <2> QED BY <2>3, <2>4, <2>5
<1>2. audited' /\ moves' = moves /\ pages' = pages /\ brand' = brand
  BY DEF Audit
<1>3. textReport'.results # << >>
  BY <1>2 DEF TextInv
<1>4. seen' \in Knowledge
  <2>1. brand.known \in Knowledge
    BY DEF ScoreInv, Brand
  <2> QED BY <1>1, <2>1, SeenIs
<1>5. score'.raw = Raw(skipped) /\ score'.total = Total(Weights, score'.raw)
  BY <1>1
<1>6. FromReports(score.raw)'
  BY <1>2, <1>5, RawIs DEF ScoreInv
<1> QED BY <1>2, <1>3, <1>4, <1>5, <1>6 DEF ScoreInv

LEMMA ScoreNext == TextInv' /\ ScoreInv /\ [Next]_vars => ScoreInv'
<1> SUFFICES ASSUME TextInv', ScoreInv, [Next]_vars PROVE ScoreInv'
  OBVIOUS
<1>1. CASE Audit
  BY <1>1, ScoreAudit
<1>2. CASE Again
  BY <1>2, ScoreStays DEF Again, techVars, textVars
<1>3. CASE TechnicalMoves
  <2>1. techReport' = techReport
    BY <1>3 DEF TechnicalMoves, T!EditRobots, T!MakeFix
  <2> QED BY <1>3, <2>1, ScoreStays DEF TechnicalMoves, textVars
<1>4. CASE TextMoves
  <2>1. textReport' = textReport
    BY <1>4 DEF TextMoves, Q!Change, Q!MakeFix
  <2> QED BY <1>4, <2>1, ScoreStays DEF TextMoves, techVars
<1>5. CASE BrandMoves
  BY <1>5, ScoreStays DEF BrandMoves, techVars, textVars
<1>6. CASE UNCHANGED vars
  BY <1>6, ScoreStays DEF vars
<1> QED BY <1>1, <1>2, <1>3, <1>4, <1>5, <1>6 DEF Next

\* The score of an audit is the mean of what the reports, the pages and what was seen of
\* the brand come to (calculate of FindableScoreCalculatorV2).
THEOREM ScoreHolds == Spec => []ScoreInv
<1>1. Init => ScoreInv
  BY ScoreInit
<1>2. ScoreInv /\ TextInv' /\ [Next]_vars => ScoreInv'
  BY ScoreNext
<1> QED BY <1>1, <1>2, TextHolds, PTL DEF Spec

\* Every raw score is in range.
RawsInRange == score.raw # << >> => RawScored(score.raw) /\ \A p \in DOMAIN score.raw : score.raw[p] \in RawScores

LEMMA RawsAre == TechInv /\ TextInv /\ ScoreInv => RawsInRange
<1> SUFFICES ASSUME TechInv, TextInv, ScoreInv, score.raw # << >> 
             PROVE  RawScored(score.raw) /\ \A p \in DOMAIN score.raw : score.raw[p] \in RawScores
  BY DEF RawsInRange
<1>1. FromReports(score.raw) /\ textReport.results # << >>
  BY DEF ScoreInv
<1>2. PICK raw : raw = score.raw
  OBVIOUS
<1>3. DOMAIN raw \in SUBSET Pillars
  BY <1>1, <1>2 DEF FromReports
<1>4. T!Total(techReport) \in Nat /\ T!Total(techReport) <= 66000000
  <2>1. PICK s \in T!Site : techReport = T!Report(s, techReport.trouble)
    BY DEF TechInv
  <2>2. PICK r : r = techReport /\ r = T!Report(s, techReport.trouble)
    BY <2>1
  <2>3. T!Total(r) \in Nat /\ T!Total(r) <= 66000000
    BY <2>2, ReportInRange
  <2> QED BY <2>2, <2>3
<1>5. "technical" \in DOMAIN raw => raw["technical"] \in RawScores
  <2>1. PICK n \in Nat : n = T!Total(techReport) /\ n <= 66000000
    BY <1>4
  <2>2. "technical" \in DOMAIN raw => raw["technical"] = n \div 660
    BY <1>1, <1>2, <2>1 DEF FromReports
  <2>3. PICK b \in Nat, k \in Nat : b = 660 /\ k = 100000
    BY SMT
  <2>4. b > 0 /\ n < k * b + b
    BY <2>1, <2>3, SMT
  <2>5. n \div b \in Nat /\ n \div b <= k
    BY <2>4, QuotientBound
  <2> QED BY <2>2, <2>3, <2>5, SMT DEF RawScores
<1>6. \A p \in PagePillars : p \in DOMAIN raw => raw[p] \in RawScores
  BY <1>1, <1>2 DEF FromReports, ScoreInv
<1>7. "entity_recognition" \in DOMAIN raw => raw["entity_recognition"] \in RawScores
  <2>1. seen \in Knowledge /\ brand.tld \in DOMAIN TldScore /\ brand.letters \in Nat
    BY DEF ScoreInv, Brand
  <2>2. NoWorse(seen, seen)
    <3>1. \A f \in Known : seen[f] \in Nat
      BY <2>1, KnownIs
    <3> QED BY <3>1 DEF NoWorse
  <2>3. EntityScore(seen, brand) \in Nat /\ EntityScore(seen, brand) <= 66666
    BY <2>1, <2>2, EntityGrows
  <2>4. "entity_recognition" \in DOMAIN raw => raw["entity_recognition"] = EntityScore(seen, brand)
    BY <1>1, <1>2 DEF FromReports
  <2> QED BY <2>3, <2>4, SMT DEF RawScores
<1>8. raw["retrieval"] \in RawScores /\ raw["coverage"] \in RawScores /\ "retrieval" \in DOMAIN raw
  <2>1. TextAgrees
    BY <1>1, TextReportAgrees
  <2>2. raw["retrieval"] = textReport.score /\ raw["coverage"] = Q!Coverage(textReport.results) /\ "retrieval" \in DOMAIN raw
    BY <1>1, <1>2 DEF FromReports
  <2> QED BY <2>1, <2>2, SMT DEF RawScores, TextAgrees
<1>9. \A p \in DOMAIN raw : raw[p] \in RawScores
  BY <1>3, <1>5, <1>6, <1>7, <1>8 DEF Pillars, PagePillars
<1>10. \A p \in DOMAIN raw : raw[p] \in Nat
  <2>1. \A n \in RawScores : n \in Nat
    BY SMT DEF RawScores
  <2> QED BY <1>9, <2>1
<1> QED BY <1>2, <1>3, <1>8, <1>9, <1>10 DEF RawScored

\* The technical checks do not lose points, when a fix or nothing was made of the site.
LEMMA TechnicalRises ==
  ASSUME TechInv, TechInv', Audit, last # "edit", techReport.trouble = "none", techReport'.trouble = "none"
  PROVE  T!Total(techReport) <= T!Total(techReport')
<1>1. ~audited /\ audited' /\ UNCHANGED <<moves, tech, last>>
  BY DEF Audit
<1>2. techReport' = T!Report(tech, "none")
  <2>1. ~Altered'
    BY <1>1 DEF Altered
  <2> QED BY <1>1, <2>1 DEF TechInv
<1>3. CASE Altered
  BY <1>2, <1>3 DEF TechInv, Altered
<1>4. CASE ~Altered
  <2>1. techReport = techReport'
    BY <1>2, <1>4 DEF TechInv
  <2>2. PICK s \in T!Site : techReport = T!Report(s, techReport.trouble)
    BY DEF TechInv
  <2>3. PICK r : r = techReport /\ r = T!Report(s, techReport.trouble)
    BY <2>2
  <2>4. T!Total(r) \in Nat
    BY <2>3, ReportInRange
  <2> QED BY <2>1, <2>3, <2>4
<1> QED BY <1>3, <1>4

LEMMA ScoreRises ==
  ASSUME TechInv, ScoreInv, RawsInRange, TechInv', ScoreInv', RawsInRange', [Next]_vars,
         ~audited, audited', last # "none", "text" \notin moves, last # "edit", NoWorse(seen, seen'),
         DOMAIN score'.raw = DOMAIN score.raw,
         techReport.trouble = "none", techReport'.trouble = "none"
  PROVE  score'.total >= score.total
<1>1. Audit
  BY DEF Next, vars, Again, TechnicalMoves, TextMoves, BrandMoves, T!EditRobots, T!MakeFix, Q!Change, Q!MakeFix
<1>2. pages' = pages /\ brand' = brand /\ "text" \notin moves
  BY <1>1 DEF Audit
<1>3. score'.raw # << >>
  <2>1. PICK failed \in (IF "brand" \in moves THEN Failures ELSE {{}}),
             skipped \in (IF "brand" \in moves THEN Skips ELSE {{}}) :
           \E raw \in {Raw(skipped)} : score' = [raw |-> raw, total |-> Total(Weights, raw)]
    BY <1>1, Zenon DEF Audit
  <2>2. PICK raw : raw = Raw(skipped) /\ score'.raw = raw
    BY <2>1
  <2>3. DOMAIN raw = Pillars \ skipped
    BY <2>2, Zenon DEF Raw
  <2>4. skipped \in SUBSET Checks
    BY <2>1, SitesAssumption, Zenon DEF SitesAssumption
  <2>5. "retrieval" \in DOMAIN raw
    BY <2>3, <2>4 DEF Pillars, Checks
  <2>6. DOMAIN << >> = {}
    OBVIOUS
  <2> QED BY <2>2, <2>5, <2>6
<1>4. score.raw # << >>
  <2>1. FromReports(score.raw)'
    BY <1>3 DEF ScoreInv
  <2>2. "retrieval" \in DOMAIN score.raw
    BY <2>1 DEF FromReports
  <2>3. DOMAIN << >> = {}
    OBVIOUS
  <2> QED BY <2>2, <2>3
<1>5. FromReports(score.raw) /\ FromReports(score.raw)' /\ RawScored(score.raw) /\ RawScored(score'.raw)
      /\ score.total = Total(Weights, score.raw) /\ score'.total = Total(Weights, score'.raw)
      /\ textReport.results # << >>
  BY <1>3, <1>4 DEF ScoreInv, RawsInRange, RawScored
<1>6. textReport' = textReport
  BY <1>1, <1>2, <1>5 DEF Audit, textVars
<1>7. PICK raw, new : raw = score.raw /\ new = score'.raw /\ DOMAIN raw = DOMAIN new
  OBVIOUS
<1>8. DOMAIN raw \in SUBSET Pillars /\ (\A p \in DOMAIN raw : raw[p] \in Nat) /\ (\A p \in DOMAIN raw : new[p] \in Nat)
  BY <1>5, <1>7 DEF RawScored
<1>9. "technical" \in DOMAIN raw => raw["technical"] <= new["technical"]
  <2>1. PICK s \in T!Site : techReport = T!Report(s, techReport.trouble)
    BY DEF TechInv
  <2>2. PICK u \in T!Site : techReport' = T!Report(u, techReport'.trouble)
    BY DEF TechInv
  <2>3. T!Total(techReport) \in Nat
    <3>1. PICK r : r = techReport /\ r = T!Report(s, techReport.trouble)
      BY <2>1
    <3> QED BY <3>1, ReportInRange
  <2>4. T!Total(techReport') \in Nat
    <3>1. PICK r : r = techReport' /\ r = T!Report(u, techReport'.trouble)
      BY <2>2
    <3>2. T!Total(r) \in Nat
      BY <3>1, ReportInRange
    <3> QED BY <3>1, <3>2
  <2>5. T!Total(techReport) <= T!Total(techReport')
    BY <1>1, TechnicalRises
  <2>6. PICK n \in Nat, m \in Nat : n = T!Total(techReport) /\ m = T!Total(techReport') /\ n <= m
    BY <2>3, <2>4, <2>5
  <2>7. "technical" \in DOMAIN raw => raw["technical"] = n \div 660
    BY <1>5, <1>7, <2>6 DEF FromReports
  <2>8. "technical" \in DOMAIN raw => new["technical"] = m \div 660
    BY <1>5, <1>7, <2>6 DEF FromReports
  <2>9. n \div 660 <= m \div 660
    BY <2>6, SMT
  <2> QED BY <2>7, <2>8, <2>9
<1>10. \A p \in PagePillars : p \in DOMAIN raw => raw[p] = new[p]
  BY <1>2, <1>5, <1>7 DEF FromReports
<1>11. "entity_recognition" \in DOMAIN raw => raw["entity_recognition"] <= new["entity_recognition"]
  <2>1. /\ seen \in Knowledge /\ seen' \in Knowledge
        /\ brand.tld \in DOMAIN TldScore /\ brand.letters \in Nat
    BY DEF ScoreInv, Brand
  <2>2. EntityScore(seen, brand) <= EntityScore(seen', brand)
    BY <2>1, EntityGrows
  <2>3. "entity_recognition" \in DOMAIN raw =>
           raw["entity_recognition"] = EntityScore(seen, brand) /\ new["entity_recognition"] = EntityScore(seen', brand)
    BY <1>2, <1>5, <1>7 DEF FromReports
  <2> QED BY <2>2, <2>3
<1>12. raw["retrieval"] = new["retrieval"] /\ raw["coverage"] = new["coverage"]
  BY <1>5, <1>6, <1>7 DEF FromReports
<1>13. \A p \in DOMAIN raw : raw[p] <= new[p]
  <2> TAKE p \in DOMAIN raw
  <2>1. raw[p] \in Nat /\ p \in Pillars
    BY <1>8
  <2>2. CASE p = "technical"
    BY <1>9, <2>2
  <2>3. CASE p \in PagePillars
    BY <1>10, <2>1, <2>3
  <2>4. CASE p = "entity_recognition"
    BY <1>11, <2>4
  <2>5. CASE p \in {"retrieval", "coverage"}
    BY <1>12, <2>1, <2>5
  <2> QED BY <2>1, <2>2, <2>3, <2>4, <2>5 DEF Pillars, PagePillars
<1>14. Total(Weights, raw) <= Total(Weights, new) /\ Total(Weights, raw) \in Nat /\ Total(Weights, new) \in Nat
  BY <1>5, <1>7, <1>13, MeanGrows, TotalIsMean
<1> QED BY <1>5, <1>7, <1>14

\* A site whose technical fixes are made, of which no less is known and whose checks come
\* through does not lose points (calculate of FindableScoreCalculatorV2, with the thresholds
\* of the pillars).
THEOREM SiteRises == Spec => RisesWithSite
<1>1. TechInv /\ ScoreInv /\ RawsInRange /\ TechInv' /\ ScoreInv' /\ RawsInRange' /\ [Next]_vars =>
        [~audited /\ audited' /\ last # "none" /\ "text" \notin moves
          /\ last # "edit" /\ NoWorse(seen, seen')
          /\ DOMAIN score'.raw = DOMAIN score.raw
          /\ techReport.trouble = "none" /\ techReport'.trouble = "none"
         => score'.total >= score.total]_vars
  BY ScoreRises
<1>2. Spec => []RawsInRange
  BY RawsAre, TechnicalHolds, TextHolds, ScoreHolds, PTL
<1> QED BY <1>1, <1>2, TechnicalHolds, ScoreHolds, PTL DEF Spec, RisesWithSite

\* The three accounts of who can see the site.
LEMMA ViewsAgree == TechInv => T!CrawlerViewsAgree
<1> SUFFICES ASSUME TechInv PROVE T!CrawlerViewsAgree
  OBVIOUS
<1>1. PICK s \in T!Site : techReport = T!Report(s, techReport.trouble)
  BY DEF TechInv
<1>2. PICK r : r = techReport /\ r = T!Report(s, techReport.trouble)
  BY <1>1
<1>3. r.blocked = T!Blocked(s, techReport.trouble) /\ r.search = T!Blocked(s, techReport.trouble) \cap SearchNames
      /\ r.access = T!CrawlerAccess(T!Blocked(s, techReport.trouble))
  BY <1>2, ReportIs
<1>4. \A c \in SearchNames : c \in r.search <=> c \in r.blocked
  BY <1>3
<1>5. "Googlebot" \in SearchNames /\ "Bingbot" \in SearchNames /\ "Applebot" \in SearchNames
  BY DEF SearchNames
<1>6. PICK g \in {0, 35}, b \in {0, 20}, a \in {0, 5} :
        /\ g = (IF "Googlebot" \in r.blocked THEN 0 ELSE 35) /\ b = (IF "Bingbot" \in r.blocked THEN 0 ELSE 20)
        /\ a = (IF "Applebot" \in r.blocked THEN 0 ELSE 5)
  OBVIOUS
<1>7. PICK e : e = T!Earned(T!SearchCrawlers, r.search) /\ e = g + b + a
  <2>1. T!Earned(T!SearchCrawlers, r.search) =
          (IF "Googlebot" \in r.search THEN 0 ELSE 35) + (IF "Bingbot" \in r.search THEN 0 ELSE 20)
            + (IF "Applebot" \in r.search THEN 0 ELSE 5)
    BY SearchEarned
  <2> QED BY <1>4, <1>5, <1>6, <2>1
<1>8. T!SearchScore(r) = (100 * (g + b + a)) \div 60
  BY <1>7, SMT DEF T!SearchScore
<1>9. T!SearchScore(r) >= 80 <=> (g = 35 /\ b = 20)
  BY <1>6, <1>8, SMT
<1>10. T!SearchScore(r) >= 50 <=> g = 35
  BY <1>6, <1>8, SMT
<1>11. (g = 35 <=> "Googlebot" \notin r.blocked) /\ (b = 20 <=> "Bingbot" \notin r.blocked)
  BY <1>6
<1>12. PICK ai \in 0..44 : r.access = 11 * (g + b + a) + 10 * ai
  <2>1. PICK ai \in 0..44 : T!CrawlerAccess(r.blocked) =
             11 * ((IF "Googlebot" \in r.blocked THEN 0 ELSE 35) + (IF "Bingbot" \in r.blocked THEN 0 ELSE 20)
                     + (IF "Applebot" \in r.blocked THEN 0 ELSE 5)) + 10 * ai
    BY AccessIs
  <2> QED BY <1>3, <1>6, <2>1
<1>13. r.access >= 880 => g = 35
  BY <1>6, <1>12, SMT
<1>14. /\ "AI Overviews" \in T!Cites(r) <=> "Googlebot" \notin r.blocked
       /\ "Gemini" \in T!Cites(r) <=> "Googlebot" \notin r.blocked
       /\ "Copilot" \in T!Cites(r) <=> "Bingbot" \notin r.blocked
  BY DEF T!Cites
<1>15. T!SearchVisibility(r) = "visible" <=> T!SearchScore(r) >= 80
  BY SMT DEF T!SearchVisibility
<1>16. T!AccessLevel(r) = "limited" <=> ~(r.access >= 880) /\ ~(T!SearchScore(r) >= 50)
  BY SMT DEF T!AccessLevel
<1>17. T!SearchVisibility(r) = "visible" <=> {"AI Overviews", "Gemini", "Copilot"} \subseteq T!Cites(r)
  BY <1>9, <1>11, <1>14, <1>15
<1>18. T!AccessLevel(r) = "limited" <=> "Gemini" \notin T!Cites(r)
  BY <1>10, <1>11, <1>13, <1>14, <1>16
<1> QED BY <1>2, <1>17, <1>18 DEF T!CrawlerViewsAgree

LEMMA TechInRange == TechInv => T!TypeOK
<1> SUFFICES ASSUME TechInv PROVE T!TypeOK
  OBVIOUS
<1>1. PICK s \in T!Site : techReport = T!Report(s, techReport.trouble)
  BY DEF TechInv
<1>2. PICK r : r = techReport /\ r = T!Report(s, techReport.trouble)
  BY <1>1
<1>3. /\ r.access \in Nat /\ r.access <= 1100 /\ r.speed \in Nat /\ r.speed <= 60000
      /\ r.llmsScore \in Nat /\ r.llmsScore <= 200 /\ r.homeScore \in Nat /\ r.homeScore <= 100 /\ r.ms \in Nat
      /\ T!Total(r) \in Nat /\ T!Total(r) <= 66000000
  BY <1>2, ReportInRange
<1> QED BY <1>2, <1>3, SMT DEF T!TypeOK

\* Who is praised for the response has a score for it and is not asked to fix it.
LEMMA ResponseIsGood ==
  ASSUME TechInv, techReport.ms > 0, techReport.ms < 500
  PROVE  techReport.speed > 0 /\ "ttfb" \notin T!Fixes(techReport)
<1>1. PICK s \in T!Site : techReport = T!Report(s, techReport.trouble)
  BY DEF TechInv
<1>2. PICK r : r = techReport /\ r = T!Report(s, techReport.trouble)
  BY <1>1
<1>3. r.ms = T!FirstByte(s, techReport.trouble).ms /\ r.speed = T!FirstByte(s, techReport.trouble).score
      /\ r.ms \in Nat
  BY <1>2, ReportIs, ReportInRange
<1>4. ~T!TooSlow(r.ms)
  BY <1>2, <1>3, SMT DEF T!TooSlow
<1>5. "ttfb" \notin T!Fixes(r)
  BY <1>4, FixesAre
<1>6. r.speed = T!Speed(r.ms) \/ r.ms = 0 \/ r.ms = 10000
  BY <1>3, SMT DEF T!FirstByte
<1>7. T!Speed(r.ms) >= 30000
  BY <1>3, <1>4, SpeedBound
<1>8. r.speed >= 30000
  BY <1>2, <1>3, <1>6, <1>7, SMT
<1>9. r.speed \in Nat
  BY <1>2, ReportInRange
<1>10. r.speed > 0
  BY <1>8, <1>9, SMT
<1> QED BY <1>2, <1>5, <1>10

LEMMA AllComeIn ==
  ASSUME TechInv, T!Checked \cap techReport.blocked = {}
  PROVE  "unblock" \notin T!Fixes(techReport)
<1>1. PICK s \in T!Site : techReport = T!Report(s, techReport.trouble)
  BY DEF TechInv
<1>2. PICK r : r = techReport /\ r = T!Report(s, techReport.trouble)
  BY <1>1
<1>3. r.search = {}
  <2>1. r.search = r.blocked \cap DOMAIN T!SearchCrawlers
    <3>1. r.search = T!Blocked(s, techReport.trouble) \cap SearchNames
      BY <1>2, ReportIs
    <3>2. r.blocked = T!Blocked(s, techReport.trouble)
      BY <1>2, ReportIs
    <3> QED BY <3>1, <3>2, SearchCrawlersAre
  <2>2. DOMAIN T!SearchCrawlers \subseteq T!Checked
    BY Zenon DEF T!Checked
  <2>3. T!Checked \cap r.blocked = {}
    BY <1>2
  <2> QED BY <2>1, <2>2, <2>3
<1> QED BY <1>2, <1>3, FixesAre

\* The milestones that a total has not reached, and how many it has.
LEMMA MilestonesAre ==
  ASSUME NEW n \in Nat
  PROVE  /\ n < 40000 => Ahead(n) = {40, 55, 70, 85} /\ {m \in Milestones : n >= 1000 * m} = {}
         /\ n >= 40000 /\ n < 55000 => Ahead(n) = {55, 70, 85} /\ {m \in Milestones : n >= 1000 * m} = {40}
         /\ n >= 55000 /\ n < 70000 => Ahead(n) = {70, 85} /\ {m \in Milestones : n >= 1000 * m} = {40, 55}
         /\ n >= 70000 /\ n < 85000 => Ahead(n) = {85} /\ {m \in Milestones : n >= 1000 * m} = {40, 55, 70}
         /\ n >= 85000 => Ahead(n) = {} /\ {m \in Milestones : n >= 1000 * m} = {40, 55, 70, 85}
<1>1. CASE n < 40000
  BY <1>1, SMT DEF Ahead, Milestones
<1>2. CASE n >= 40000 /\ n < 55000
  BY <1>2, SMT DEF Ahead, Milestones
<1>3. CASE n >= 55000 /\ n < 70000
  BY <1>3, SMT DEF Ahead, Milestones
<1>4. CASE n >= 70000 /\ n < 85000
  BY <1>4, SMT DEF Ahead, Milestones
<1>5. CASE n >= 85000
  BY <1>5, SMT DEF Ahead, Milestones
<1> QED BY <1>1, <1>2, <1>3, <1>4, <1>5, SMT

CountsAreOf(a, b, c, d) ==
  /\ Cardinality({}) = 0 /\ Cardinality({a}) = 1 /\ Cardinality({a, b}) = 2
  /\ Cardinality({a, b, c}) = 3 /\ Cardinality({a, b, c, d}) = 4

LEMMA HowMany ==
  ASSUME NEW a, NEW b, NEW c, NEW d, a # b, a # c, a # d, b # c, b # d, c # d
  PROVE  CountsAreOf(a, b, c, d)
<1>1. IsFiniteSet({}) /\ Cardinality({}) = 0
  BY FS_EmptySet
<1>2. \A S, x : IsFiniteSet(S) /\ x \notin S => IsFiniteSet(S \cup {x}) /\ Cardinality(S \cup {x}) = Cardinality(S) + 1
  BY FS_AddElement
<1>3. IsFiniteSet({a}) /\ Cardinality({a}) = 1
  BY FS_Singleton
<1>4. IsFiniteSet({a} \cup {b}) /\ Cardinality({a} \cup {b}) = 2
  BY <1>2, <1>3
<1>5. {a} \cup {b} = {a, b} /\ {a, b} \cup {c} = {a, b, c} /\ {a, b, c} \cup {d} = {a, b, c, d}
  OBVIOUS
<1>6. IsFiniteSet({a, b}) /\ Cardinality({a, b}) = 2
  BY <1>4, <1>5
<1>7. IsFiniteSet({a, b, c}) /\ Cardinality({a, b, c}) = 3
  <2>1. c \notin {a, b}
    OBVIOUS
  <2>2. IsFiniteSet({a, b} \cup {c}) /\ Cardinality({a, b} \cup {c}) = 2 + 1
    BY <1>2, <1>6, <2>1
  <2> QED BY <1>5, <2>2
<1>8. IsFiniteSet({a, b, c, d}) /\ Cardinality({a, b, c, d}) = 4
  <2>1. d \notin {a, b, c}
    OBVIOUS
  <2>2. IsFiniteSet({a, b, c} \cup {d}) /\ Cardinality({a, b, c} \cup {d}) = 3 + 1
    BY <1>2, <1>7, <2>1
  <2> QED BY <1>5, <2>2
<1> QED BY <1>1, <1>3, <1>6, <1>7, <1>8 DEF CountsAreOf

\* The level by the milestones that were reached.
LevelOf(n, milestone, level) == Level(n) = level /\ Milestone(n) = milestone

LEMMA SmallestIs ==
  ASSUME NEW S \in SUBSET Int, NEW x \in S, \A y \in S : x <= y
  PROVE  Min(S) = x
<1>1. Min(S) \in S /\ \A y \in S : Min(S) <= y
  BY DEF Min
<1>2. PICK m \in Int, z \in Int : m = Min(S) /\ z = x /\ m <= z /\ z <= m
  BY <1>1
<1> QED BY <1>2, SMT

LEMMA LevelsAre ==
  ASSUME NEW n \in Nat
  PROVE  /\ n < 40000 => LevelOf(n, 40, "not_yet_findable")
         /\ n >= 40000 /\ n < 55000 => LevelOf(n, 55, "partially_findable")
         /\ n >= 55000 /\ n < 70000 => LevelOf(n, 70, "findable")
         /\ n >= 70000 /\ n < 85000 => LevelOf(n, 85, "highly_findable")
         /\ n >= 85000 => LevelOf(n, 0, "optimized")
<1>1. /\ Cardinality({}) = 0 /\ Cardinality({40}) = 1 /\ Cardinality({40, 55}) = 2
      /\ Cardinality({40, 55, 70}) = 3 /\ Cardinality({40, 55, 70, 85}) = 4
  <2>1. PICK a \in Nat, b \in Nat, c \in Nat, d \in Nat : a = 40 /\ b = 55 /\ c = 70 /\ d = 85
    BY SMT
  <2>2. a # b /\ a # c /\ a # d /\ b # c /\ b # d /\ c # d
    BY <2>1, SMT
  <2>3. CountsAreOf(a, b, c, d)
    BY <2>2, HowMany
  <2> QED BY <2>1, <2>3, SMT DEF CountsAreOf
<1>2. Levels[1] = "not_yet_findable" /\ Levels[2] = "partially_findable" /\ Levels[3] = "findable"
      /\ Levels[4] = "highly_findable" /\ Levels[5] = "optimized"
  BY DEF Levels
<1>3. Min({40, 55, 70, 85}) = 40 /\ Min({55, 70, 85}) = 55 /\ Min({70, 85}) = 70 /\ Min({85}) = 85
  <2>1. Min({40, 55, 70, 85}) = 40
    BY SmallestIs, SMT
  <2>2. Min({55, 70, 85}) = 55
    BY SmallestIs, SMT
  <2>3. Min({70, 85}) = 70
    BY SmallestIs, SMT
  <2>4. Min({85}) = 85
    BY SmallestIs, SMT
  <2> QED BY <2>1, <2>2, <2>3, <2>4
<1>4. PICK passed : passed = {m \in Milestones : n >= 1000 * m}
  OBVIOUS
<1>5. Level(n) = Levels[1 + Cardinality(passed)]
  BY <1>4, Zenon DEF Level
<1>6. Milestone(n) = (IF Ahead(n) = {} THEN 0 ELSE Min(Ahead(n)))
  BY Zenon DEF Milestone
<1>7. ASSUME n < 40000 PROVE LevelOf(n, 40, "not_yet_findable")
  <2>1. Ahead(n) = {40, 55, 70, 85} /\ passed = {}
    BY <1>4, <1>7, MilestonesAre
  <2> QED BY <1>1, <1>2, <1>3, <1>5, <1>6, <2>1, SMT DEF LevelOf
<1>8. ASSUME n >= 40000, n < 55000 PROVE LevelOf(n, 55, "partially_findable")
  <2>1. Ahead(n) = {55, 70, 85} /\ passed = {40}
    BY <1>4, <1>8, MilestonesAre
  <2> QED BY <1>1, <1>2, <1>3, <1>5, <1>6, <2>1, SMT DEF LevelOf
<1>9. ASSUME n >= 55000, n < 70000 PROVE LevelOf(n, 70, "findable")
  <2>1. Ahead(n) = {70, 85} /\ passed = {40, 55}
    BY <1>4, <1>9, MilestonesAre
  <2> QED BY <1>1, <1>2, <1>3, <1>5, <1>6, <2>1, SMT DEF LevelOf
<1>10. ASSUME n >= 70000, n < 85000 PROVE LevelOf(n, 85, "highly_findable")
  <2>1. Ahead(n) = {85} /\ passed = {40, 55, 70}
    BY <1>4, <1>10, MilestonesAre
  <2> QED BY <1>1, <1>2, <1>3, <1>5, <1>6, <2>1, SMT DEF LevelOf
<1>11. ASSUME n >= 85000 PROVE LevelOf(n, 0, "optimized")
  <2>1. Ahead(n) = {} /\ passed = {40, 55, 70, 85}
    BY <1>4, <1>11, MilestonesAre
  <2> QED BY <1>1, <1>2, <1>5, <1>6, <2>1, SMT DEF LevelOf
<1> QED BY <1>7, <1>8, <1>9, <1>10, <1>11

\* Only the highest level has no milestone, and the points to a milestone make another level.
LEMMA NextLevel ==
  ASSUME NEW n \in Nat
  PROVE  /\ Milestone(n) = 0 <=> Level(n) = "optimized"
         /\ Milestone(n) # 0 => Level(n + PointsNeeded(n)) # Level(n)
<1>1. Milestone(n) # 0 => n + PointsNeeded(n) = 1000 * Milestone(n)
  <2>1. PICK m \in Nat : m = Milestone(n)
    BY LevelsAre, SMT DEF LevelOf
  <2>2. Ahead(n) = {} => m = 0
    BY <2>1, Zenon DEF Milestone
  <2>3. Ahead(n) # {} => PointsNeeded(n) = 1000 * m - n
    BY <2>1, SMT DEF PointsNeeded
  <2>4. n + (1000 * m - n) = 1000 * m
    BY SMT
  <2> QED BY <2>1, <2>2, <2>3, <2>4, SMT
<1>2. PICK a \in Nat, b \in Nat, c \in Nat, d \in Nat : a = 40000 /\ b = 55000 /\ c = 70000 /\ d = 85000
  BY SMT
<1>3. LevelOf(a, 55, "partially_findable") /\ LevelOf(b, 70, "findable") /\ LevelOf(c, 85, "highly_findable")
      /\ LevelOf(d, 0, "optimized")
  BY <1>2, LevelsAre, SMT
<1>4. CASE n < 40000
  <2>1. LevelOf(n, 40, "not_yet_findable")
    BY <1>4, LevelsAre
  <2>2. 1000 * 40 = a
    BY <1>2, SMT
  <2> QED BY <1>1, <1>3, <2>1, <2>2, SMT DEF LevelOf
<1>5. CASE n >= 40000 /\ n < 55000
  <2>1. LevelOf(n, 55, "partially_findable")
    BY <1>5, LevelsAre
  <2>2. 1000 * 55 = b
    BY <1>2, SMT
  <2> QED BY <1>1, <1>3, <2>1, <2>2, SMT DEF LevelOf
<1>6. CASE n >= 55000 /\ n < 70000
  <2>1. LevelOf(n, 70, "findable")
    BY <1>6, LevelsAre
  <2>2. 1000 * 70 = c
    BY <1>2, SMT
  <2> QED BY <1>1, <1>3, <2>1, <2>2, SMT DEF LevelOf
<1>7. CASE n >= 70000 /\ n < 85000
  <2>1. LevelOf(n, 85, "highly_findable")
    BY <1>7, LevelsAre
  <2>2. 1000 * 85 = d
    BY <1>2, SMT
  <2> QED BY <1>1, <1>3, <2>1, <2>2, SMT DEF LevelOf
<1>8. CASE n >= 85000
  <2>1. LevelOf(n, 0, "optimized")
    BY <1>8, LevelsAre
  <2> QED BY <2>1, SMT DEF LevelOf
<1> QED BY <1>4, <1>5, <1>6, <1>7, <1>8, SMT

\* What is praised of the brand and what is criticised.
BrandAgrees(k, domain, raw, praise) ==
  /\ "No Wikipedia presence" \in BrandIssues(k, raw) =>
       praise \cap {"Strong recognition", "infobox", "Substantial article", "Article"} = {}
  /\ "Strong recognition" \in praise =>
       PillarLevel("entity_recognition", raw) = "full" /\ BrandAdvice(k, raw) = {}

Strong(raw) == raw >= 60000
Weak(raw) == ~(raw >= 25000)

LEMMA SixtyIsMore == ASSUME NEW raw \in Nat, Strong(raw) PROVE raw >= 50000
BY SMT DEF Strong

LEMMA StrongIsNotWeak == ASSUME NEW raw \in Nat, Strong(raw) PROVE ~Weak(raw)
BY SMT DEF Strong, Weak

LEMMA NoneIsNotOne == 0 # 1
OBVIOUS

LEMMA NoIssues ==
  ASSUME NEW k, NEW raw \in Nat, ~Weak(raw)
  PROVE  BrandIssues(k, raw) = {}
BY SMT DEF BrandIssues, Weak

LEMMA NoArticle ==
  ASSUME NEW k, NEW raw \in Nat, Weak(raw), "No Wikipedia presence" \in BrandIssues(k, raw), k.page # 0
  PROVE  FALSE
BY SMT DEF BrandIssues, Weak

LEMMA StrongIs ==
  ASSUME NEW k, NEW domain, NEW raw \in Nat, Strong(raw)
  PROVE  BrandStrengths(k, domain, raw) = {"Strong recognition"}
BY SMT DEF BrandStrengths, Strong

LEMMA OthersAre ==
  ASSUME NEW k, NEW domain, NEW raw \in Nat, ~Strong(raw)
  PROVE  BrandStrengths(k, domain, raw)
           = ArticleStrengths(k) \cup ItemStrengths(k) \cup DomainStrengths(k, domain)
BY SMT DEF BrandStrengths, Strong

LEMMA StrongIsFull ==
  ASSUME NEW k, NEW raw \in Nat, Strong(raw)
  PROVE  PillarLevel("entity_recognition", raw) = "full" /\ BrandAdvice(k, raw) = {}
<1>1. BrandAdvice(k, raw) = {}
  <2>1. raw >= 50000
    BY SixtyIsMore
  <2> QED BY <2>1, SMT DEF BrandAdvice
<1>2. PillarLevel("entity_recognition", raw) = "full"
  BY SMT DEF PillarLevel, Full, Partial, Strong
<1> QED BY <1>1, <1>2

LEMMA ArticleStrengthsAre ==
  ASSUME NEW k
  PROVE  /\ ArticleStrengths(k) \subseteq {"infobox", "Substantial article", "Article"}
         /\ k.page # 1 => ArticleStrengths(k) = {}
<1> DEFINE Substantial == k.chars > 5000
           Short == k.chars <= 5000
<1>1. ArticleStrengths(k) = {s \in {"infobox", "Substantial article", "Article"} :
                               /\ k.page = 1
                               /\ (s = "infobox") = (k.infobox = 1)
                               /\ s = "Substantial article" => Substantial
                               /\ s = "Article" => Short}
  BY DEF ArticleStrengths
<1> HIDE DEF Substantial, Short
<1> QED BY <1>1, Zenon

LEMMA PlainStrengthsAre ==
  ASSUME NEW k, NEW domain
  PROVE  /\ ArticleStrengths(k) \subseteq {"infobox", "Substantial article", "Article"}
         /\ k.page # 1 => ArticleStrengths(k) = {}
         /\ ItemStrengths(k) \subseteq {"Languages", "Item"}
         /\ DomainStrengths(k, domain) \subseteq {"Established", "Premium TLD"}
<1>1. ItemStrengths(k) \subseteq {"Languages", "Item"}
  BY Zenon DEF ItemStrengths
<1>2. DomainStrengths(k, domain) \subseteq {"Established", "Premium TLD"}
  BY Zenon DEF DomainStrengths
<1> QED BY <1>1, <1>2, ArticleStrengthsAre

LEMMA StrengthsAre ==
  ASSUME NEW k, NEW domain, NEW raw \in Nat
  PROVE  BrandStrengths(k, domain, raw)
           \subseteq {"Strong recognition", "infobox", "Substantial article", "Article", "Languages", "Item",
                      "Established", "Premium TLD"}
<1>1. Strong(raw) => BrandStrengths(k, domain, raw) = {"Strong recognition"}
  BY StrongIs
<1>2. ~Strong(raw) => BrandStrengths(k, domain, raw)
                   = ArticleStrengths(k) \cup ItemStrengths(k) \cup DomainStrengths(k, domain)
  BY OthersAre
<1> QED BY <1>1, <1>2, PlainStrengthsAre

LEMMA PraiseIs ==
  ASSUME NEW others, others \cap {"Strong recognition", "infobox", "Substantial article", "Article"} = {},
         NEW k \in Knowledge, NEW domain, NEW raw \in Nat,
         NEW praise, praise = others \cup BrandStrengths(k, domain, raw)
  PROVE  BrandAgrees(k, domain, raw, praise)
<1>1. "No Wikipedia presence" \in BrandIssues(k, raw) => Weak(raw) /\ k.page = 0
  <2>1. ASSUME ~Weak(raw) PROVE BrandIssues(k, raw) = {}
    BY <2>1, NoIssues
  <2>2. ASSUME Weak(raw), "No Wikipedia presence" \in BrandIssues(k, raw) PROVE k.page = 0
    BY <2>2, NoArticle
  <2> QED BY <2>1, <2>2
<1>2. Strong(raw) => BrandStrengths(k, domain, raw) = {"Strong recognition"}
  BY StrongIs
<1>3. ~Strong(raw) => BrandStrengths(k, domain, raw)
                   = ArticleStrengths(k) \cup ItemStrengths(k) \cup DomainStrengths(k, domain)
  BY OthersAre
<1>4. Strong(raw) => ~Weak(raw)
  BY StrongIsNotWeak
<1>5. Strong(raw) => PillarLevel("entity_recognition", raw) = "full" /\ BrandAdvice(k, raw) = {}
  BY StrongIsFull
<1>6. ASSUME "No Wikipedia presence" \in BrandIssues(k, raw)
      PROVE  praise \cap {"Strong recognition", "infobox", "Substantial article", "Article"} = {}
  <2>1. ~Strong(raw) /\ k.page # 1
    BY <1>1, <1>4, <1>6, NoneIsNotOne, Zenon
  <2>2. BrandStrengths(k, domain, raw) \cap {"Strong recognition", "infobox", "Substantial article", "Article"} = {}
    BY <1>3, <2>1, PlainStrengthsAre
  <2> QED BY <2>2
<1>7. ASSUME "Strong recognition" \in praise
      PROVE  Strong(raw)
  <2>1. "Strong recognition" \in BrandStrengths(k, domain, raw)
    BY <1>7
  <2> QED BY <1>3, <2>1, PlainStrengthsAre
<1> QED BY <1>5, <1>6, <1>7, Zenon DEF BrandAgrees

LEMMA FastIsQuick == ASSUME NEW ms \in Nat, Fast(ms) PROVE ms > 0 /\ ms < 500
BY SMT DEF Fast

LEMMA TechnicalPraise ==
  ASSUME NEW llms, NEW blocked, NEW checked, NEW ms \in Nat,
         NEW s \in TechnicalStrengths(llms, blocked, checked, ms)
  PROVE  /\ s \in {"llms.txt", "All crawlers", "Some crawlers", "Excellent response", "Good response", "HTTPS"}
         /\ s = "All crawlers" => checked \cap blocked = {}
         /\ s \in {"Excellent response", "Good response"} => ms > 0 /\ ms < 500
<1> DEFINE Quick == ms > 0 /\ ms < 500
           None == checked \cap blocked = {}
           All == checked \subseteq blocked
<1>1. Fast(ms) => Quick
  BY FastIsQuick
<1>2. TechnicalStrengths(llms, blocked, checked, ms)
        = (IF llms THEN {"llms.txt"} ELSE {})
            \cup (IF None THEN {"All crawlers"} ELSE IF All THEN {} ELSE {"Some crawlers"})
            \cup (IF Fast(ms) THEN {"Excellent response"} ELSE IF Quick THEN {"Good response"} ELSE {})
            \cup {"HTTPS"}
  BY DEF TechnicalStrengths
<1> HIDE DEF Quick, None, All
<1>3. s \in (IF llms THEN {"llms.txt"} ELSE {}) => s = "llms.txt"
  OBVIOUS
<1>4. s \in (IF None THEN {"All crawlers"} ELSE IF All THEN {} ELSE {"Some crawlers"})
        => s = "Some crawlers" \/ (s = "All crawlers" /\ None)
  OBVIOUS
<1>5. s \in (IF Fast(ms) THEN {"Excellent response"} ELSE IF Quick THEN {"Good response"} ELSE {})
        => s \in {"Excellent response", "Good response"} /\ Quick
  BY <1>1, Zenon
<1>6. /\ s \in {"llms.txt", "All crawlers", "Some crawlers", "Excellent response", "Good response", "HTTPS"}
      /\ s = "All crawlers" => None
      /\ s \in {"Excellent response", "Good response"} => Quick
  BY <1>2, <1>3, <1>4, <1>5, Zenon
<1> QED BY <1>6 DEF Quick, None

LEMMA AllWelcome ==
  ASSUME NEW llms, NEW blocked, NEW checked, NEW ms \in Nat,
         "All crawlers" \in TechnicalStrengths(llms, blocked, checked, ms)
  PROVE  checked \cap blocked = {}
<1>1. ASSUME NEW s \in TechnicalStrengths(llms, blocked, checked, ms)
      PROVE  s = "All crawlers" => checked \cap blocked = {}
  BY TechnicalPraise
<1> QED BY <1>1

LEMMA ContentPraise ==
  ASSUME NEW r, NEW c
  PROVE  ContentStrengths(r, c) \subseteq {"Excellent coverage", "Good coverage", "High retrieval quality"}
<1> DEFINE Excellent == c >= 80000
           Good == c >= 60000
           High == r >= 70000
<1>1. ContentStrengths(r, c)
        = (IF Excellent THEN {"Excellent coverage"} ELSE IF Good THEN {"Good coverage"} ELSE {})
            \cup (IF High THEN {"High retrieval quality"} ELSE {})
  BY DEF ContentStrengths
<1> HIDE DEF Excellent, Good, High
<1> QED BY <1>1

LEMMA SiteReportAgrees == TechInv /\ TextInv /\ ScoreInv => ReportAgrees
<1> SUFFICES ASSUME TechInv, TextInv, ScoreInv, score.raw # << >> PROVE ReportAgrees
  BY DEF ReportAgrees
<1>1. RawScored(score.raw) /\ \A p \in DOMAIN score.raw : score.raw[p] \in RawScores
  BY RawsAre DEF RawsInRange
<1>2. textReport.results # << >> /\ FromReports(score.raw) /\ score.total = Total(Weights, score.raw)
  BY DEF ScoreInv
<1>3. TextAgrees /\ Q!BreakdownAgrees
  BY <1>2, TextReportAgrees
<1>4. TypeOK
  <2>1. moves \subseteq Parts
    BY DEF ScoreInv
  <2>2. T!TypeOK
    BY TechInRange
  <2>3. Q!TypeOK
    <3>1. Q!Cardinality(DOMAIN textReport.results \ Q!Universal) = Cardinality(DOMAIN textReport.results \ Q!Universal)
      BY QCount
    <3> QED BY <1>3, <3>1, SMT DEF TextAgrees, Q!TypeOK
  <2> QED BY <1>1, <2>1, <2>2, <2>3 DEF TypeOK
<1>5. PICK total \in Nat : total = score.total
  BY <1>1, <1>2, TotalIsMean
<1>6. \E p \in DOMAIN score.raw : score.raw[p] <= score.total
  BY <1>1, <1>2, TotalIsMean
<1>7. \E p \in DOMAIN score.raw : score.raw[p] >= score.total
  BY <1>1, <1>2, TotalIsMean
<1>8. T!CrawlerViewsAgree
  BY ViewsAgree
<1>9. PICK technical : technical = TechnicalStrengths(techReport.llms, techReport.blocked, T!Checked, techReport.ms)
  OBVIOUS
<1>10. PICK content : content = ContentStrengths(score.raw["retrieval"], score.raw["coverage"])
  OBVIOUS
<1>11. PICK ofBrand : ofBrand = (IF "entity_recognition" \in DOMAIN score.raw
                                 THEN BrandStrengths(seen, brand, score.raw["entity_recognition"]) ELSE {})
  OBVIOUS
<1>12. Praise = technical \cup ofBrand \cup content
  BY <1>9, <1>10, <1>11, Zenon DEF Praise
<1>20. techReport.ms \in Nat
  <2>1. PICK u \in T!Site : techReport = T!Report(u, techReport.trouble)
    BY DEF TechInv
  <2>2. PICK r : r = T!Report(u, techReport.trouble)
    OBVIOUS
  <2>3. r.ms \in Nat
    BY <2>2, ReportInRange
  <2> QED BY <2>1, <2>2, <2>3
<1>13. content \subseteq {"Excellent coverage", "Good coverage", "High retrieval quality"}
  BY <1>10, ContentPraise
<1>14. technical \subseteq {"llms.txt", "All crawlers", "Some crawlers", "Excellent response", "Good response", "HTTPS"}
  BY <1>9, <1>20, TechnicalPraise
<1>15. ofBrand \subseteq {"Strong recognition", "infobox", "Substantial article", "Article", "Languages", "Item",
                          "Established", "Premium TLD"}
  <2>1. ASSUME NEW raw \in Nat
        PROVE  BrandStrengths(seen, brand, raw)
                 \subseteq {"Strong recognition", "infobox", "Substantial article", "Article", "Languages", "Item",
                            "Established", "Premium TLD"}
    BY StrengthsAre
  <2>2. CASE "entity_recognition" \in DOMAIN score.raw
    <3>1. PICK raw \in Nat : raw = score.raw["entity_recognition"]
      BY <1>1, <2>2 DEF RawScored
    <3> QED BY <1>11, <2>1, <2>2, <3>1
  <2>3. CASE "entity_recognition" \notin DOMAIN score.raw
    BY <1>11, <2>3
  <2> QED BY <2>2, <2>3
<1>16. {"Excellent response", "Good response"} \cap Praise # {} =>
         techReport.speed > 0 /\ "ttfb" \notin T!Fixes(techReport)
  <2> SUFFICES ASSUME NEW s \in {"Excellent response", "Good response"}, s \in Praise
               PROVE  techReport.speed > 0 /\ "ttfb" \notin T!Fixes(techReport)
    OBVIOUS
  <2>1. s \in technical
    BY <1>12, <1>13, <1>15
  <2>2. PICK n : n = techReport.ms
    OBVIOUS
  <2>3. n \in Nat
    BY <1>20, <2>2
  <2>5. PICK llms, blocked : s \in TechnicalStrengths(llms, blocked, T!Checked, n)
    BY <1>9, <2>1, <2>2
  <2>4. n > 0 /\ n < 500
    BY <2>3, <2>5, TechnicalPraise
  <2> QED BY <2>2, <2>4, ResponseIsGood
<1>17. "All crawlers" \in Praise => "unblock" \notin T!Fixes(techReport)
  <2> SUFFICES ASSUME "All crawlers" \in Praise PROVE "unblock" \notin T!Fixes(techReport)
    OBVIOUS
  <2>1. "All crawlers" \in technical
    BY <1>12, <1>13, <1>15
  <2>3. PICK n : n = techReport.ms /\ n \in Nat
    BY <1>20
  <2>4. PICK c, b : c = T!Checked /\ b = techReport.blocked
    OBVIOUS
  <2>5. PICK llms : "All crawlers" \in TechnicalStrengths(llms, b, c, n)
    BY <1>9, <2>1, <2>3, <2>4
  <2>6. c \cap b = {}
    <3>1. n \in Nat
      BY <2>3
    <3> QED BY <2>5, <3>1, AllWelcome
  <2>2. T!Checked \cap techReport.blocked = {}
    BY <2>4, <2>6
  <2> QED BY <2>2, AllComeIn
<1>18. ASSUME "entity_recognition" \in DOMAIN score.raw
       PROVE  BrandAgrees(seen, brand, score.raw["entity_recognition"], Praise)
  <2>1. PICK raw \in Nat : raw = score.raw["entity_recognition"]
    BY <1>1, <1>18 DEF RawScored
  <2>2. PICK others : others = technical \cup content
    OBVIOUS
  <2>3. others \cap {"Strong recognition", "infobox", "Substantial article", "Article"} = {}
    BY <1>13, <1>14, <2>2
  <2>4. PICK praise : praise = Praise
    OBVIOUS
  <2>5. praise = others \cup BrandStrengths(seen, brand, raw)
    BY <1>11, <1>12, <1>18, <2>1, <2>2, <2>4
  <2>6. seen \in Knowledge
    BY DEF ScoreInv
  <2>7. BrandAgrees(seen, brand, raw, praise)
    BY <2>3, <2>5, <2>6, PraiseIs
  <2> QED BY <2>1, <2>4, <2>7
<1>19. /\ Milestone(total) = 0 <=> Level(total) = "optimized"
       /\ Milestone(total) # 0 => Level(total + PointsNeeded(total)) # Level(total)
  BY NextLevel
<1> QED BY <1>3, <1>4, <1>5, <1>6, <1>7, <1>8, <1>16, <1>17, <1>18, <1>19, Zenon DEF ReportAgrees, BrandAgrees

\* What a report says of one thing in several places agrees: the total, the accounts of who
\* may crawl the site, the breakdown by category, what is praised and what is to be fixed,
\* the level and the milestone.
THEOREM ReportsAgree == Spec => []ReportAgrees
<1>1. TechInv /\ TextInv /\ ScoreInv => ReportAgrees
  BY SiteReportAgrees
<1> QED BY <1>1, TechnicalHolds, TextHolds, ScoreHolds, PTL

=============================================================================
