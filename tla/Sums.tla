---------------------------------- MODULE Sums ----------------------------------
(***************************************************************************)
(* Lemmas about sums: what MapThenSumSet adds up over a finite set, and the *)
(* induction over sets and numbers they rest on, stated about a set instead *)
(* of a predicate.                                                         *)
(***************************************************************************)
EXTENDS Integers, FiniteSets, FiniteSetsExt, FiniteSetTheorems, NaturalsInduction,
        WellFoundedInduction, TLAPS

-----------------------------------------------------------------------------
(* Induction. *)

LEMMA NatOrder == IsWellFoundedOn({p \in Nat \X Nat : p[1] < p[2]}, Nat)
BY NatLessThanWellFounded, SMT DEF OpToRel

\* Every set of numbers that is not empty has a least one.
LEMMA LeastNat ==
  ASSUME NEW W \in SUBSET Nat, W # {}
  PROVE  \E n \in W : \A m \in W : n <= m
<1> DEFINE R == {p \in Nat \X Nat : p[1] < p[2]}
<1>1. IsWellFoundedOn(R, Nat)
  BY NatOrder
<1> HIDE DEF R
<1>2. PICK x \in W : \A y \in W : ~(<<y, x>> \in R)
  BY <1>1, WFMin
<1>3. \A y \in W : ~(y < x)
  BY <1>2 DEF R
<1> QED
  BY <1>3

\* A set of numbers with 0 and every successor is that of all numbers.
LEMMA NatByStep ==
  ASSUME NEW F, 0 \in F, \A n \in Nat : n \in F => n + 1 \in F
  PROVE  Nat \subseteq F
<1> SUFFICES ASSUME Nat \ F # {} PROVE FALSE
  OBVIOUS
<1>1. PICK n \in Nat \ F : \A m \in Nat \ F : n <= m
  BY LeastNat
<1>2. n - 1 \in Nat /\ n - 1 \in F
  BY <1>1
<1> QED
  BY <1>1, <1>2

\* A family that holds the empty set, and any set with one element more, holds
\* every finite set.
LEMMA SetByStep ==
  ASSUME NEW S, IsFiniteSet(S), NEW F, {} \in F,
         \A U \in SUBSET S : \A x \in S : U \in F /\ x \notin U => U \cup {x} \in F
  PROVE  SUBSET S \subseteq F
<1> DEFINE sized == {n \in Nat : \A U \in SUBSET S : Cardinality(U) = n => U \in F}
<1>1. \A U \in SUBSET S : IsFiniteSet(U) /\ Cardinality(U) \in Nat
  BY FS_Subset, FS_CardinalityType
<1>2. 0 \in sized
  BY <1>1, FS_EmptySet
<1>3. ASSUME NEW n \in Nat, n \in sized
      PROVE  n + 1 \in sized
  <2> SUFFICES ASSUME NEW U \in SUBSET S, Cardinality(U) = n + 1 PROVE U \in F
    OBVIOUS
  <2>1. PICK x \in U : TRUE
    BY <1>1, FS_EmptySet
  <2>2. U \ {x} \in SUBSET S
    OBVIOUS
  <2>5. Cardinality(U \ {x}) = n
    <3>1. Cardinality(U \ {x}) = Cardinality(U) - 1
      BY <1>1, <2>1, FS_RemoveElement
    <3> QED
      BY <3>1
  <2>3. U \ {x} \in F
    BY <1>3, <2>2, <2>5
  <2>4. (U \ {x}) \cup {x} \in F
    BY <2>1, <2>2, <2>3
  <2> QED
    BY <2>1, <2>4, (U \ {x}) \cup {x} = U
<1>4. Nat \subseteq sized
  <2> HIDE DEF sized
  <2> QED
    BY <1>2, <1>3, NatByStep
<1> QED
  BY <1>1, <1>4

-----------------------------------------------------------------------------
(* Folds. *)

\* Elements of a set are picked one after another, and each makes a step.
Picks(pick, S) == \A s \in SUBSET S : s # {} => pick[s] \in s
StaysIn(step, S, V) == \A x \in S : \A v \in V : step[<<x, v>>] \in V
Folded(f, base, pick, step, S) ==
  \A s \in SUBSET S : f[s] = IF s = {} THEN base ELSE step[<<pick[s], f[s \ {pick[s]}]>>]

\* There is a function that folds the parts of a finite set.
LEMMA FoldExists ==
  ASSUME NEW S, IsFiniteSet(S), NEW V, NEW base \in V, NEW pick, Picks(pick, S),
         NEW step, StaysIn(step, S, V)
  PROVE  \E f \in [SUBSET S -> V] : Folded(f, base, pick, step, S)
<1> DEFINE upTo(n) == {s \in SUBSET S : Cardinality(s) <= n}
           next(f, s) == IF s = {} THEN base ELSE step[<<pick[s], f[s \ {pick[s]}]>>]
           good == {n \in Nat : \E f \in [upTo(n) -> V] : \A s \in upTo(n) : f[s] = next(f, s)}
<1>1. \A U \in SUBSET S : IsFiniteSet(U) /\ Cardinality(U) \in Nat
  BY FS_Subset, FS_CardinalityType
<1>2. 0 \in good
  <2> DEFINE f == [s \in upTo(0) |-> base]
  <2>1. \A s \in upTo(0) : s = {}
    BY <1>1, FS_EmptySet
  <2>2. f \in [upTo(0) -> V]
    OBVIOUS
  <2>3. \A s \in upTo(0) : f[s] = next(f, s)
    BY <2>1
  <2> QED
    BY <2>2, <2>3
<1>3. ASSUME NEW n \in Nat, n \in good
      PROVE  n + 1 \in good
  <2>1. PICK f \in [upTo(n) -> V] : \A s \in upTo(n) : f[s] = next(f, s)
    BY <1>3
  <2> DEFINE g == [s \in upTo(n + 1) |-> next(f, s)]
  <2>2. ASSUME NEW s \in upTo(n + 1), s # {}
        PROVE  pick[s] \in S /\ s \ {pick[s]} \in upTo(n)
    <3>1. pick[s] \in s
      BY <2>2 DEF Picks
    <3>2. Cardinality(s \ {pick[s]}) = Cardinality(s) - 1 /\ Cardinality(s) \in Nat
      BY <1>1, <3>1, FS_RemoveElement
    <3> QED
      BY <3>1, <3>2
  <2>3. \A s \in upTo(n + 1) : next(f, s) \in V
    <3> TAKE s \in upTo(n + 1)
    <3>1. CASE s = {}
      BY <3>1
    <3>2. CASE s # {}
      <4>1. pick[s] \in S /\ s \ {pick[s]} \in upTo(n)
        BY <2>2, <3>2
      <4>2. f[s \ {pick[s]}] \in V
        <5> HIDE DEF upTo
        <5> QED
          BY <2>1, <4>1
      <4> QED
        BY <3>2, <4>1, <4>2 DEF StaysIn
    <3> QED
      BY <3>1, <3>2
  <2>4. g \in [upTo(n + 1) -> V]
    BY <2>3
  <2>5. \A s \in upTo(n) : s \in upTo(n + 1) /\ g[s] = f[s]
    <3> TAKE s \in upTo(n)
    <3>1. s \in upTo(n + 1)
      BY <1>1
    <3> QED
      BY <2>1, <3>1
  <2>6. \A s \in upTo(n + 1) : g[s] = next(g, s)
    <3> TAKE s \in upTo(n + 1)
    <3>1. CASE s = {}
      BY <3>1
    <3>2. CASE s # {}
      <4>1. s \ {pick[s]} \in upTo(n)
        BY <2>2, <3>2
      <4>2. g[s \ {pick[s]}] = f[s \ {pick[s]}]
        BY <4>1, <2>5
      <4> HIDE DEF upTo
      <4> QED
        BY <3>2, <4>2
    <3> QED
      BY <3>1, <3>2
  <2> QED
    <3> HIDE DEF upTo, next, g
    <3> QED
      BY <2>4, <2>6
<1>4. Nat \subseteq good
  <2> HIDE DEF good
  <2> QED
    BY <1>2, <1>3, NatByStep
<1>5. upTo(Cardinality(S)) = SUBSET S /\ Cardinality(S) \in Nat
  BY <1>1, FS_Subset
<1>6. PICK f \in [SUBSET S -> V] : \A s \in SUBSET S : f[s] = next(f, s)
  <2> HIDE DEF next, upTo
  <2> QED
    BY <1>4, <1>5
<1> QED
  BY <1>6 DEF Folded

-----------------------------------------------------------------------------
(* Sums over a finite set. *)

\* What the sums of w over the parts of S are.
AddsUp(f, w, S) ==
  f = [s \in SUBSET S |-> IF s = {} THEN 0
                          ELSE LET x == CHOOSE x \in s : TRUE IN w[x] + f[s \ {x}]]
SumOn(w, S) == (CHOOSE f : AddsUp(f, w, S))[S]
Numbers(w, S) == IsFiniteSet(S) /\ \A x \in S : w[x] \in Int

LEMMA SumsExist ==
  ASSUME NEW S, NEW w, Numbers(w, S)
  PROVE  \E f \in [SUBSET S -> Int] : AddsUp(f, w, S)
<1> DEFINE pick == [s \in SUBSET S |-> CHOOSE x \in s : TRUE]
           step == [p \in S \X Int |-> w[p[1]] + p[2]]
<1>1. \A s \in SUBSET S : s # {} => pick[s] \in s
  OBVIOUS
<1>2. \A x \in S : \A v \in Int : step[<<x, v>>] = w[x] + v /\ step[<<x, v>>] \in Int
  BY DEF Numbers
<1>3. PICK f \in [SUBSET S -> Int] : \A s \in SUBSET S :
        f[s] = IF s = {} THEN 0 ELSE step[<<pick[s], f[s \ {pick[s]}]>>]
  <2>1. Picks(pick, S) /\ StaysIn(step, S, Int) /\ IsFiniteSet(S)
    BY <1>1, <1>2 DEF Numbers, Picks, StaysIn
  <2> HIDE DEF pick, step
  <2>2. PICK base \in Int : base = 0
    OBVIOUS
  <2>3. \E f \in [SUBSET S -> Int] : Folded(f, base, pick, step, S)
    BY <2>1, FoldExists
  <2> QED
    BY <2>2, <2>3 DEF Folded
<1>4. \A s \in SUBSET S :
        f[s] = IF s = {} THEN 0 ELSE LET x == CHOOSE x \in s : TRUE IN w[x] + f[s \ {x}]
  <2> TAKE s \in SUBSET S
  <2>1. CASE s = {}
    BY <1>3, <2>1
  <2>2. CASE s # {}
    <3>1. pick[s] \in S /\ f[s \ {pick[s]}] \in Int
      BY <1>1, <2>2
    <3>2. f[s] = w[pick[s]] + f[s \ {pick[s]}]
      <4> HIDE DEF step
      <4> QED
        BY <1>2, <1>3, <2>2, <3>1
    <3> HIDE DEF step
    <3> QED
      BY <2>2, <3>2
  <2> QED
    BY <2>1, <2>2
<1>5. f = [s \in SUBSET S |-> IF s = {} THEN 0
                               ELSE LET x == CHOOSE x \in s : TRUE IN w[x] + f[s \ {x}]]
  BY <1>4
<1> QED
  BY <1>5 DEF AddsUp

\* It does not matter which element is taken out.
LEMMA SumsTakeOut ==
  ASSUME NEW S, NEW w, Numbers(w, S), NEW f \in [SUBSET S -> Int], AddsUp(f, w, S)
  PROVE  /\ f[{}] = 0
         /\ \A W \in SUBSET S : \A x \in W : f[W] = w[x] + f[W \ {x}]
<1>1. f[{}] = 0
  BY DEF AddsUp
<1> DEFINE good == {n \in Nat : \A W \in SUBSET S : Cardinality(W) = n =>
                                  \A x \in W : f[W] = w[x] + f[W \ {x}]}
<1>2. \A U \in SUBSET S : IsFiniteSet(U) /\ Cardinality(U) \in Nat
  BY FS_Subset, FS_CardinalityType DEF Numbers
<1>3. 0 \in good
  BY <1>2, FS_EmptySet
<1>4. ASSUME NEW n \in Nat, n \in good
      PROVE  n + 1 \in good
  <2> SUFFICES ASSUME NEW W \in SUBSET S, Cardinality(W) = n + 1, NEW x \in W
               PROVE  f[W] = w[x] + f[W \ {x}]
    OBVIOUS
  <2> DEFINE y == CHOOSE y \in W : TRUE
  <2>1. y \in W
    OBVIOUS
  <2>2. f[W] = w[y] + f[W \ {y}]
    BY <2>1 DEF AddsUp
  <2> HIDE DEF y
  <2>3. CASE y = x
    BY <2>2, <2>3
  <2>4. CASE y # x
    <3>1. /\ W \ {y} \in SUBSET S /\ Cardinality(W \ {y}) = n
          /\ W \ {x} \in SUBSET S /\ Cardinality(W \ {x}) = n
      BY <1>2, <2>1, FS_RemoveElement
    <3>2. f[W \ {y}] = w[x] + f[(W \ {y}) \ {x}]
      BY <1>4, <2>4, <3>1
    <3>3. f[W \ {x}] = w[y] + f[(W \ {x}) \ {y}]
      BY <1>4, <2>1, <2>4, <3>1
    <3>4. (W \ {y}) \ {x} = (W \ {x}) \ {y}
      OBVIOUS
    <3>5. w[x] \in Int /\ w[y] \in Int /\ f[(W \ {x}) \ {y}] \in Int
      BY <2>1 DEF Numbers
    <3>6. PICK a \in Int, b \in Int, c \in Int :
            a = w[x] /\ b = w[y] /\ c = f[(W \ {x}) \ {y}]
      BY <3>5
    <3>7. f[W \ {y}] = a + c /\ f[W \ {x}] = b + c
      BY <3>2, <3>3, <3>4, <3>6
    <3>8. f[W] = b + (a + c)
      BY <2>2, <3>6, <3>7
    <3>9. a + (b + c) = b + (a + c)
      OBVIOUS
    <3> QED
      BY <3>6, <3>7, <3>8, <3>9, Zenon
  <2> QED
    BY <2>3, <2>4
<1>5. Nat \subseteq good
  <2> HIDE DEF good
  <2> QED
    BY <1>3, <1>4, NatByStep
<1> QED
  BY <1>1, <1>2, <1>5

\* There is only one.
LEMMA SumsUnique ==
  ASSUME NEW S, NEW w, Numbers(w, S), NEW f \in [SUBSET S -> Int], NEW g,
         AddsUp(f, w, S), AddsUp(g, w, S)
  PROVE  g = f
<1> DEFINE same == {W \in SUBSET S : f[W] = g[W]}
           good == {n \in Nat : \A W \in SUBSET S : Cardinality(W) = n => f[W] = g[W]}
<1>1. \A U \in SUBSET S : IsFiniteSet(U) /\ Cardinality(U) \in Nat
  BY FS_Subset, FS_CardinalityType DEF Numbers
<1>2. 0 \in good
  <2>1. f[{}] = 0 /\ g[{}] = 0
    BY DEF AddsUp
  <2> QED
    BY <1>1, <2>1, FS_EmptySet
<1>3. ASSUME NEW n \in Nat, n \in good
      PROVE  n + 1 \in good
  <2> SUFFICES ASSUME NEW W \in SUBSET S, Cardinality(W) = n + 1
               PROVE  f[W] = g[W]
    OBVIOUS
  <2> DEFINE y == CHOOSE y \in W : TRUE
  <2>1. W # {}
    BY FS_EmptySet
  <2>2. y \in W
    BY <2>1
  <2>3. f[W] = w[y] + f[W \ {y}] /\ g[W] = w[y] + g[W \ {y}]
    BY <2>1 DEF AddsUp
  <2> HIDE DEF y
  <2>4. W \ {y} \in SUBSET S /\ Cardinality(W \ {y}) = n
    <3>1. Cardinality(W \ {y}) = Cardinality(W) - 1
      BY <1>1, <2>2, FS_RemoveElement
    <3> QED
      BY <3>1
  <2>5. f[W \ {y}] = g[W \ {y}]
    BY <1>3, <2>4
  <2> QED
    BY <2>3, <2>5
<1>4. Nat \subseteq good
  <2> HIDE DEF good
  <2> QED
    BY <1>2, <1>3, NatByStep
<1>5. \A W \in SUBSET S : f[W] = g[W]
  BY <1>1, <1>4
<1>6. g = [W \in SUBSET S |-> g[W]]
  BY DEF AddsUp
<1> QED
  BY <1>5, <1>6

-----------------------------------------------------------------------------

LEMMA SumIsThere ==
  ASSUME NEW S, NEW w, Numbers(w, S)
  PROVE  \E f \in [SUBSET S -> Int] : AddsUp(f, w, S) /\ SumOn(w, S) = f[S]
<1> DEFINE g == CHOOSE f : AddsUp(f, w, S)
<1>1. PICK f \in [SUBSET S -> Int] : AddsUp(f, w, S)
  BY SumsExist
<1>2. AddsUp(g, w, S)
  BY <1>1
<1> HIDE DEF g
<1>3. g = f
  BY <1>1, <1>2, SumsUnique
<1>4. SumOn(w, S) = g[S]
  BY DEF SumOn, g
<1> QED
  BY <1>1, <1>3, <1>4

LEMMA SumOfPart ==
  ASSUME NEW S, NEW w, Numbers(w, S), NEW f \in [SUBSET S -> Int], AddsUp(f, w, S),
         NEW W \in SUBSET S
  PROVE  SumOn(w, W) = f[W]
<1> DEFINE h == [s \in SUBSET W |-> f[s]]
<1>1. Numbers(w, W)
  BY FS_Subset DEF Numbers
<1>2. h \in [SUBSET W -> Int]
  OBVIOUS
<1>3. \A s \in SUBSET W : h[s] = IF s = {} THEN 0
                          ELSE LET x == CHOOSE x \in s : TRUE IN w[x] + h[s \ {x}]
  <2> TAKE s \in SUBSET W
  <2>1. s \in SUBSET S /\ f[s] = IF s = {} THEN 0
                          ELSE LET x == CHOOSE x \in s : TRUE IN w[x] + f[s \ {x}]
    BY DEF AddsUp
  <2> QED
    BY <2>1
<1>4. AddsUp(h, w, W)
  <2> HIDE DEF h
  <2>1. h = [s \in SUBSET W |-> h[s]]
    BY <1>2
  <2> QED
    BY <1>3, <2>1 DEF AddsUp
<1>5. PICK e \in [SUBSET W -> Int] : AddsUp(e, w, W) /\ SumOn(w, W) = e[W]
  BY <1>1, SumIsThere
<1> HIDE DEF h
<1>6. e = h
  BY <1>1, <1>2, <1>4, <1>5, SumsUnique
<1> QED
  BY <1>5, <1>6 DEF h

\* A sum is a number, that of nothing is 0, and any element may be taken out.
LEMMA SumNone == ASSUME NEW w PROVE SumOn(w, {}) = 0
<1>1. Numbers(w, {})
  BY FS_EmptySet DEF Numbers
<1>2. PICK f \in [SUBSET {} -> Int] : AddsUp(f, w, {}) /\ SumOn(w, {}) = f[{}]
  BY <1>1, SumIsThere
<1> QED
  BY <1>2 DEF AddsUp

LEMMA SumInt == ASSUME NEW S, NEW w, Numbers(w, S) PROVE SumOn(w, S) \in Int
<1>1. PICK f \in [SUBSET S -> Int] : AddsUp(f, w, S) /\ SumOn(w, S) = f[S]
  BY SumIsThere
<1>2. S \in SUBSET S
  OBVIOUS
<1> QED
  BY <1>1, <1>2

LEMMA SumStep ==
  ASSUME NEW S, NEW w, Numbers(w, S), NEW x \in S
  PROVE  SumOn(w, S) = w[x] + SumOn(w, S \ {x})
<1>1. PICK f \in [SUBSET S -> Int] : AddsUp(f, w, S) /\ SumOn(w, S) = f[S]
  BY SumIsThere
<1>2. SumOn(w, S \ {x}) = f[S \ {x}]
  BY <1>1, SumOfPart
<1>3. AddsUp(f, w, S)
  BY <1>1
<1>5. /\ f[{}] = 0
      /\ \A W \in SUBSET S : \A y \in W : f[W] = w[y] + f[W \ {y}]
  BY <1>3, SumsTakeOut, SMTT(30)
<1>4. f[S] = w[x] + f[S \ {x}]
  BY <1>5
<1> QED
  BY <1>1, <1>2, <1>4

LEMMA NumbersOfPart ==
  ASSUME NEW S, NEW w, Numbers(w, S), NEW W \in SUBSET S
  PROVE  Numbers(w, W) /\ SumOn(w, W) \in Int
<1>1. Numbers(w, W)
  BY FS_Subset DEF Numbers
<1> QED
  BY <1>1, SumInt

LEMMA SumAdd ==
  ASSUME NEW S, NEW w, Numbers(w, S), NEW U \in SUBSET S, NEW x \in S, x \notin U
  PROVE  /\ SumOn(w, U \cup {x}) = w[x] + SumOn(w, U)
         /\ SumOn(w, U) \in Int /\ w[x] \in Int
<1>1. Numbers(w, U \cup {x})
  BY NumbersOfPart
<1>2. SumOn(w, U \cup {x}) = w[x] + SumOn(w, (U \cup {x}) \ {x})
  BY <1>1, SumStep
<1>3. (U \cup {x}) \ {x} = U
  OBVIOUS
<1> QED
  BY <1>2, <1>3, NumbersOfPart DEF Numbers

LEMMA SumOfOne ==
  ASSUME NEW w, NEW x, w[x] \in Int
  PROVE  SumOn(w, {x}) = w[x]
<1>1. Numbers(w, {x})
  BY FS_Singleton DEF Numbers
<1>2. SumOn(w, {x}) = w[x] + SumOn(w, {x} \ {x})
  BY <1>1, SumStep
<1>3. SumOn(w, {x} \ {x}) = 0
  BY SumNone, {x} \ {x} = {}
<1> QED
  BY <1>2, <1>3

\* Element by element no more, no more in sum.
LEMMA SumMono ==
  ASSUME NEW S, NEW v, NEW w, Numbers(v, S), Numbers(w, S), \A x \in S : v[x] <= w[x]
  PROVE  SumOn(v, S) <= SumOn(w, S)
<1> DEFINE F == {U \in SUBSET S : SumOn(v, U) <= SumOn(w, U)}
<1>1. {} \in F
  BY SumNone
<1>2. ASSUME NEW U \in SUBSET S, NEW x \in S, U \in F, x \notin U
      PROVE  U \cup {x} \in F
  <2>0. /\ SumOn(v, U \cup {x}) = v[x] + SumOn(v, U)
        /\ SumOn(v, U) \in Int /\ v[x] \in Int
    BY <1>2, SumAdd
  <2>1. /\ SumOn(w, U \cup {x}) = w[x] + SumOn(w, U)
        /\ SumOn(w, U) \in Int /\ w[x] \in Int
    BY <1>2, SumAdd
  <2>2. SumOn(v, U) <= SumOn(w, U) /\ v[x] <= w[x]
    BY <1>2
  <2>3. PICK a \in Int, b \in Int, c \in Int, d \in Int :
          a = v[x] /\ b = w[x] /\ c = SumOn(v, U) /\ d = SumOn(w, U)
    BY <2>0, <2>1
  <2>4. a + c <= b + d
    BY <2>2, <2>3
  <2> QED
    BY <2>0, <2>1, <2>3, <2>4
<1>3. SUBSET S \subseteq F
  <2> HIDE DEF F
  <2> QED
    BY <1>1, <1>2, SetByStep DEF Numbers
<1> QED
  BY <1>3

LEMMA SumAgree ==
  ASSUME NEW S, NEW v, NEW w, Numbers(v, S), \A x \in S : v[x] = w[x]
  PROVE  SumOn(v, S) = SumOn(w, S)
<1>1. Numbers(w, S)
  BY DEF Numbers
<1>2. \A x \in S : v[x] <= w[x] /\ w[x] <= v[x]
  BY DEF Numbers
<1>3. SumOn(v, S) <= SumOn(w, S) /\ SumOn(w, S) <= SumOn(v, S)
  BY <1>1, <1>2, SumMono
<1> QED
  BY <1>1, <1>3, SumInt

\* Between bounds for each, between as many times the bounds in sum.
LEMMA SumBetween ==
  ASSUME NEW S, NEW w, IsFiniteSet(S), NEW lo \in Int, NEW hi \in Int,
         \A x \in S : w[x] \in lo..hi
  PROVE  /\ Numbers(w, S) /\ SumOn(w, S) \in Int
         /\ lo * Cardinality(S) <= SumOn(w, S) /\ SumOn(w, S) <= hi * Cardinality(S)
<1> DEFINE F == {U \in SUBSET S : /\ lo * Cardinality(U) <= SumOn(w, U)
                                  /\ SumOn(w, U) <= hi * Cardinality(U)}
<1>1. Numbers(w, S)
  BY DEF Numbers
<1>2. {} \in F
  BY SumNone, FS_EmptySet
<1>3. ASSUME NEW U \in SUBSET S, NEW x \in S, U \in F, x \notin U
      PROVE  U \cup {x} \in F
  <2>1. /\ SumOn(w, U \cup {x}) = w[x] + SumOn(w, U)
        /\ SumOn(w, U) \in Int /\ w[x] \in Int
    BY <1>1, <1>3, SumAdd
  <2>2. IsFiniteSet(U) /\ Cardinality(U) \in Nat /\ Cardinality(U \cup {x}) = Cardinality(U) + 1
    BY <1>3, FS_Subset, FS_AddElement, FS_CardinalityType
  <2>3. PICK a \in Int, s \in Int, n \in Nat :
          a = w[x] /\ s = SumOn(w, U) /\ n = Cardinality(U)
    BY <2>1, <2>2
  <2>4. lo <= a /\ a <= hi /\ lo * n <= s /\ s <= hi * n
    BY <1>3, <2>3
  <2>5. lo * (n + 1) = lo * n + lo /\ hi * (n + 1) = hi * n + hi
    OBVIOUS
  <2>6. lo * n \in Int /\ hi * n \in Int
    OBVIOUS
  <2>7. lo * (n + 1) <= a + s /\ a + s <= hi * (n + 1)
    BY <2>4, <2>5, <2>6
  <2> QED
    BY <2>1, <2>2, <2>3, <2>7
<1>4. SUBSET S \subseteq F
  <2> HIDE DEF F
  <2> QED
    BY <1>2, <1>3, SetByStep
<1> QED
  BY <1>1, <1>4, SumInt

LEMMA SumNat ==
  ASSUME NEW S, NEW w, IsFiniteSet(S), \A x \in S : w[x] \in Nat
  PROVE  Numbers(w, S) /\ SumOn(w, S) \in Nat
<1> DEFINE z == [x \in S |-> 0]
<1>1. Numbers(w, S) /\ Numbers(z, S)
  BY DEF Numbers
<1>2. SumOn(z, S) <= SumOn(w, S)
  <2>1. \A x \in S : z[x] <= w[x]
    OBVIOUS
  <2> HIDE DEF z
  <2> QED
    BY <1>1, <2>1, SumMono
<1>3. SumOn(z, S) = 0
  <2>1. \A x \in S : z[x] \in 0..0
    OBVIOUS
  <2> HIDE DEF z
  <2>2. 0 * Cardinality(S) <= SumOn(z, S) /\ SumOn(z, S) <= 0 * Cardinality(S)
    BY <2>1, SumBetween
  <2> QED
    BY <1>1, <2>2, SumInt, FS_CardinalityType
<1> QED
  BY <1>1, <1>2, <1>3, SumInt

\* Two sets with nothing in common add up apart.
LEMMA SumUnion ==
  ASSUME NEW S, NEW W, NEW w, Numbers(w, S \cup W), S \cap W = {}
  PROVE  /\ SumOn(w, S \cup W) = SumOn(w, S) + SumOn(w, W)
         /\ SumOn(w, S) \in Int /\ SumOn(w, W) \in Int
<1> DEFINE F == {U \in SUBSET S : SumOn(w, U \cup W) = SumOn(w, U) + SumOn(w, W)}
<1>0. SumOn(w, W) \in Int /\ SumOn(w, S) \in Int /\ IsFiniteSet(S)
  BY NumbersOfPart, FS_Subset DEF Numbers
<1>1. {} \in F
  BY <1>0, SumNone, {} \cup W = W
<1>2. ASSUME NEW U \in SUBSET S, NEW x \in S, U \in F, x \notin U
      PROVE  U \cup {x} \in F
  <2>1. /\ SumOn(w, U \cup {x}) = w[x] + SumOn(w, U)
        /\ SumOn(w, U) \in Int /\ w[x] \in Int
    BY <1>2, SumAdd
  <2>2. U \cup W \in SUBSET (S \cup W) /\ x \notin U \cup W /\ x \in S \cup W
    BY <1>2
  <2>3. SumOn(w, (U \cup W) \cup {x}) = w[x] + SumOn(w, U \cup W)
    <3> DEFINE A == S \cup W
               B == U \cup W
    <3>1. Numbers(w, A) /\ B \in SUBSET A /\ x \in A /\ x \notin B
      BY <2>2
    <3> HIDE DEF A, B
    <3>2. SumOn(w, B \cup {x}) = w[x] + SumOn(w, B)
      BY <3>1, SumAdd
    <3> QED
      BY <3>2 DEF B
  <2>4. (U \cup W) \cup {x} = (U \cup {x}) \cup W
    OBVIOUS
  <2>5. SumOn(w, U \cup W) = SumOn(w, U) + SumOn(w, W)
    BY <1>2
  <2>6. PICK a \in Int, b \in Int, c \in Int :
          a = w[x] /\ b = SumOn(w, U) /\ c = SumOn(w, W)
    BY <1>0, <2>1
  <2>7. a + (b + c) = (a + b) + c
    OBVIOUS
  <2> QED
    BY <2>1, <2>3, <2>4, <2>5, <2>6, <2>7
<1>3. SUBSET S \subseteq F
  <2> HIDE DEF F
  <2> QED
    BY <1>0, <1>1, <1>2, SetByStep
<1> QED
  BY <1>0, <1>3

LEMMA SumOfPartLess ==
  ASSUME NEW S, NEW w, IsFiniteSet(S), \A x \in S : w[x] \in Nat, NEW W \in SUBSET S
  PROVE  /\ SumOn(w, W) <= SumOn(w, S)
         /\ SumOn(w, W) \in Nat /\ SumOn(w, S) \in Nat
<1>1. IsFiniteSet(W) /\ IsFiniteSet(S \ W)
  BY FS_Subset
<1>2. SumOn(w, S) \in Nat /\ SumOn(w, W) \in Nat /\ SumOn(w, S \ W) \in Nat /\ Numbers(w, S)
  BY <1>1, SumNat
<1>3. SumOn(w, W \cup (S \ W)) = SumOn(w, W) + SumOn(w, S \ W)
  <2>1. PICK V : V = S \ W
    OBVIOUS
  <2>2. W \cap V = {} /\ Numbers(w, W \cup V)
    <3>1. W \cup V = S
      BY <2>1
    <3> QED BY <1>2, <2>1, <3>1
  <2>3. SumOn(w, W \cup V) = SumOn(w, W) + SumOn(w, V)
    BY <2>2, SumUnion
  <2> QED
    BY <2>1, <2>3
<1>4. PICK a \in Nat, b \in Nat, c \in Nat :
        a = SumOn(w, S) /\ b = SumOn(w, W) /\ c = SumOn(w, S \ W)
  BY <1>2
<1>5. a = b + c
  <2>1. W \cup (S \ W) = S
    OBVIOUS
  <2> QED BY <1>3, <1>4, <2>1
<1> QED
  BY <1>4, <1>5

\* The sum of a multiple.
LEMMA SumTimes ==
  ASSUME NEW S, NEW v, NEW w, Numbers(w, S), NEW k \in Int, \A x \in S : v[x] = k * w[x]
  PROVE  Numbers(v, S) /\ SumOn(v, S) = k * SumOn(w, S)
<1> DEFINE F == {U \in SUBSET S : SumOn(v, U) = k * SumOn(w, U)}
<1>1. Numbers(v, S)
  BY DEF Numbers
<1>2. {} \in F
  BY SumNone
<1>3. ASSUME NEW U \in SUBSET S, NEW x \in S, U \in F, x \notin U
      PROVE  U \cup {x} \in F
  <2>1. /\ SumOn(w, U \cup {x}) = w[x] + SumOn(w, U)
        /\ SumOn(w, U) \in Int /\ w[x] \in Int
    BY <1>3, SumAdd
  <2>2. SumOn(v, U \cup {x}) = v[x] + SumOn(v, U)
    BY <1>1, <1>3, SumAdd
  <2>3. PICK a \in Int, b \in Int : a = w[x] /\ b = SumOn(w, U)
    BY <2>1
  <2>4. v[x] = k * a /\ SumOn(v, U) = k * b
    BY <1>3, <2>3
  <2>5. k * (a + b) = k * a + k * b
    OBVIOUS
  <2> QED
    BY <2>1, <2>2, <2>3, <2>4, <2>5
<1>4. SUBSET S \subseteq F
  <2> HIDE DEF F
  <2> QED
    BY <1>2, <1>3, SetByStep DEF Numbers
<1> QED
  BY <1>1, <1>4

\* A sum of two.
LEMMA SumOfBoth ==
  ASSUME NEW S, NEW u, NEW v, NEW w, Numbers(v, S), Numbers(w, S),
         \A x \in S : u[x] = v[x] + w[x]
  PROVE  Numbers(u, S) /\ SumOn(u, S) = SumOn(v, S) + SumOn(w, S)
<1> DEFINE F == {U \in SUBSET S : SumOn(u, U) = SumOn(v, U) + SumOn(w, U)}
<1>1. Numbers(u, S)
  BY DEF Numbers
<1>2. {} \in F
  BY SumNone
<1>3. ASSUME NEW U \in SUBSET S, NEW x \in S, U \in F, x \notin U
      PROVE  U \cup {x} \in F
  <2>1. /\ SumOn(w, U \cup {x}) = w[x] + SumOn(w, U)
        /\ SumOn(w, U) \in Int /\ w[x] \in Int
        /\ SumOn(v, U \cup {x}) = v[x] + SumOn(v, U)
        /\ SumOn(v, U) \in Int /\ v[x] \in Int
    BY <1>3, SumAdd
  <2>2. SumOn(u, U \cup {x}) = u[x] + SumOn(u, U)
    BY <1>1, <1>3, SumAdd
  <2>3. PICK a \in Int, b \in Int, c \in Int, d \in Int :
          a = w[x] /\ b = SumOn(w, U) /\ c = v[x] /\ d = SumOn(v, U)
    BY <2>1
  <2>4. u[x] = c + a /\ SumOn(u, U) = d + b
    BY <1>3, <2>3
  <2>5. (c + a) + (d + b) = (c + d) + (a + b)
    OBVIOUS
  <2> QED
    BY <2>1, <2>2, <2>3, <2>4, <2>5
<1>4. SUBSET S \subseteq F
  <2> HIDE DEF F
  <2> QED
    BY <1>2, <1>3, SetByStep DEF Numbers
<1> QED
  BY <1>1, <1>4

\* An element more or less to leave out.
LEMMA SumLeftOut ==
  ASSUME NEW S, NEW w, Numbers(w, S), NEW x \in S, NEW out
  PROVE  /\ SumOn(w, S \ out) = (IF x \in out THEN 0 ELSE w[x]) + SumOn(w, (S \ {x}) \ out)
         /\ Numbers(w, S \ {x}) /\ SumOn(w, (S \ {x}) \ out) \in Int /\ w[x] \in Int
<1>1. Numbers(w, S \ {x}) /\ (S \ {x}) \ out \in SUBSET S /\ w[x] \in Int
  <2>1. S \ {x} \in SUBSET S
    OBVIOUS
  <2> QED BY <2>1, NumbersOfPart DEF Numbers
<1>2. SumOn(w, (S \ {x}) \ out) \in Int
  BY <1>1, NumbersOfPart
<1>3. CASE x \in out
  <2>1. S \ out = (S \ {x}) \ out
    BY <1>3
  <2>2. PICK a \in Int : a = SumOn(w, (S \ {x}) \ out)
    BY <1>2
  <2>3. a = 0 + a
    OBVIOUS
  <2>4. (IF x \in out THEN 0 ELSE w[x]) = 0
    BY <1>3
  <2>5. SumOn(w, S \ out) = (IF x \in out THEN 0 ELSE w[x]) + SumOn(w, (S \ {x}) \ out)
    BY <2>1, <2>2, <2>3, <2>4
  <2> QED BY <2>5, <1>1, <1>2
<1>4. CASE x \notin out
  <2>1. S \ out = ((S \ {x}) \ out) \cup {x} /\ x \notin (S \ {x}) \ out
    BY <1>4
  <2>2. SumOn(w, ((S \ {x}) \ out) \cup {x}) = w[x] + SumOn(w, (S \ {x}) \ out)
    BY <1>1, <2>1, SumAdd
  <2> QED BY <2>1, <2>2, <1>1, <1>2, <1>4
<1> QED BY <1>3, <1>4

-----------------------------------------------------------------------------
(* Finite sets, quotients, largest numbers and means. *)

LEMMA FiveAreFinite ==
  ASSUME NEW a, NEW b, NEW c, NEW d, NEW e
  PROVE  IsFiniteSet({a, b, c, d, e})
<1>1. IsFiniteSet({a}) /\ \A S, x : IsFiniteSet(S) => IsFiniteSet(S \cup {x})
  BY FS_Singleton, FS_AddElement
<1>2. IsFiniteSet(((({a} \cup {b}) \cup {c}) \cup {d}) \cup {e})
  BY <1>1
<1>3. ((({a} \cup {b}) \cup {c}) \cup {d}) \cup {e} = {a, b, c, d, e}
  OBVIOUS
<1> QED BY <1>2, <1>3

\* What a function makes of the members of a finite set.
LEMMA ImageIsFinite ==
  ASSUME NEW S, IsFiniteSet(S), NEW f, DOMAIN f = S, NEW R, R = {f[x] : x \in S}
  PROVE  IsFiniteSet(R) /\ Cardinality(R) <= Cardinality(S) /\ Cardinality(R) \in Nat /\ Cardinality(S) \in Nat
<1>1. PICK g \in [S -> R] : \A x \in S : g[x] = f[x]
  <2>1. [x \in S |-> f[x]] \in [S -> R]
    OBVIOUS
  <2> QED BY <2>1
<1>2. g \in Surjection(S, R)
  BY <1>1 DEF Surjection
<1> QED BY <1>2, FS_Surjection, FS_CardinalityType

\* A share is no more than its bound.
LEMMA QuotientBound ==
  ASSUME NEW a \in Nat, NEW b \in Nat, b > 0, NEW k \in Nat, a < k * b + b
  PROVE  a \div b \in Nat /\ a \div b <= k
<1>1. PICK q \in Int : q = a \div b
  OBVIOUS
<1>2. b * q <= a /\ a < b * q + b
  BY <1>1, SMT
<1>3. q >= 0
  <2> SUFFICES ASSUME q <= -1 PROVE FALSE
    BY SMT
  <2>1. b * q + b <= 0
    BY SMT
  <2> QED BY <2>1, <1>2, SMT
<1>4. q <= k
  <2> SUFFICES ASSUME q >= k + 1 PROVE FALSE
    BY SMT
  <2>1. b * q >= b * (k + 1)
    BY SMT
  <2>2. b * (k + 1) = k * b + b
    BY SMT
  <2> QED BY <2>1, <2>2, <1>2, SMT
<1> QED BY <1>1, <1>3, <1>4, SMT

LEMMA QuotientAtLeast ==
  ASSUME NEW a \in Nat, NEW b \in Nat, b > 0, NEW k \in Nat, k * b <= a
  PROVE  a \div b \in Nat /\ a \div b >= k
<1>1. PICK q \in Int : q = a \div b
  OBVIOUS
<1>2. b * q <= a /\ a < b * q + b
  BY <1>1, SMT
<1>3. q >= k
  <2> SUFFICES ASSUME q <= k - 1 PROVE FALSE
    BY SMT
  <2>1. b * q <= b * (k - 1)
    BY SMT
  <2>2. b * (k - 1) = k * b - b
    BY SMT
  <2> QED BY <2>1, <2>2, <1>2, SMT
<1> QED BY <1>1, <1>3, SMT

\* The largest of finitely many numbers is one of them.
LEMMA LargestOf ==
  ASSUME NEW S, IsFiniteSet(S), S # {}, S \in SUBSET Int
  PROVE  Max(S) \in S /\ \A y \in S : Max(S) >= y
<1> DEFINE F == {U \in SUBSET S : U # {} => \E x \in U : \A y \in U : x >= y}
<1>1. {} \in F
  OBVIOUS
<1>2. \A U \in SUBSET S : \A x \in S : U \in F /\ x \notin U => U \cup {x} \in F
  <2> TAKE U \in SUBSET S
  <2> TAKE x \in S
  <2> HAVE U \in F /\ x \notin U
  <2>1. U \cup {x} \in SUBSET S
    OBVIOUS
  <2>2. CASE U = {}
    BY <2>1, <2>2
  <2>3. CASE U # {}
    <3>1. PICK m \in U : \A y \in U : m >= y
      BY <2>3
    <3>2. m \in Int /\ x \in Int /\ \A y \in U : y \in Int
      OBVIOUS
    <3>3. \E z \in U \cup {x} : \A y \in U \cup {x} : z >= y
      <4>1. CASE m >= x
        BY <4>1, <3>1, <3>2
      <4>2. CASE ~(m >= x)
        BY <4>2, <3>1, <3>2
      <4> QED BY <4>1, <4>2
    <3> QED BY <2>1, <3>3
  <2> QED BY <2>2, <2>3
<1>3. SUBSET S \subseteq F
  <2> HIDE DEF F
  <2> QED BY <1>1, <1>2, SetByStep
<1>4. \E x \in S : \A y \in S : x >= y
  BY <1>3
<1> QED BY <1>4 DEF Max

\* Where no number is more than k times its weight, nor is their sum.
LEMMA MeanBound ==
  ASSUME NEW S, IsFiniteSet(S), NEW t, \A x \in S : t[x] \in Nat, NEW v, \A x \in S : v[x] \in Nat,
         NEW k \in Nat, \A x \in S : v[x] <= k * t[x]
  PROVE  SumOn(v, S) \in Nat /\ SumOn(t, S) \in Nat /\ SumOn(v, S) <= k * SumOn(t, S)
<1>1. Numbers(t, S) /\ SumOn(t, S) \in Nat /\ Numbers(v, S) /\ SumOn(v, S) \in Nat
  BY SumNat
<1>2. PICK u : u = [x \in S |-> k * t[x]]
  OBVIOUS
<1>3. \A x \in S : u[x] = k * t[x]
  BY <1>2
<1>4. Numbers(u, S) /\ SumOn(u, S) = k * SumOn(t, S)
  <2>1. k \in Int
    OBVIOUS
  <2> QED BY <1>1, <1>3, <2>1, SumTimes
<1>5. SumOn(v, S) <= SumOn(u, S)
  <2>1. \A x \in S : v[x] <= u[x]
    BY <1>3
  <2> QED BY <1>1, <1>4, <2>1, SumMono
<1> QED BY <1>1, <1>4, <1>5

\* Where every weight is positive, their sum is.
LEMMA SumPositive ==
  ASSUME NEW S, IsFiniteSet(S), S # {}, NEW t, \A x \in S : t[x] \in Nat /\ t[x] >= 1
  PROVE  SumOn(t, S) \in Nat /\ SumOn(t, S) > 0
<1>1. PICK x \in S : TRUE
  OBVIOUS
<1>2. Numbers(t, S) /\ SumOn(t, S) \in Nat
  BY SumNat
<1>3. SumOn(t, S) = t[x] + SumOn(t, S \ {x})
  BY <1>2, SumStep
<1>4. SumOn(t, S \ {x}) \in Nat
  <2>1. S \ {x} \in SUBSET S /\ \A y \in S : t[y] \in Nat
    OBVIOUS
  <2> QED BY <2>1, SumOfPartLess
<1>5. t[x] \in Nat /\ t[x] >= 1
  OBVIOUS
<1> QED BY <1>2, <1>3, <1>4, <1>5

\* A mean is no more than its parts.
LEMMA Mean ==
  ASSUME NEW S, IsFiniteSet(S), S # {}, NEW t, \A x \in S : t[x] \in Nat /\ t[x] >= 1,
         NEW v, \A x \in S : v[x] \in Nat,
         NEW k \in Nat, \A x \in S : v[x] <= k * t[x]
  PROVE  /\ SumOn(t, S) \in Nat /\ SumOn(t, S) > 0
         /\ SumOn(v, S) \div SumOn(t, S) \in Nat /\ SumOn(v, S) \div SumOn(t, S) <= k
<1>1. SumOn(v, S) \in Nat /\ SumOn(t, S) \in Nat /\ SumOn(v, S) <= k * SumOn(t, S)
  BY MeanBound
<1>2. SumOn(t, S) > 0
  BY SumPositive
<1>3. PICK a \in Nat, b \in Nat : a = SumOn(v, S) /\ b = SumOn(t, S)
  BY <1>1
<1>4. b > 0 /\ a < k * b + b
  <2>1. PICK z \in Int : z = k * b
    OBVIOUS
  <2> QED BY <1>1, <1>2, <1>3, <2>1
<1>5. a \div b \in Nat /\ a \div b <= k
  BY <1>4, QuotientBound
<1> QED BY <1>1, <1>2, <1>3, <1>5

\* A mean lies between two of the numbers.
LEMMA MeanLies ==
  ASSUME NEW S, IsFiniteSet(S), S # {}, NEW t, \A p \in S : t[p] \in Nat /\ t[p] >= 1,
         NEW r, \A p \in S : r[p] \in Nat,
         NEW v, \A p \in S : v[p] \in Nat /\ v[p] = t[p] * r[p]
  PROVE  /\ \E p \in S : r[p] <= SumOn(v, S) \div SumOn(t, S)
         /\ \E p \in S : r[p] >= SumOn(v, S) \div SumOn(t, S)
<1>1. PICK R : R = {r[p] : p \in S}
  OBVIOUS
<1>2. R \in SUBSET Nat /\ R \in SUBSET Int /\ R # {}
  BY <1>1
<1>3. IsFiniteSet(R)
  <2>1. PICK f : f = [p \in S |-> r[p]]
    OBVIOUS
  <2>2. DOMAIN f = S /\ R = {f[p] : p \in S}
    BY <1>1, <2>1
  <2> QED BY <2>2, ImageIsFinite
<1>4. PICK hi \in S : \A p \in S : r[p] <= r[hi]
  <2>1. Max(R) \in R /\ \A y \in R : Max(R) >= y
    BY <1>2, <1>3, LargestOf
  <2>2. PICK h \in S : Max(R) = r[h]
    BY <1>1, <2>1
  <2>3. \A p \in S : r[p] \in R
    BY <1>1
  <2>4. \A p \in S : r[h] >= r[p]
    BY <2>1, <2>2, <2>3
  <2> QED BY <2>4
<1>5. PICK lo \in S : \A p \in S : r[lo] <= r[p]
  <2>1. PICK n \in R : \A m \in R : n <= m
    BY <1>2, LeastNat
  <2> QED BY <1>1, <2>1
<1>6. SumOn(v, S) \div SumOn(t, S) <= r[hi]
  <2>1. \A p \in S : v[p] <= r[hi] * t[p]
    <3> TAKE p \in S
    <3>1. PICK a \in Nat, b \in Nat, c \in Nat : a = t[p] /\ b = r[p] /\ c = r[hi] /\ b <= c
      BY <1>4
    <3>2. a * b <= c * a
      BY <3>1, SMT
    <3> QED BY <3>1, <3>2
  <2>2. r[hi] \in Nat
    OBVIOUS
  <2> QED BY <2>1, <2>2, Mean
<1>7. SumOn(v, S) \div SumOn(t, S) >= r[lo]
  <2>1. PICK k \in Nat : k = r[lo]
    OBVIOUS
  <2>2. \A p \in S : k * t[p] \in Nat /\ k * t[p] <= v[p]
    <3> TAKE p \in S
    <3>1. PICK a \in Nat, b \in Nat : a = t[p] /\ b = r[p] /\ k <= b
      BY <1>5, <2>1
    <3>2. k * a \in Nat /\ k * a <= a * b
      BY <3>1, SMT
    <3> QED BY <3>1, <3>2
  <2>3. PICK u : u = [p \in S |-> k * t[p]]
    OBVIOUS
  <2>4. \A p \in S : u[p] = k * t[p] /\ u[p] <= v[p]
    BY <2>2, <2>3
  <2>5. Numbers(t, S) /\ Numbers(v, S) /\ SumOn(v, S) \in Nat
    BY SumNat
  <2>6. k \in Int
    OBVIOUS
  <2>7. Numbers(u, S) /\ SumOn(u, S) = k * SumOn(t, S)
    BY <2>4, <2>5, <2>6, SumTimes
  <2>8. SumOn(u, S) <= SumOn(v, S)
    BY <2>4, <2>5, <2>7, SumMono
  <2>9. SumOn(t, S) \in Nat /\ SumOn(t, S) > 0
    <3>1. \A p \in S : v[p] <= r[hi] * t[p]
      <4> TAKE p \in S
      <4>1. PICK a \in Nat, b \in Nat, c \in Nat : a = t[p] /\ b = r[p] /\ c = r[hi] /\ b <= c
        BY <1>4
      <4>2. a * b <= c * a
        BY <4>1, SMT
      <4> QED BY <4>1, <4>2
    <3>2. r[hi] \in Nat
      OBVIOUS
    <3> QED BY <3>1, <3>2, Mean
  <2>10. PICK a \in Nat, b \in Nat : a = SumOn(v, S) /\ b = SumOn(t, S) /\ b > 0
    BY <2>5, <2>9
  <2>11. k * b <= a
    BY <2>7, <2>8, <2>10
  <2>12. a \div b >= k
    BY <2>10, <2>11, QuotientAtLeast
  <2> QED BY <2>1, <2>10, <2>12
<1> QED BY <1>6, <1>7

================================================================================
