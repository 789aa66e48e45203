----------------------------- MODULE SitePartsProofs -----------------------------
(***************************************************************************)
(* The parts of an audit of a site (SiteTechnical, SiteQuestions): what is   *)
(* critical or not answered comes with a fix, and a fix that was made is met.*)
(***************************************************************************)
EXTENDS SiteAudit, Sums, SequenceTheorems, FiniteSetTheorems, FunctionTheorems,
        NaturalsInduction, WellFoundedInduction, TLAPS

-----------------------------------------------------------------------------
(* What is read of a robots.txt. *)

States == [on : BOOLEAN, rules : Seq(T!Lines)]
Unread == [on |-> FALSE, rules |-> << >>]
Reading(g, file, c) ==
  /\ g \in [0..Len(file) -> States]
  /\ g[0] = Unread
  /\ \A i \in 1..Len(file) : g[i] = T!Read(g[i - 1], file[i], c)

LEMMA LineIs ==
  ASSUME NEW line \in T!Lines
  PROVE  line.is \in {"agent", "allow", "disallow"}
BY DEF T!Lines

\* An agent line turns the reading on or off and leaves the rules; another adds a rule or
\* does nothing.
LEMMA ReadStep ==
  ASSUME NEW st \in States, NEW line \in T!Lines, NEW c
  PROVE  /\ T!Read(st, line, c) \in States
         /\ line.is = "agent" =>
              /\ T!Read(st, line, c).rules = st.rules
              /\ T!Read(st, line, c).on = (line.value # "" /\ (st.on \/ c \in T!Named(line.value)))
         /\ line.is # "agent" =>
              /\ T!Read(st, line, c).on = st.on
              /\ (st.on /\ line.value # "") => T!Read(st, line, c).rules = Append(st.rules, line)
              /\ ~(st.on /\ line.value # "") => T!Read(st, line, c).rules = st.rules
<1> PICK new \in BOOLEAN : new = (line.value # "" /\ (st.on \/ c \in T!Named(line.value)))
  OBVIOUS
<1>1. CASE line.is = "agent"
  <2>1. T!Read(st, line, c) = [st EXCEPT !.on = line.value # "" /\ (st.on \/ c \in T!Named(line.value))]
    BY <1>1 DEF T!Read
  <2>2. T!Read(st, line, c) = [st EXCEPT !.on = new]
    BY <2>1, Zenon
  <2>3. T!Read(st, line, c).on = new /\ T!Read(st, line, c).rules = st.rules
    BY <2>2 DEF States
  <2>4. T!Read(st, line, c) \in States
    BY <2>2 DEF States
  <2> QED BY <1>1, <2>3, <2>4, Zenon
<1>2. CASE line.is # "agent" /\ st.on /\ line.value # ""
  <2>1. T!Read(st, line, c) = [st EXCEPT !.rules = Append(st.rules, line)]
    BY <1>2 DEF T!Read
  <2>3. st.rules \in Seq(T!Lines)
    BY DEF States
  <2>2. Append(st.rules, line) \in Seq(T!Lines)
    BY <2>3, AppendProperties
  <2> QED BY <1>2, <2>1, <2>2 DEF States
<1>3. CASE line.is # "agent" /\ ~(st.on /\ line.value # "")
  <2>1. T!Read(st, line, c) = st
    BY <1>3 DEF T!Read
  <2> QED BY <1>3, <2>1
<1> QED BY <1>1, <1>2, <1>3

\* The rules are those after the last line.
LEMMA RulesAreRead ==
  ASSUME NEW file \in Seq(T!Lines), NEW c
  PROVE  \E g : Reading(g, file, c) /\ T!Rules(file, c) = g[Len(file)].rules
<1> DEFINE n == Len(file)
           D == 1..n
           pick == [s \in SUBSET D |-> T!Max(s)]
           step == [p \in D \X States |-> T!Read(p[2], file[p[1]], c)]
<1>0. DOMAIN file = D /\ n \in Nat
  OBVIOUS
<1>1. IsFiniteSet(D)
  BY <1>0, FS_Interval
<1>2. Unread \in States
  BY DEF Unread, States
<1>3. \A s \in SUBSET D : s # {} => T!Max(s) \in s /\ \A y \in s : T!Max(s) >= y
  <2> TAKE s \in SUBSET D
  <2> HAVE s # {}
  <2> DEFINE M == {m \in Nat : \A y \in s : m >= y}
  <2>1. M \in SUBSET Nat /\ n \in M
    BY <1>0
  <2>2. PICK m \in M : \A k \in M : m <= k
    BY <2>1, LeastNat
  <2>4. m \in Nat /\ \A y \in s : m >= y
    OBVIOUS
  <2>3. m \in s
    <3> SUFFICES ASSUME m \notin s PROVE FALSE
      OBVIOUS
    <3>1. \A y \in s : y \in Nat /\ m >= y /\ y # m /\ y >= 1
      BY <1>0, <2>4
    <3>2. m # 0
      <4>1. PICK y \in s : TRUE
        OBVIOUS
      <4> QED BY <3>1, <4>1
    <3>3. m - 1 \in Nat /\ \A y \in s : m - 1 >= y
      BY <3>1, <3>2, <2>4
    <3>4. m - 1 \in M
      BY <3>3
    <3>5. m <= m - 1
      BY <2>2, <3>4
    <3> QED BY <3>5, <2>4
  <2> HIDE DEF M
  <2> QED BY <2>3, <2>4 DEF T!Max
<1>4. Picks(pick, D)
  BY <1>3 DEF Picks
<1>5. StaysIn(step, D, States)
  <2> SUFFICES ASSUME NEW i \in D, NEW st \in States PROVE step[<<i, st>>] \in States
    BY DEF StaysIn
  <2>1. file[i] \in T!Lines
    BY <1>0
  <2>2. T!Read(st, file[i], c) \in States
    BY <2>1, ReadStep
  <2> QED BY <2>2
<1>6. PICK f \in [SUBSET D -> States] : Folded(f, Unread, pick, step, D)
  <2> HIDE DEF D, pick, step
  <2> QED BY <1>1, <1>2, <1>4, <1>5, FoldExists
<1>7. \A s \in SUBSET D : s # {} =>
         /\ pick[s] = T!Max(s)
         /\ step[<<pick[s], f[s \ {pick[s]}]>>] = T!Read(f[s \ {T!Max(s)}], file[T!Max(s)], c)
  BY <1>3
<1>8. f[{}] = Unread /\ \A s \in SUBSET D : s # {} => f[s] = T!Read(f[s \ {T!Max(s)}], file[T!Max(s)], c)
  BY <1>6, <1>7 DEF Folded
<1> DEFINE Is(h) == h = [s \in SUBSET D |-> IF s = {} THEN Unread ELSE LET x == T!Max(s) IN T!Read(h[s \ {x}], file[x], c)]
<1>9. Is(f)
  <2>1. \A s \in SUBSET D : f[s] = IF s = {} THEN Unread ELSE LET x == T!Max(s) IN T!Read(f[s \ {x}], file[x], c)
    BY <1>8, Zenon
  <2> HIDE DEF D
  <2> QED BY <2>1
<1>10. PICK h : h = (CHOOSE h_1 : Is(h_1)) /\ Is(h)
  <2> HIDE DEF Is
  <2> QED BY <1>9, Zenon
<1>11. T!Rules(file, c) = h[D].rules
  <2>1. h = CHOOSE h_1 : h_1 = [s \in SUBSET DOMAIN file |-> IF s = {} THEN Unread ELSE LET x == T!Max(s) IN T!Read(h_1[s \ {x}], file[x], c)]
    BY <1>0, <1>10, Zenon
  <2> QED BY <2>1, <1>0, Zenon DEF T!Rules, T!FoldLeft, T!MapThenFoldSet, Unread
<1> DEFINE g == [i \in 0..n |-> h[1..i]]
<1>12. g[0] = Unread
  <2>1. h[{}] = Unread
    <3> HIDE DEF D
    <3> QED BY <1>10
  <2>2. 1..0 = {} /\ 0 \in 0..n
    BY <1>0
  <2> QED BY <2>1, <2>2
<1>13. \A i \in 1..n : g[i] = T!Read(g[i - 1], file[i], c)
  <2> TAKE i \in 1..n
  <2>1. 1..i \in SUBSET D /\ 1..i # {}
    BY <1>0
  <2>2. T!Max(1..i) = i
    <3>1. T!Max(1..i) \in 1..i /\ \A y \in 1..i : T!Max(1..i) >= y
      BY <2>1, <1>3
    <3> QED BY <3>1, <1>0
  <2>3. (1..i) \ {i} = 1..(i - 1)
    BY <1>0
  <2>4. h[1..i] = T!Read(h[(1..i) \ {T!Max(1..i)}], file[T!Max(1..i)], c)
    <3> HIDE DEF D
    <3> QED BY <2>1, <1>10
  <2>5. h[1..i] = T!Read(h[1..(i - 1)], file[i], c)
    BY <2>2, <2>3, <2>4
  <2> QED BY <2>5, <1>0
<1>14. \A i \in 0..n : g[i] \in States
  <2> DEFINE F == {i \in Nat : i <= n => g[i] \in States}
  <2>1. 0 \in F
    BY <1>0, <1>2, <1>12
  <2>2. \A i \in Nat : i \in F => i + 1 \in F
    <3> TAKE i \in Nat
    <3> HAVE i \in F
    <3>1. CASE ~(i + 1 <= n)
      BY <3>1
    <3>2. CASE i + 1 <= n
      <4>1. g[i] \in States
        BY <3>2, <1>0
      <4>4. PICK j \in 1..n : j = i + 1
        BY <3>2, <1>0
      <4>5. g[j] = T!Read(g[j - 1], file[j], c) /\ j - 1 = i
        BY <4>4, <1>13
      <4>2. g[i + 1] = T!Read(g[i], file[i + 1], c) /\ file[i + 1] \in T!Lines
        <5>1. file[j] \in T!Lines
          BY <1>0
        <5> HIDE DEF g
        <5> QED BY <4>4, <4>5, <5>1
      <4>3. g[i + 1] \in States
        <5> HIDE DEF g
        <5>1. PICK st \in States, line \in T!Lines : st = g[i] /\ line = file[i + 1]
          BY <4>1, <4>2
        <5>2. T!Read(st, line, c) \in States
          BY ReadStep
        <5> QED BY <4>2, <5>1, <5>2
      <4> HIDE DEF g
      <4> QED BY <4>3
    <3> QED BY <3>1, <3>2
  <2> HIDE DEF g
  <2>3. Nat \subseteq F
    <3> HIDE DEF F
    <3> QED BY <2>1, <2>2, NatByStep
  <2> QED BY <2>3, <1>0
<1>15. Reading(g, file, c)
  <2>1. g \in [0..n -> States]
    BY <1>14
  <2> HIDE DEF g
  <2> QED BY <2>1, <1>12, <1>13 DEF Reading
<1>16. g[n] = h[D]
  BY <1>0
<1> HIDE DEF g
<1> QED BY <1>11, <1>15, <1>16

-----------------------------------------------------------------------------
(* What the fix for blocked search engines makes of a robots.txt. *)

LEMMA SameCount == ASSUME NEW S PROVE T!Cardinality(S) = Cardinality(S)
BY Zenon DEF T!Cardinality, Cardinality

LEMMA SetInOrder ==
  ASSUME NEW A, IsFiniteSet(A)
  PROVE  /\ Cardinality(A) \in Nat
         /\ T!SetToSeq(A) \in [1..Cardinality(A) -> A]
         /\ \A a \in A : \E i \in 1..Cardinality(A) : T!SetToSeq(A)[i] = a
<1>1. Cardinality(A) \in Nat /\ ExistsBijection(1..Cardinality(A), A)
  BY FS_CardinalityType
<1>2. PICK f \in Bijection(1..Cardinality(A), A) : TRUE
  BY <1>1 DEF ExistsBijection
<1>3. f \in [1..Cardinality(A) -> A] /\ \A a, b \in 1..Cardinality(A) : f[a] = f[b] => a = b
  BY <1>2 DEF Bijection, Injection, IsInjective
<1>0. T!Cardinality(A) = Cardinality(A)
  BY SameCount
<1>4. /\ T!SetToSeq(A) \in [1..Cardinality(A) -> A]
      /\ \A a, b \in 1..Cardinality(A) : T!SetToSeq(A)[a] = T!SetToSeq(A)[b] => a = b
  <2>1. f \in [1..T!Cardinality(A) -> A] /\ \A a, b \in DOMAIN f : f[a] = f[b] => a = b
    BY <1>0, <1>3
  <2> DEFINE e == CHOOSE f_1 \in [1..T!Cardinality(A) -> A] : \A a, b \in DOMAIN f_1 : f_1[a] = f_1[b] => a = b
  <2>2. e \in [1..T!Cardinality(A) -> A] /\ \A a, b \in DOMAIN e : e[a] = e[b] => a = b
    BY <2>1
  <2>3. T!SetToSeq(A) = e
    BY DEF T!SetToSeq, T!IsInjective
  <2> HIDE DEF e
  <2> QED BY <1>0, <2>2, <2>3
<1>5. T!SetToSeq(A) \in Injection(1..Cardinality(A), A)
  BY <1>4 DEF Injection, IsInjective
<1>6. IsFiniteSet(1..Cardinality(A)) /\ Cardinality(1..Cardinality(A)) = Cardinality(A)
  <2>1. PICK n \in Int, o \in Int : n = Cardinality(A) /\ o = 1
    BY <1>1
  <2>2. IsFiniteSet(o..n) /\ Cardinality(o..n) = IF o > n THEN 0 ELSE n - o + 1
    BY FS_Interval
  <2> QED BY <2>1, <2>2, <1>1
<1>7. T!SetToSeq(A) \in Surjection(1..Cardinality(A), A)
  BY <1>5, <1>6, FS_Injection
<1> QED BY <1>1, <1>4, <1>7 DEF Surjection

\* The lines of the fix: an agent and what it may, in turns.
Turns(order, m) ==
  [k \in 1..(2 * m) |->
     IF k % 2 = 1 THEN [is |-> "agent", value |-> order[(k + 1) \div 2]]
     ELSE [is |-> "allow", value |-> "/"]]

LEMMA TurnOfGroup ==
  ASSUME NEW m \in Nat, NEW order, NEW a
  PROVE  /\ Len(T!Group(a, "allow")) = 2
         /\ T!Group(a, "allow")[1] = [is |-> "agent", value |-> a]
         /\ T!Group(a, "allow")[2] = [is |-> "allow", value |-> "/"]
         /\ T!Group(a, "allow") \in Seq({[is |-> "agent", value |-> a], [is |-> "allow", value |-> "/"]})
BY DEF T!Group

LEMMA TurnsAreLines ==
  ASSUME NEW m \in Nat, NEW A, NEW order \in [1..m -> A]
  PROVE  /\ Turns(order, m) \in Seq({[is |-> "agent", value |-> a] : a \in A} \cup {[is |-> "allow", value |-> "/"]})
         /\ Len(Turns(order, m)) = 2 * m
         /\ \A i \in 1..m : /\ Turns(order, m)[2 * i - 1] = [is |-> "agent", value |-> order[i]]
                            /\ Turns(order, m)[2 * i] = [is |-> "allow", value |-> "/"]
<1> DEFINE L == {[is |-> "agent", value |-> a] : a \in A} \cup {[is |-> "allow", value |-> "/"]}
<1>1. 2 * m \in Nat
  OBVIOUS
<1>2. \A k \in 1..(2 * m) : k % 2 = 1 => (k + 1) \div 2 \in 1..m
  OBVIOUS
<1>3. \A k \in 1..(2 * m) : Turns(order, m)[k] \in L
  BY <1>2 DEF Turns
<1>4. Turns(order, m) \in [1..(2 * m) -> L]
  <2> HIDE DEF L
  <2> QED BY <1>3 DEF Turns
<1>5. Turns(order, m) \in Seq(L) /\ Len(Turns(order, m)) = 2 * m
  <2> HIDE DEF L
  <2>1. PICK n \in Nat : n = 2 * m
    BY <1>1
  <2> QED BY <2>1, <1>4
<1>6. ASSUME NEW i \in 1..m
      PROVE  /\ Turns(order, m)[2 * i - 1] = [is |-> "agent", value |-> order[i]]
             /\ Turns(order, m)[2 * i] = [is |-> "allow", value |-> "/"]
  <2>1. /\ 2 * i - 1 \in 1..(2 * m) /\ (2 * i - 1) % 2 = 1 /\ ((2 * i - 1) + 1) \div 2 = i
        /\ 2 * i \in 1..(2 * m) /\ (2 * i) % 2 # 1
    OBVIOUS
  <2> QED BY <2>1 DEF Turns
<1> QED BY <1>5, <1>6

\* A group more.
LEMMA TurnsGrow ==
  ASSUME NEW m \in Nat, NEW A, NEW order \in [1..m -> A], NEW i \in 1..m, i > 1
  PROVE  Turns(order, i - 1) \o T!Group(order[i], "allow") = Turns(order, i)
<1> DEFINE L == {[is |-> "agent", value |-> a] : a \in A} \cup {[is |-> "allow", value |-> "/"]}
           s == Turns(order, i - 1)
           g == T!Group(order[i], "allow")
           u == Turns(order, i)
<1>1. s \in Seq(L) /\ Len(s) = 2 * (i - 1)
  <2>1. i - 1 \in Nat
    OBVIOUS
  <2>2. \A k \in 1..(2 * (i - 1)) : k % 2 = 1 => (k + 1) \div 2 \in 1..m
    OBVIOUS
  <2>3. \A k \in 1..(2 * (i - 1)) : s[k] \in L
    BY <2>2 DEF Turns
  <2>4. s \in [1..(2 * (i - 1)) -> L]
    <3> HIDE DEF L
    <3> QED BY <2>3 DEF Turns
  <2> HIDE DEF L, s
  <2>5. PICK n \in Nat : n = 2 * (i - 1)
    BY <2>1
  <2> QED BY <2>5, <2>4
<1>2. g \in Seq(L) /\ Len(g) = 2 /\ g[1] = [is |-> "agent", value |-> order[i]] /\ g[2] = [is |-> "allow", value |-> "/"]
  BY TurnOfGroup DEF T!Group
<1>3. /\ s \o g \in Seq(L) /\ Len(s \o g) = 2 * i
      /\ \A k \in 1..(2 * i) : (s \o g)[k] = IF k <= 2 * (i - 1) THEN s[k] ELSE g[k - 2 * (i - 1)]
  <2> HIDE DEF L, s, g
  <2>1. s \o g \in Seq(L) /\ Len(s \o g) = Len(s) + Len(g)
        /\ \A k \in 1..(Len(s) + Len(g)) : (s \o g)[k] = IF k <= Len(s) THEN s[k] ELSE g[k - Len(s)]
    BY <1>1, <1>2, ConcatProperties
  <2> QED BY <2>1, <1>1, <1>2
<1>4. \A k \in 1..(2 * i) : u[k] = IF k % 2 = 1 THEN [is |-> "agent", value |-> order[(k + 1) \div 2]] ELSE [is |-> "allow", value |-> "/"]
  BY DEF Turns
<1>5. \A k \in 1..(2 * (i - 1)) : s[k] = u[k]
  BY <1>4 DEF Turns
<1>7. u[2 * i - 1] = g[1] /\ u[2 * i] = g[2]
  <2>1. /\ 2 * i - 1 \in 1..(2 * i) /\ (2 * i - 1) % 2 = 1 /\ ((2 * i - 1) + 1) \div 2 = i
        /\ 2 * i \in 1..(2 * i) /\ (2 * i) % 2 # 1
    OBVIOUS
  <2> QED BY <2>1, <1>2, <1>4
<1>8. \A k \in 1..(2 * i) : (s \o g)[k] = u[k]
  <2> HIDE DEF s, g, u
  <2> TAKE k \in 1..(2 * i)
  <2>1. CASE k <= 2 * (i - 1)
    BY <2>1, <1>3, <1>5
  <2>2. CASE k = 2 * i - 1
    <3>1. k - 2 * (i - 1) = 1 /\ ~(k <= 2 * (i - 1))
      BY <2>2
    <3> QED BY <3>1, <2>2, <1>3, <1>7
  <2>3. CASE k = 2 * i
    <3>1. k - 2 * (i - 1) = 2 /\ ~(k <= 2 * (i - 1))
      BY <2>3
    <3> QED BY <3>1, <2>3, <1>3, <1>7
  <2>4. k > 2 * (i - 1) => (k = 2 * i - 1 \/ k = 2 * i)
    OBVIOUS
  <2>5. k <= 2 * (i - 1) \/ k > 2 * (i - 1)
    OBVIOUS
  <2> QED BY <2>1, <2>2, <2>3, <2>4, <2>5
<1>9. u = [k \in 1..(2 * i) |-> u[k]]
  BY DEF Turns
<1>10. s \o g = [k \in 1..(2 * i) |-> (s \o g)[k]]
  <2> HIDE DEF s, g, L
  <2>1. PICK q \in Seq(L) : q = s \o g /\ Len(q) = 2 * i
    BY <1>3
  <2>2. q = [k \in 1..Len(q) |-> q[k]]
    OBVIOUS
  <2> QED BY <2>1, <2>2
<1> HIDE DEF s, g, u
<1>11. [k \in 1..(2 * i) |-> (s \o g)[k]] = [k \in 1..(2 * i) |-> u[k]]
  BY <1>8
<1>12. s \o g = u
  BY <1>9, <1>10, <1>11
<1> QED BY <1>12 DEF s, g, u

LEMMA FirstTurns ==
  ASSUME NEW order
  PROVE  Turns(order, 1) = T!Group(order[1], "allow")
<1> DEFINE s == T!Group(order[1], "allow")
<1>1. s = [k \in 1..2 |-> s[k]] /\ s[1] = [is |-> "agent", value |-> order[1]] /\ s[2] = [is |-> "allow", value |-> "/"]
  BY DEF T!Group
<1>2. Turns(order, 1) = [k \in 1..2 |-> IF k % 2 = 1 THEN [is |-> "agent", value |-> order[(k + 1) \div 2]]
                                        ELSE [is |-> "allow", value |-> "/"]]
  <2>1. PICK o \in Nat : o = 1
    OBVIOUS
  <2>2. 2 * o = 2
    BY <2>1
  <2> QED BY <2>1, <2>2 DEF Turns
<1>3. \A k \in 1..2 : (IF k % 2 = 1 THEN [is |-> "agent", value |-> order[(k + 1) \div 2]]
                                        ELSE [is |-> "allow", value |-> "/"]) = s[k]
  <2> HIDE DEF s
  <2>1. \A k \in 1..2 : (k = 1 /\ k % 2 = 1 /\ (k + 1) \div 2 = 1) \/ (k = 2 /\ k % 2 # 1)
    OBVIOUS
  <2> QED BY <2>1, <1>1
<1> HIDE DEF s
<1> QED BY <1>1, <1>2, <1>3 DEF s

LEMMA GroupsAreTurns ==
  ASSUME NEW A, IsFiniteSet(A)
  PROVE  T!Groups(A) = Turns(T!SetToSeq(A), Cardinality(A))
<1> DEFINE n == Cardinality(A)
           order == T!SetToSeq(A)
           seqs == [i \in 1..n |-> T!Group(order[i], "allow")]
<1>0. T!Cardinality(A) = n
  BY SameCount
<1>1. n \in Nat /\ order \in [1..n -> A]
  BY SetInOrder
<1> HIDE DEF n, order
<1>2. T!Groups(A) = T!FlattenSeq(seqs)
  BY <1>0 DEF T!Groups, n, order
<1>3. Len(seqs) = n
  <2> DEFINE V == {T!Group(order[i], "allow") : i \in 1..n}
  <2>1. seqs \in [1..n -> V]
    OBVIOUS
  <2> HIDE DEF V, seqs
  <2> QED BY <1>1, <2>1
<1>4. CASE n = 0
  <2>1. T!FlattenSeq(seqs) = seqs
    <3> HIDE DEF seqs
    <3> QED BY <1>3, <1>4 DEF T!FlattenSeq
  <2>2. 1..n = {} /\ 1..(2 * n) = {}
    BY <1>4
  <2>3. seqs = Turns(order, n)
    BY <2>2 DEF Turns
  <2> QED BY <1>2, <2>1, <2>3 DEF n, order
<1>5. CASE n # 0
  <2> DEFINE Is(h) == h = [i \in 1..n |-> IF i = 1 THEN seqs[i] ELSE h[i - 1] \o seqs[i]]
             f == [i \in 1..n |-> Turns(order, i)]
  <2>1. \A i \in 1..n : i = 1 => f[i] = seqs[i]
    BY FirstTurns
  <2>2. \A i \in 1..n : i # 1 => f[i] = f[i - 1] \o seqs[i]
    <3> TAKE i \in 1..n
    <3> HAVE i # 1
    <3>1. i > 1 /\ i - 1 \in 1..n
      BY <1>1
    <3>2. Turns(order, i - 1) \o T!Group(order[i], "allow") = Turns(order, i)
      BY <1>1, <3>1, TurnsGrow
    <3> QED BY <3>1, <3>2
  <2>3. Is(f)
    <3>1. f = [i \in 1..n |-> f[i]]
      OBVIOUS
    <3> HIDE DEF f, seqs
    <3> QED BY <2>1, <2>2, <3>1
  <2>4. PICK h : h = (CHOOSE h_1 : Is(h_1)) /\ Is(h)
    <3> HIDE DEF Is
    <3> QED BY <2>3, Zenon
  <2>5. T!FlattenSeq(seqs) = h[n]
    <3> HIDE DEF seqs
    <3>1. h = CHOOSE h_1 : h_1 = [i \in 1..Len(seqs) |-> IF i = 1 THEN seqs[i] ELSE h_1[i - 1] \o seqs[i]]
      BY <2>4, <1>3, Zenon
    <3>2. T!FlattenSeq(seqs) = (CHOOSE h_1 : h_1 = [i \in 1..Len(seqs) |-> IF i = 1 THEN seqs[i] ELSE h_1[i - 1] \o seqs[i]])[Len(seqs)]
      BY <1>3, <1>5, Zenon DEF T!FlattenSeq
    <3> QED BY <3>1, <3>2, <1>3
  <2>6. \A i \in 1..n : h[i] = f[i]
    <3> DEFINE F == {i \in Nat : i + 1 \in 1..n => h[i + 1] = f[i + 1]}
    <3>1. 0 \in F
      <4>1. h[1] = seqs[1]
        <5>1. 1 \in 1..n
          BY <1>1, <1>5
        <5> HIDE DEF seqs
        <5> QED BY <2>4, <5>1
      <4> HIDE DEF f, seqs
      <4> QED BY <4>1, <2>1, <1>1, <1>5
    <3>2. \A i \in Nat : i \in F => i + 1 \in F
      <4> TAKE i \in Nat
      <4> HAVE i \in F
      <4> SUFFICES ASSUME (i + 1) + 1 \in 1..n PROVE h[(i + 1) + 1] = f[(i + 1) + 1]
        OBVIOUS
      <4>1. PICK j \in 1..n : j = (i + 1) + 1
        OBVIOUS
      <4>2. j # 1 /\ j - 1 = i + 1 /\ j - 1 \in 1..n
        BY <4>1, <1>1
      <4>3. h[j] = h[j - 1] \o seqs[j]
        <5> HIDE DEF seqs
        <5> QED BY <2>4, <4>2
      <4>4. h[j - 1] = f[j - 1]
        <5> HIDE DEF f
        <5> QED BY <4>2
      <4> HIDE DEF f, seqs, F
      <4> QED BY <4>1, <4>2, <4>3, <4>4, <2>2
    <3>3. Nat \subseteq F
      <4> HIDE DEF F
      <4> QED BY <3>1, <3>2, NatByStep
    <3> TAKE i \in 1..n
    <3>4. i - 1 \in Nat /\ (i - 1) + 1 = i
      BY <1>1
    <3> HIDE DEF f
    <3> QED BY <3>3, <3>4
  <2>7. h[n] = Turns(order, n)
    BY <2>6, <1>1, <1>5
  <2> QED BY <1>2, <2>5, <2>7 DEF n, order
<1> QED BY <1>4, <1>5

-----------------------------------------------------------------------------
(* A crawler that a group of the fix names has the rule of the group for its first; one    *)
(* that none of them names reads what it read before.                                      *)

SearchNames == {"Googlebot", "Bingbot", "Applebot"}
Agent(a) == [is |-> "agent", value |-> a]
Welcome == [is |-> "allow", value |-> "/"]
Welcomed(st) == st.on /\ st.rules # << >> /\ st.rules[1] = Welcome

LEMMA SearchCrawlersAre == DOMAIN T!SearchCrawlers = SearchNames
BY DEF T!SearchCrawlers, SearchNames

LEMMA SearchNamesFinite == IsFiniteSet(SearchNames)
<1>1. IsFiniteSet({}) /\ SearchNames = (({} \cup {"Googlebot"}) \cup {"Bingbot"}) \cup {"Applebot"}
  BY FS_EmptySet DEF SearchNames
<1>2. IsFiniteSet({} \cup {"Googlebot"})
  BY <1>1, FS_AddElement
<1>3. IsFiniteSet(({} \cup {"Googlebot"}) \cup {"Bingbot"})
  BY <1>2, FS_AddElement
<1>4. IsFiniteSet((({} \cup {"Googlebot"}) \cup {"Bingbot"}) \cup {"Applebot"})
  BY <1>3, FS_AddElement
<1> QED BY <1>1, <1>4

LEMMA FixLinesAreLines ==
  /\ Welcome \in T!Lines
  /\ \A a \in SearchNames : Agent(a) \in T!Lines
BY DEF Welcome, Agent, SearchNames, T!Lines, T!Agents, T!Crawlers, T!Checked, T!SearchCrawlers

LEMMA NamedAlone ==
  ASSUME NEW a \in SearchNames, NEW c \in T!Crawlers
  PROVE  a # "" /\ (c \in T!Named(a) <=> c = a)
<1>1. SearchNames \subseteq T!Crawlers
  BY DEF SearchNames, T!Crawlers, T!Checked, T!SearchCrawlers
<1>2. T!Named(a) = T!Crawlers \cap {a}
  BY DEF T!Named, SearchNames
<1> QED BY <1>1, <1>2 DEF SearchNames

LEMMA GroupRead ==
  ASSUME NEW a \in SearchNames, NEW c \in T!Crawlers, NEW st \in States,
         Welcomed(st) \/ st = Unread
  PROVE  LET after == T!Read(T!Read(st, Agent(a), c), Welcome, c)
         IN  /\ after \in States
             /\ (Welcomed(st) \/ c = a) => Welcomed(after)
             /\ ~(Welcomed(st) \/ c = a) => after = Unread
<1> PICK s1 : s1 = T!Read(st, Agent(a), c)
  OBVIOUS
<1> PICK s2 : s2 = T!Read(s1, Welcome, c)
  OBVIOUS
<1>1. Agent(a).is = "agent" /\ Agent(a).value = a /\ Agent(a) \in T!Lines
  BY FixLinesAreLines DEF Agent
<1>2. Welcome.is # "agent" /\ Welcome.value # "" /\ Welcome \in T!Lines
  BY FixLinesAreLines DEF Welcome
<1>3. /\ s1 \in States /\ s1.rules = st.rules
      /\ s1.on = (a # "" /\ (st.on \/ c \in T!Named(a)))
  <2>1. PICK line \in T!Lines : line = Agent(a)
    BY <1>1
  <2>2. /\ T!Read(st, line, c) \in States
        /\ line.is = "agent" =>
              /\ T!Read(st, line, c).rules = st.rules
              /\ T!Read(st, line, c).on = (line.value # "" /\ (st.on \/ c \in T!Named(line.value)))
    BY ReadStep, Zenon
  <2> QED BY <1>1, <2>1, <2>2, Zenon
<1>4. s1.on <=> (st.on \/ c = a)
  BY <1>3, NamedAlone
<1>5. /\ s2 \in States /\ s2.on = s1.on
      /\ s1.on => s2.rules = Append(s1.rules, Welcome)
      /\ ~s1.on => s2.rules = s1.rules
  <2>1. PICK line \in T!Lines : line = Welcome
    BY <1>2
  <2>2. s1 \in States
    BY <1>3
  <2>3. /\ T!Read(s1, line, c) \in States
        /\ line.is # "agent" =>
              /\ T!Read(s1, line, c).on = s1.on
              /\ (s1.on /\ line.value # "") => T!Read(s1, line, c).rules = Append(s1.rules, line)
              /\ ~(s1.on /\ line.value # "") => T!Read(s1, line, c).rules = s1.rules
    BY <2>2, ReadStep, Zenon
  <2> QED BY <1>2, <2>1, <2>3, Zenon
<1>6. st.rules \in Seq(T!Lines)
  BY DEF States
<1>7. ASSUME Welcomed(st) \/ c = a PROVE Welcomed(s2)
  <2>1. s1.on
    BY <1>4, <1>7 DEF Welcomed
  <2>2. s2.on /\ s2.rules = Append(st.rules, Welcome)
    BY <2>1, <1>3, <1>5
  <2>3. PICK r \in Seq(T!Lines) : r = st.rules
    BY <1>6
  <2>4. Len(Append(r, Welcome)) = Len(r) + 1 /\ Append(r, Welcome)[Len(r) + 1] = Welcome
        /\ \A i \in 1..Len(r) : Append(r, Welcome)[i] = r[i]
    <3>1. PICK line \in T!Lines : line = Welcome
      BY <1>2
    <3>2. Len(Append(r, line)) = Len(r) + 1 /\ Append(r, line)[Len(r) + 1] = line
          /\ \A i \in 1..Len(r) : Append(r, line)[i] = r[i]
      BY AppendProperties
    <3> QED BY <3>1, <3>2
  <2>5. CASE r = << >>
    BY <2>2, <2>3, <2>4, <2>5 DEF Welcomed
  <2>6. CASE r # << >>
    <3>1. r[1] = Welcome /\ 1 \in 1..Len(r)
      BY <2>3, <2>6 DEF Welcomed, Unread
    <3> QED BY <2>2, <2>3, <2>4, <3>1 DEF Welcomed
  <2> QED BY <2>5, <2>6
<1>8. ASSUME ~(Welcomed(st) \/ c = a) PROVE s2 = Unread
  <2>1. st = Unread /\ ~st.on
    BY <1>8 DEF Unread
  <2>2. ~s1.on
    BY <1>4, <1>8, <2>1
  <2>3. s2.on = FALSE /\ s2.rules = << >>
    BY <2>1, <2>2, <1>3, <1>5 DEF Unread, States
  <2> QED BY <2>3, <1>5 DEF Unread, States
<1> QED BY <1>5, <1>7, <1>8

LEMMA GroupsAreLines ==
  ASSUME NEW A \in SUBSET SearchNames
  PROVE  LET n == Cardinality(A)
             order == T!SetToSeq(A)
             G == T!Groups(A)
         IN  /\ n \in Nat /\ order \in [1..n -> A] /\ (\A a \in A : \E i \in 1..n : order[i] = a)
             /\ G \in Seq(T!Lines) /\ Len(G) = 2 * n
             /\ \A i \in 1..n : G[2 * i - 1] = Agent(order[i]) /\ G[2 * i] = Welcome
<1> DEFINE n == Cardinality(A)
           order == T!SetToSeq(A)
           G == T!Groups(A)
<1>1. IsFiniteSet(A)
  BY SearchNamesFinite, FS_Subset
<1>2. n \in Nat /\ order \in [1..n -> A] /\ (\A a \in A : \E i \in 1..n : order[i] = a)
  BY <1>1, SetInOrder
<1>3. G = Turns(order, n)
  BY <1>1, GroupsAreTurns
<1> HIDE DEF n, order
<1>4. /\ G \in Seq(T!Lines) /\ Len(G) = 2 * n
      /\ \A i \in 1..n : G[2 * i - 1] = Agent(order[i]) /\ G[2 * i] = Welcome
  <2>1. /\ G \in Seq({[is |-> "agent", value |-> a] : a \in A} \cup {[is |-> "allow", value |-> "/"]})
        /\ Len(G) = 2 * n
        /\ \A i \in 1..n : /\ G[2 * i - 1] = [is |-> "agent", value |-> order[i]]
                           /\ G[2 * i] = [is |-> "allow", value |-> "/"]
    <3>1. PICK k \in Nat : k = n
      BY <1>2
    <3>2. PICK o \in [1..k -> A] : o = order
      BY <1>2, <3>1
    <3>3. /\ Turns(o, k) \in Seq({[is |-> "agent", value |-> a] : a \in A} \cup {[is |-> "allow", value |-> "/"]})
          /\ Len(Turns(o, k)) = 2 * k
          /\ \A i \in 1..k : /\ Turns(o, k)[2 * i - 1] = [is |-> "agent", value |-> o[i]]
                             /\ Turns(o, k)[2 * i] = [is |-> "allow", value |-> "/"]
      BY TurnsAreLines
    <3> HIDE DEF G
    <3> QED BY <1>3, <3>1, <3>2, <3>3
  <2>2. ({[is |-> "agent", value |-> a] : a \in A} \cup {[is |-> "allow", value |-> "/"]}) \subseteq T!Lines
    BY FixLinesAreLines DEF Agent, Welcome
  <2>3. G \in Seq(T!Lines)
    <3> DEFINE L == {[is |-> "agent", value |-> a] : a \in A} \cup {[is |-> "allow", value |-> "/"]}
    <3> HIDE DEF L, G
    <3>1. G \in Seq(L) /\ L \subseteq T!Lines
      BY <2>1, <2>2 DEF L
    <3> QED BY <3>1
  <2> HIDE DEF G
  <2> QED BY <2>1, <2>3 DEF Agent, Welcome
<1> QED BY <1>2, <1>4 DEF n, order

LEMMA FixRead ==
  ASSUME NEW A \in SUBSET SearchNames, NEW R \in Seq(T!Lines), NEW c \in T!Crawlers
  PROVE  LET n == Cardinality(A)
             order == T!SetToSeq(A)
             file == T!Groups(A) \o R
         IN  /\ file \in Seq(T!Lines) /\ Len(file) = 2 * n + Len(R) /\ n \in Nat
             /\ \A i \in 1..Len(R) : file[2 * n + i] = R[i]
             /\ \A g : Reading(g, file, c) =>
                  \A i \in 0..n : IF \E j \in 1..i : order[j] = c
                                  THEN Welcomed(g[2 * i]) ELSE g[2 * i] = Unread
             /\ c \in A <=> \E j \in 1..n : order[j] = c
<1> DEFINE n == Cardinality(A)
           order == T!SetToSeq(A)
           G == T!Groups(A)
           file == G \o R
<1>2. n \in Nat /\ order \in [1..n -> A] /\ (\A a \in A : \E i \in 1..n : order[i] = a)
  BY GroupsAreLines
<1>4. /\ G \in Seq(T!Lines) /\ Len(G) = 2 * n
      /\ \A i \in 1..n : G[2 * i - 1] = Agent(order[i]) /\ G[2 * i] = Welcome
  BY GroupsAreLines
<1> HIDE DEF n, order
<1> HIDE DEF G
<1>5. /\ file \in Seq(T!Lines) /\ Len(file) = 2 * n + Len(R)
      /\ \A i \in 1..(2 * n) : file[i] = G[i]
      /\ \A i \in 1..Len(R) : file[2 * n + i] = R[i]
  <2>1. file \in Seq(T!Lines) /\ Len(file) = Len(G) + Len(R)
        /\ \A i \in 1..(Len(G) + Len(R)) : file[i] = IF i <= Len(G) THEN G[i] ELSE R[i - Len(G)]
    BY <1>4, ConcatProperties
  <2> HIDE DEF file
  <2>2. PICK k \in Nat : k = Len(G)
    BY <1>4
  <2>3. PICK l \in Nat : l = Len(R)
    OBVIOUS
  <2>4. \A i \in 1..l : k + i \in 1..(k + l) /\ ~(k + i <= k) /\ (k + i) - k = i
    OBVIOUS
  <2>5. \A i \in 1..k : i \in 1..(k + l) /\ i <= k
    OBVIOUS
  <2>6. k = 2 * n
    BY <2>2, <1>4
  <2>7. \A i \in 1..k : file[i] = G[i]
    BY <2>1, <2>2, <2>3, <2>5
  <2>8. \A i \in 1..l : file[k + i] = R[i]
    BY <2>1, <2>2, <2>3, <2>4
  <2> QED BY <2>1, <2>2, <2>3, <2>6, <2>7, <2>8
<1> HIDE DEF file
<1>6. ASSUME NEW g, Reading(g, file, c)
      PROVE  \A i \in 0..n : IF \E j \in 1..i : order[j] = c
                             THEN Welcomed(g[2 * i]) ELSE g[2 * i] = Unread
  <2> DEFINE Ok(i) == IF \E j \in 1..i : order[j] = c THEN Welcomed(g[2 * i]) ELSE g[2 * i] = Unread
             F == {i \in Nat : i <= n => g[2 * i] \in States /\ Ok(i)}
  <2>1. 0 \in F
    <3>1. g[0] = Unread /\ 2 * 0 = 0 /\ 1..0 = {} /\ g[0] \in States
      BY <1>6, <1>5 DEF Reading, States, Unread
    <3> QED BY <3>1
  <2>2. \A i \in Nat : i \in F => i + 1 \in F
    <3> TAKE i \in Nat
    <3> HAVE i \in F
    <3> SUFFICES ASSUME i + 1 <= n PROVE g[2 * (i + 1)] \in States /\ Ok(i + 1)
      OBVIOUS
    <3>1. PICK k \in 1..n : k = i + 1
      BY <1>2
    <3>2. g[2 * i] \in States /\ Ok(i)
      BY <1>2
    <3>3. 2 * k - 1 \in 1..Len(file) /\ 2 * k \in 1..Len(file) /\ (2 * k - 1) - 1 = 2 * i
      <4>1. Len(R) \in Nat
        OBVIOUS
      <4> QED BY <4>1, <3>1, <1>5, <1>2
    <3>4. file[2 * k - 1] = Agent(order[k]) /\ file[2 * k] = Welcome
      <4>1. 2 * k - 1 \in 1..(2 * n) /\ 2 * k \in 1..(2 * n)
        BY <1>2
      <4> QED BY <4>1, <1>4, <1>5
    <3>5. g[2 * k - 1] = T!Read(g[2 * i], Agent(order[k]), c)
      BY <1>6, <3>3, <3>4 DEF Reading
    <3>6. g[2 * k] = T!Read(g[2 * k - 1], Welcome, c)
      BY <1>6, <3>3, <3>4 DEF Reading
    <3>7. order[k] \in SearchNames
      BY <1>2
    <3>8. PICK st, a, after : st = g[2 * i] /\ a = order[k] /\ after = g[2 * k]
                             /\ st \in States /\ a \in SearchNames
      BY <3>2, <3>7
    <3>9. after = T!Read(T!Read(st, Agent(a), c), Welcome, c)
      BY <3>5, <3>6, <3>8
    <3>10. Welcomed(st) \/ st = Unread
      BY <3>2, <3>8
    <3>11. /\ after \in States
           /\ (Welcomed(st) \/ c = a) => Welcomed(after)
           /\ ~(Welcomed(st) \/ c = a) => after = Unread
      BY <3>8, <3>9, <3>10, GroupRead
    <3>12. (\E j \in 1..k : order[j] = c) <=> ((\E j \in 1..i : order[j] = c) \/ a = c)
      BY <3>1, <3>8
    <3>13. ~Welcomed(Unread)
      BY DEF Welcomed, Unread
    <3>14. Welcomed(st) <=> \E j \in 1..i : order[j] = c
      BY <3>2, <3>8, <3>13
    <3>15. Ok(k)
      BY <3>8, <3>11, <3>12, <3>14
    <3> HIDE DEF Ok
    <3> QED BY <3>1, <3>8, <3>11, <3>15
  <2>3. Nat \subseteq F
    <3> HIDE DEF F
    <3> QED BY <2>1, <2>2, NatByStep
  <2> QED BY <2>3, <1>2
<1>7. c \in A <=> \E j \in 1..n : order[j] = c
  BY <1>2
<1> QED BY <1>2, <1>5, <1>6, <1>7 DEF n, order, file, G

LEMMA ReadingStep ==
  ASSUME NEW file \in Seq(T!Lines), NEW c, NEW g, Reading(g, file, c), NEW i \in Nat, i + 1 <= Len(file)
  PROVE  /\ g[i] \in States /\ g[i + 1] \in States /\ file[i + 1] \in T!Lines
         /\ g[i + 1] = T!Read(g[i], file[i + 1], c)
         /\ g[i + 1].rules = g[i].rules \/ g[i + 1].rules = Append(g[i].rules, file[i + 1])
<1>1. PICK k \in 1..Len(file) : k = i + 1
  BY SMT
<1>2. k - 1 = i /\ i \in 0..Len(file) /\ k \in 0..Len(file)
  BY <1>1
<1>3. g[k] = T!Read(g[k - 1], file[k], c)
  BY DEF Reading
<1>4. g[i] \in States /\ g[k] \in States
  BY <1>2 DEF Reading
<1>5. PICK st \in States, line \in T!Lines : st = g[i] /\ line = file[k]
  BY <1>4
<1>6. T!Read(st, line, c).rules = st.rules \/ T!Read(st, line, c).rules = Append(st.rules, line)
  <2>1. /\ line.is = "agent" => T!Read(st, line, c).rules = st.rules
        /\ line.is # "agent" =>
              /\ (st.on /\ line.value # "") => T!Read(st, line, c).rules = Append(st.rules, line)
              /\ ~(st.on /\ line.value # "") => T!Read(st, line, c).rules = st.rules
    BY ReadStep, Zenon
  <2> QED BY <2>1, Zenon
<1> QED BY <1>1, <1>2, <1>3, <1>4, <1>5, <1>6

LEMMA ReadingGoes ==
  ASSUME NEW file \in Seq(T!Lines), NEW c, NEW g, Reading(g, file, c)
  PROVE  \A k \in Nat : k + 1 <= Len(file) => g[k + 1] = T!Read(g[k], file[k + 1], c)
BY ReadingStep

\* Every rule is a line of the file.
LEMMA RulesFromLines ==
  ASSUME NEW file \in Seq(T!Lines), NEW c, NEW g, Reading(g, file, c)
  PROVE  \A i \in 0..Len(file) : \A k \in DOMAIN g[i].rules : \E j \in DOMAIN file : file[j] = g[i].rules[k]
<1> DEFINE From(i) == \A k \in DOMAIN g[i].rules : \E j \in DOMAIN file : file[j] = g[i].rules[k]
           F == {i \in Nat : i <= Len(file) => From(i)}
<1>1. 0 \in F
  <2>1. g[0].rules = << >>
    BY DEF Reading, Unread
  <2> QED BY <2>1
<1>2. \A i \in Nat : i \in F => i + 1 \in F
  <2> TAKE i \in Nat
  <2> HAVE i \in F
  <2> SUFFICES ASSUME i + 1 <= Len(file) PROVE From(i + 1)
    OBVIOUS
  <2>1. /\ g[i] \in States /\ file[i + 1] \in T!Lines
        /\ g[i + 1].rules = g[i].rules \/ g[i + 1].rules = Append(g[i].rules, file[i + 1])
    BY ReadingStep
  <2>2. i + 1 \in DOMAIN file /\ From(i)
    BY SMT
  <2>3. PICK r \in Seq(T!Lines), line \in T!Lines : r = g[i].rules /\ line = file[i + 1]
    BY <2>1 DEF States
  <2>4. /\ DOMAIN Append(r, line) = 1..(Len(r) + 1) /\ Append(r, line)[Len(r) + 1] = line
        /\ \A k \in 1..Len(r) : Append(r, line)[k] = r[k]
        /\ DOMAIN r = 1..Len(r) /\ Len(r) \in Nat
    BY AppendProperties
  <2>5. \A k \in 1..(Len(r) + 1) : k \in 1..Len(r) \/ k = Len(r) + 1
    BY <2>4
  <2>6. \A k \in DOMAIN Append(r, line) : \E j \in DOMAIN file : file[j] = Append(r, line)[k]
    BY <2>2, <2>3, <2>4, <2>5
  <2> QED BY <2>1, <2>2, <2>3, <2>6
<1>3. Nat \subseteq F
  <2> HIDE DEF F
  <2> QED BY <1>1, <1>2, NatByStep
<1> QED BY <1>3

\* The first rule stays the first.
LEMMA FirstRuleStays ==
  ASSUME NEW file \in Seq(T!Lines), NEW c, NEW g, Reading(g, file, c), NEW p \in Nat, p <= Len(file),
         Welcomed(g[p])
  PROVE  g[Len(file)].rules # << >> /\ g[Len(file)].rules[1] = Welcome
<1> DEFINE Fst(i) == g[i].rules # << >> /\ g[i].rules[1] = Welcome
           F == {i \in Nat : p + i <= Len(file) => Fst(p + i)}
<1>1. 0 \in F
  BY DEF Welcomed
<1>2. \A i \in Nat : i \in F => i + 1 \in F
  <2> TAKE i \in Nat
  <2> HAVE i \in F
  <2> SUFFICES ASSUME p + (i + 1) <= Len(file) PROVE Fst(p + (i + 1))
    OBVIOUS
  <2>1. PICK k \in Nat : k = p + i
    OBVIOUS
  <2>2. k + 1 <= Len(file) /\ p + (i + 1) = k + 1 /\ Fst(k)
    BY <2>1
  <2>3. /\ g[k] \in States /\ file[k + 1] \in T!Lines
        /\ g[k + 1].rules = g[k].rules \/ g[k + 1].rules = Append(g[k].rules, file[k + 1])
    BY <2>2, ReadingStep
  <2>4. PICK r \in Seq(T!Lines), line \in T!Lines : r = g[k].rules /\ line = file[k + 1]
    BY <2>3 DEF States
  <2>5. Append(r, line) # << >> /\ Append(r, line)[1] = r[1]
    <3>1. 1 \in 1..Len(r)
      BY <2>2, <2>4
    <3> QED BY <3>1, AppendProperties
  <2>6. Fst(k + 1)
    BY <2>2, <2>3, <2>4, <2>5
  <2> QED BY <2>2, <2>6
<1>3. Nat \subseteq F
  <2> HIDE DEF F
  <2> QED BY <1>1, <1>2, NatByStep
<1>4. PICK i \in Nat : p + i = Len(file)
  <2>1. Len(file) - p \in Nat /\ p + (Len(file) - p) = Len(file)
    OBVIOUS
  <2> QED BY <2>1
<1> QED BY <1>3, <1>4

\* Below lines that leave nothing, a file reads as it would alone.
LEMMA ReadsAlone ==
  ASSUME NEW file \in Seq(T!Lines), NEW R \in Seq(T!Lines), NEW c, NEW g, NEW h,
         Reading(g, file, c), Reading(h, R, c), NEW p \in Nat, Len(file) = p + Len(R),
         \A i \in 1..Len(R) : file[p + i] = R[i], g[p] = Unread
  PROVE  g[Len(file)] = h[Len(R)]
<1> DEFINE F == {i \in Nat : i <= Len(R) => g[p + i] = h[i]}
<1>0. \A k \in Nat : k + 1 <= Len(file) => g[k + 1] = T!Read(g[k], file[k + 1], c)
  BY ReadingGoes
<1>1. 0 \in F
  BY DEF Reading
<1>2. \A i \in Nat : i \in F => i + 1 \in F
  <2> TAKE i \in Nat
  <2> HAVE i \in F
  <2> SUFFICES ASSUME i + 1 <= Len(R) PROVE g[p + (i + 1)] = h[i + 1]
    OBVIOUS
  <2>1. PICK k \in Nat : k = p + i
    OBVIOUS
  <2>2. PICK l \in Nat : l = Len(R)
    OBVIOUS
  <2>3. k + 1 <= Len(file) /\ p + (i + 1) = k + 1 /\ i + 1 \in 1..Len(R)
    BY <2>1, <2>2
  <2>4. g[k] = h[i]
    BY <2>1, <2>2
  <2>5. g[k + 1] = T!Read(g[k], file[k + 1], c)
    BY <1>0, <2>3
  <2>6. h[i + 1] = T!Read(h[i], R[i + 1], c)
    BY ReadingStep
  <2>7. file[p + (i + 1)] = R[i + 1]
    BY <2>3
  <2> HIDE DEF F
  <2> QED BY <2>3, <2>4, <2>5, <2>6, <2>7
<1>3. Nat \subseteq F
  <2> HIDE DEF F
  <2> QED BY <1>1, <1>2, NatByStep
<1> QED BY <1>3

Patterned(file) == \E i \in DOMAIN file : file[i].value = "/*"

\* The fix leaves a crawler that it does not name what it had.
LEMMA FixKeeps ==
  ASSUME NEW A \in SUBSET SearchNames, NEW R \in Seq(T!Lines), NEW c \in T!Crawlers, c \notin A
  PROVE  T!Allowed(T!Groups(A) \o R, c) = T!Allowed(R, c)
<1> DEFINE n == Cardinality(A)
           order == T!SetToSeq(A)
           file == T!Groups(A) \o R
<1>1. /\ file \in Seq(T!Lines) /\ Len(file) = 2 * n + Len(R) /\ n \in Nat
      /\ \A i \in 1..Len(R) : file[2 * n + i] = R[i]
      /\ \A g : Reading(g, file, c) =>
           \A i \in 0..n : IF \E j \in 1..i : order[j] = c
                           THEN Welcomed(g[2 * i]) ELSE g[2 * i] = Unread
      /\ c \in A <=> \E j \in 1..n : order[j] = c
  BY FixRead
<1> HIDE DEF n, order, file
<1>2. PICK g : Reading(g, file, c) /\ T!Rules(file, c) = g[Len(file)].rules
  BY <1>1, RulesAreRead
<1>3. IF c \in A THEN Welcomed(g[2 * n]) ELSE g[2 * n] = Unread
  <2>1. n \in 0..n
    BY <1>1
  <2> QED BY <1>1, <1>2, <2>1
<1>4. 2 * n \in Nat /\ 2 * n <= Len(file)
  <2>1. Len(R) \in Nat
    OBVIOUS
  <2> QED BY <1>1, <2>1
<1>5. PICK h : Reading(h, R, c) /\ T!Rules(R, c) = h[Len(R)].rules
  BY RulesAreRead
<1>6. PICK p \in Nat : p = 2 * n
  BY <1>4
<1>7. g[Len(file)] = h[Len(R)]
  BY <1>1, <1>2, <1>3, <1>5, <1>6, ReadsAlone
<1>8. T!Rules(file, c) = T!Rules(R, c)
  BY <1>2, <1>5, <1>7
<1> QED BY <1>8 DEF T!Allowed, file

\* The fix lets every search engine in that it names, and keeps out none that came in before.
LEMMA FixAllows ==
  ASSUME NEW A \in SUBSET SearchNames, NEW R \in Seq(T!Lines), NEW c \in T!Crawlers,
         c \in A \/ T!Allowed(R, c), ~Patterned(T!Groups(A) \o R)
  PROVE  T!Allowed(T!Groups(A) \o R, c)
<1> DEFINE n == Cardinality(A)
           order == T!SetToSeq(A)
           file == T!Groups(A) \o R
<1>1. /\ file \in Seq(T!Lines) /\ Len(file) = 2 * n + Len(R) /\ n \in Nat
      /\ \A i \in 1..Len(R) : file[2 * n + i] = R[i]
      /\ \A g : Reading(g, file, c) =>
           \A i \in 0..n : IF \E j \in 1..i : order[j] = c
                           THEN Welcomed(g[2 * i]) ELSE g[2 * i] = Unread
      /\ c \in A <=> \E j \in 1..n : order[j] = c
  BY FixRead
<1> HIDE DEF n, order, file
<1>2. PICK g : Reading(g, file, c) /\ T!Rules(file, c) = g[Len(file)].rules
  BY <1>1, RulesAreRead
<1>3. IF c \in A THEN Welcomed(g[2 * n]) ELSE g[2 * n] = Unread
  <2>1. n \in 0..n
    BY <1>1
  <2> QED BY <1>1, <1>2, <2>1
<1>4. 2 * n \in Nat /\ 2 * n <= Len(file)
  <2>1. Len(R) \in Nat
    OBVIOUS
  <2> QED BY <1>1, <2>1
<1>5. CASE c \in A
  <2> DEFINE rules == T!Rules(file, c)
  <2>1. rules # << >> /\ rules[1] = Welcome
    BY <1>1, <1>2, <1>3, <1>4, <1>5, FirstRuleStays
  <2>2. rules \in Seq(T!Lines)
    <3>1. Len(file) \in 0..Len(file)
      BY <1>1
    <3> QED BY <3>1, <1>2 DEF Reading, States
  <2>3. \A k \in DOMAIN rules : \E j \in DOMAIN file : file[j] = rules[k]
    <3>1. Len(file) \in 0..Len(file)
      BY <1>1
    <3>2. \A i \in 0..Len(file) : \A k \in DOMAIN g[i].rules : \E j \in DOMAIN file : file[j] = g[i].rules[k]
      <4>1. file \in Seq(T!Lines)
        BY <1>1
      <4>2. Reading(g, file, c)
        BY <1>2
      <4> QED BY <4>1, <4>2, RulesFromLines
    <3> QED BY <3>1, <3>2, <1>2
  <2> HIDE DEF rules
  <2>4. T!For(rules, "/*") = {}
    BY <2>3 DEF T!For, Patterned, file
  <2>5. 1 \in T!For(rules, "/") /\ \A i \in T!For(rules, "/") : i \in Nat /\ 1 <= i
    BY <2>1, <2>2 DEF T!For, Welcome
  <2>6. T!Min(T!For(rules, "/")) = 1
    <3> DEFINE S == T!For(rules, "/")
    <3> HIDE DEF S
    <3>1. 1 \in S /\ \A i \in S : i \in Nat /\ 1 <= i
      BY <2>5 DEF S
    <3>2. T!Min(S) \in S /\ \A y \in S : T!Min(S) <= y
      BY <3>1 DEF T!Min
    <3>3. T!Min(S) = 1
      BY <3>1, <3>2
    <3> QED BY <3>3 DEF S
  <2>7. rules[1].is = "allow"
    BY <2>1 DEF Welcome
  <2> QED BY <2>4, <2>6, <2>7 DEF T!Allowed, rules, file
<1>6. CASE c \notin A
  BY <1>6, FixKeeps
<1> QED BY <1>5, <1>6

-----------------------------------------------------------------------------
(* The points of the crawlers that may come in. *)

LEMMA EarnedIs ==
  ASSUME NEW weights, NEW blocked
  PROVE  T!Earned(weights, blocked) = SumOn(weights, DOMAIN weights \ blocked)
BY Zenon DEF T!Earned, T!MapThenSumSet, T!MapThenFoldSet, SumOn, AddsUp

LEMMA SearchEarned ==
  ASSUME NEW blocked
  PROVE  T!Earned(T!SearchCrawlers, blocked) =
           (IF "Googlebot" \in blocked THEN 0 ELSE 35) + (IF "Bingbot" \in blocked THEN 0 ELSE 20)
             + (IF "Applebot" \in blocked THEN 0 ELSE 5)
<1> DEFINE w == T!SearchCrawlers
<1>1. w["Googlebot"] = 35 /\ w["Bingbot"] = 20 /\ w["Applebot"] = 5 /\ DOMAIN w = SearchNames
  BY SearchCrawlersAre DEF T!SearchCrawlers
<1> HIDE DEF w
<1>2. IsFiniteSet(SearchNames)
  BY SearchNamesFinite
<1>3. Numbers(w, SearchNames)
  BY <1>1, <1>2 DEF Numbers, SearchNames
<1>4. SearchNames \ {"Googlebot"} = {"Bingbot", "Applebot"} /\ "Googlebot" \in SearchNames
      /\ {"Bingbot", "Applebot"} \ {"Bingbot"} = {"Applebot"} /\ {"Applebot"} \ {"Applebot"} = {}
  BY DEF SearchNames
<1>5. /\ SumOn(w, SearchNames \ blocked) = (IF "Googlebot" \in blocked THEN 0 ELSE 35) + SumOn(w, {"Bingbot", "Applebot"} \ blocked)
      /\ Numbers(w, {"Bingbot", "Applebot"})
  BY <1>1, <1>3, <1>4, SumLeftOut
<1>6. /\ SumOn(w, {"Bingbot", "Applebot"} \ blocked) = (IF "Bingbot" \in blocked THEN 0 ELSE 20) + SumOn(w, {"Applebot"} \ blocked)
      /\ Numbers(w, {"Applebot"})
  <2>1. "Bingbot" \in {"Bingbot", "Applebot"}
    OBVIOUS
  <2> QED BY <2>1, <1>1, <1>4, <1>5, SumLeftOut
<1>7. SumOn(w, {"Applebot"} \ blocked) = (IF "Applebot" \in blocked THEN 0 ELSE 5) + SumOn(w, {} \ blocked)
  <2>1. "Applebot" \in {"Applebot"}
    OBVIOUS
  <2>2. SumOn(w, {"Applebot"} \ blocked) = (IF "Applebot" \in blocked THEN 0 ELSE w["Applebot"]) + SumOn(w, ({"Applebot"} \ {"Applebot"}) \ blocked)
    <3>1. PICK S : S = {"Applebot"}
      OBVIOUS
    <3>2. Numbers(w, S) /\ "Applebot" \in S
      BY <2>1, <1>6, <3>1
    <3>4. PICK x \in S : x = "Applebot"
      BY <3>2
    <3>3. /\ SumOn(w, S \ blocked) = (IF x \in blocked THEN 0 ELSE w[x]) + SumOn(w, (S \ {x}) \ blocked)
          /\ Numbers(w, S \ {x}) /\ SumOn(w, (S \ {x}) \ blocked) \in Int /\ w[x] \in Int
      BY <3>2, SumLeftOut, Zenon
    <3> QED BY <3>1, <3>3, <3>4, Zenon
  <2> QED BY <2>2, <1>1, <1>4
<1>8. SumOn(w, {} \ blocked) = 0
  <2>1. {} \ blocked = {}
    OBVIOUS
  <2> QED BY <2>1, SumNone
<1>9. T!Earned(w, blocked) = SumOn(w, SearchNames \ blocked)
  BY <1>1, EarnedIs
<1> QED BY <1>5, <1>6, <1>7, <1>8, <1>9 DEF w

LEMMA AIWeights ==
  /\ DOMAIN T!AICrawlers = {"OAI-SearchBot", "GPTBot", "ChatGPT-User", "Claude-SearchBot", "ClaudeBot", "Claude-User", "PerplexityBot", "Google-Extended", "CCBot"}
  /\ IsFiniteSet(DOMAIN T!AICrawlers) /\ \A c \in DOMAIN T!AICrawlers : T!AICrawlers[c] \in Nat
<1> DEFINE w == T!AICrawlers
           D == {"OAI-SearchBot", "GPTBot", "ChatGPT-User", "Claude-SearchBot", "ClaudeBot", "Claude-User", "PerplexityBot", "Google-Extended", "CCBot"}
<1>1. DOMAIN w = D
  BY DEF T!AICrawlers
<1>3. /\ w["OAI-SearchBot"] = 12
      /\ w["GPTBot"] = 5
      /\ w["ChatGPT-User"] = 4
      /\ w["Claude-SearchBot"] = 8
      /\ w["ClaudeBot"] = 3
      /\ w["Claude-User"] = 3
      /\ w["PerplexityBot"] = 6
      /\ w["Google-Extended"] = 2
      /\ w["CCBot"] = 1
  BY DEF T!AICrawlers
<1>4. \A x \in D : w[x] \in Nat
  BY <1>3
<1> HIDE DEF w
<1>5. IsFiniteSet(D)
  <2>2. IsFiniteSet({"OAI-SearchBot"})
    <3>1. {"OAI-SearchBot"} = {} \cup {"OAI-SearchBot"}
      OBVIOUS
    <3> QED BY <3>1, FS_EmptySet, FS_AddElement
  <2>3. IsFiniteSet({"OAI-SearchBot", "GPTBot"})
    <3>1. {"OAI-SearchBot", "GPTBot"} = {"OAI-SearchBot"} \cup {"GPTBot"}
      OBVIOUS
    <3> QED BY <3>1, <2>2, FS_AddElement
  <2>4. IsFiniteSet({"OAI-SearchBot", "GPTBot", "ChatGPT-User"})
    <3>1. {"OAI-SearchBot", "GPTBot", "ChatGPT-User"} = {"OAI-SearchBot", "GPTBot"} \cup {"ChatGPT-User"}
      OBVIOUS
    <3> QED BY <3>1, <2>3, FS_AddElement
  <2>5. IsFiniteSet({"OAI-SearchBot", "GPTBot", "ChatGPT-User", "Claude-SearchBot"})
    <3>1. {"OAI-SearchBot", "GPTBot", "ChatGPT-User", "Claude-SearchBot"} = {"OAI-SearchBot", "GPTBot", "ChatGPT-User"} \cup {"Claude-SearchBot"}
      OBVIOUS
    <3> QED BY <3>1, <2>4, FS_AddElement
  <2>6. IsFiniteSet({"OAI-SearchBot", "GPTBot", "ChatGPT-User", "Claude-SearchBot", "ClaudeBot"})
    <3>1. {"OAI-SearchBot", "GPTBot", "ChatGPT-User", "Claude-SearchBot", "ClaudeBot"} = {"OAI-SearchBot", "GPTBot", "ChatGPT-User", "Claude-SearchBot"} \cup {"ClaudeBot"}
      OBVIOUS
    <3> QED BY <3>1, <2>5, FS_AddElement
  <2>7. IsFiniteSet({"OAI-SearchBot", "GPTBot", "ChatGPT-User", "Claude-SearchBot", "ClaudeBot", "Claude-User"})
    <3>1. {"OAI-SearchBot", "GPTBot", "ChatGPT-User", "Claude-SearchBot", "ClaudeBot", "Claude-User"} = {"OAI-SearchBot", "GPTBot", "ChatGPT-User", "Claude-SearchBot", "ClaudeBot"} \cup {"Claude-User"}
      OBVIOUS
    <3> QED BY <3>1, <2>6, FS_AddElement
  <2>8. IsFiniteSet({"OAI-SearchBot", "GPTBot", "ChatGPT-User", "Claude-SearchBot", "ClaudeBot", "Claude-User", "PerplexityBot"})
    <3>1. {"OAI-SearchBot", "GPTBot", "ChatGPT-User", "Claude-SearchBot", "ClaudeBot", "Claude-User", "PerplexityBot"} = {"OAI-SearchBot", "GPTBot", "ChatGPT-User", "Claude-SearchBot", "ClaudeBot", "Claude-User"} \cup {"PerplexityBot"}
      OBVIOUS
    <3> QED BY <3>1, <2>7, FS_AddElement
  <2>9. IsFiniteSet({"OAI-SearchBot", "GPTBot", "ChatGPT-User", "Claude-SearchBot", "ClaudeBot", "Claude-User", "PerplexityBot", "Google-Extended"})
    <3>1. {"OAI-SearchBot", "GPTBot", "ChatGPT-User", "Claude-SearchBot", "ClaudeBot", "Claude-User", "PerplexityBot", "Google-Extended"} = {"OAI-SearchBot", "GPTBot", "ChatGPT-User", "Claude-SearchBot", "ClaudeBot", "Claude-User", "PerplexityBot"} \cup {"Google-Extended"}
      OBVIOUS
    <3> QED BY <3>1, <2>8, FS_AddElement
  <2>10. IsFiniteSet({"OAI-SearchBot", "GPTBot", "ChatGPT-User", "Claude-SearchBot", "ClaudeBot", "Claude-User", "PerplexityBot", "Google-Extended", "CCBot"})
    <3>1. {"OAI-SearchBot", "GPTBot", "ChatGPT-User", "Claude-SearchBot", "ClaudeBot", "Claude-User", "PerplexityBot", "Google-Extended", "CCBot"} = {"OAI-SearchBot", "GPTBot", "ChatGPT-User", "Claude-SearchBot", "ClaudeBot", "Claude-User", "PerplexityBot", "Google-Extended"} \cup {"CCBot"}
      OBVIOUS
    <3> QED BY <3>1, <2>9, FS_AddElement
  <2> QED BY <2>10
<1> QED BY <1>1, <1>4, <1>5 DEF w

LEMMA AIEarned ==
  ASSUME NEW blocked
  PROVE  T!Earned(T!AICrawlers, blocked) \in 0..44
<1> DEFINE w == T!AICrawlers
           D == {"OAI-SearchBot", "GPTBot", "ChatGPT-User", "Claude-SearchBot", "ClaudeBot", "Claude-User", "PerplexityBot", "Google-Extended", "CCBot"}
<1>1. DOMAIN w = D
  BY DEF T!AICrawlers
<1>3. /\ w["OAI-SearchBot"] = 12
      /\ w["GPTBot"] = 5
      /\ w["ChatGPT-User"] = 4
      /\ w["Claude-SearchBot"] = 8
      /\ w["ClaudeBot"] = 3
      /\ w["Claude-User"] = 3
      /\ w["PerplexityBot"] = 6
      /\ w["Google-Extended"] = 2
      /\ w["CCBot"] = 1
  BY DEF T!AICrawlers
<1>4. IsFiniteSet(D) /\ \A x \in D : w[x] \in Nat
  BY <1>1, AIWeights DEF w
<1> HIDE DEF w
<1>2. Numbers(w, D)
  BY <1>4 DEF Numbers
<1>a0. SumOn(w, {"OAI-SearchBot", "GPTBot", "ChatGPT-User", "Claude-SearchBot", "ClaudeBot", "Claude-User", "PerplexityBot", "Google-Extended", "CCBot"}) = 12 + SumOn(w, {"GPTBot", "ChatGPT-User", "Claude-SearchBot", "ClaudeBot", "Claude-User", "PerplexityBot", "Google-Extended", "CCBot"})
      /\ Numbers(w, {"GPTBot", "ChatGPT-User", "Claude-SearchBot", "ClaudeBot", "Claude-User", "PerplexityBot", "Google-Extended", "CCBot"})
  <2>1. {"OAI-SearchBot", "GPTBot", "ChatGPT-User", "Claude-SearchBot", "ClaudeBot", "Claude-User", "PerplexityBot", "Google-Extended", "CCBot"} \ {"OAI-SearchBot"} = {"GPTBot", "ChatGPT-User", "Claude-SearchBot", "ClaudeBot", "Claude-User", "PerplexityBot", "Google-Extended", "CCBot"} /\ "OAI-SearchBot" \in {"OAI-SearchBot", "GPTBot", "ChatGPT-User", "Claude-SearchBot", "ClaudeBot", "Claude-User", "PerplexityBot", "Google-Extended", "CCBot"}
    OBVIOUS
  <2>2. Numbers(w, {"OAI-SearchBot", "GPTBot", "ChatGPT-User", "Claude-SearchBot", "ClaudeBot", "Claude-User", "PerplexityBot", "Google-Extended", "CCBot"})
    BY <1>2
  <2>3. SumOn(w, {"OAI-SearchBot", "GPTBot", "ChatGPT-User", "Claude-SearchBot", "ClaudeBot", "Claude-User", "PerplexityBot", "Google-Extended", "CCBot"}) = w["OAI-SearchBot"] + SumOn(w, {"OAI-SearchBot", "GPTBot", "ChatGPT-User", "Claude-SearchBot", "ClaudeBot", "Claude-User", "PerplexityBot", "Google-Extended", "CCBot"} \ {"OAI-SearchBot"})
    BY <2>1, <2>2, SumStep
  <2>4. {"OAI-SearchBot", "GPTBot", "ChatGPT-User", "Claude-SearchBot", "ClaudeBot", "Claude-User", "PerplexityBot", "Google-Extended", "CCBot"} \ {"OAI-SearchBot"} \in SUBSET {"OAI-SearchBot", "GPTBot", "ChatGPT-User", "Claude-SearchBot", "ClaudeBot", "Claude-User", "PerplexityBot", "Google-Extended", "CCBot"}
    OBVIOUS
  <2>5. Numbers(w, {"OAI-SearchBot", "GPTBot", "ChatGPT-User", "Claude-SearchBot", "ClaudeBot", "Claude-User", "PerplexityBot", "Google-Extended", "CCBot"} \ {"OAI-SearchBot"})
    BY <2>2, <2>4, NumbersOfPart
  <2> QED BY <2>1, <2>3, <2>5, <1>3
<1>a1. SumOn(w, {"GPTBot", "ChatGPT-User", "Claude-SearchBot", "ClaudeBot", "Claude-User", "PerplexityBot", "Google-Extended", "CCBot"}) = 5 + SumOn(w, {"ChatGPT-User", "Claude-SearchBot", "ClaudeBot", "Claude-User", "PerplexityBot", "Google-Extended", "CCBot"})
      /\ Numbers(w, {"ChatGPT-User", "Claude-SearchBot", "ClaudeBot", "Claude-User", "PerplexityBot", "Google-Extended", "CCBot"})
  <2>1. {"GPTBot", "ChatGPT-User", "Claude-SearchBot", "ClaudeBot", "Claude-User", "PerplexityBot", "Google-Extended", "CCBot"} \ {"GPTBot"} = {"ChatGPT-User", "Claude-SearchBot", "ClaudeBot", "Claude-User", "PerplexityBot", "Google-Extended", "CCBot"} /\ "GPTBot" \in {"GPTBot", "ChatGPT-User", "Claude-SearchBot", "ClaudeBot", "Claude-User", "PerplexityBot", "Google-Extended", "CCBot"}
    OBVIOUS
  <2>2. Numbers(w, {"GPTBot", "ChatGPT-User", "Claude-SearchBot", "ClaudeBot", "Claude-User", "PerplexityBot", "Google-Extended", "CCBot"})
    BY <1>a0
  <2>3. SumOn(w, {"GPTBot", "ChatGPT-User", "Claude-SearchBot", "ClaudeBot", "Claude-User", "PerplexityBot", "Google-Extended", "CCBot"}) = w["GPTBot"] + SumOn(w, {"GPTBot", "ChatGPT-User", "Claude-SearchBot", "ClaudeBot", "Claude-User", "PerplexityBot", "Google-Extended", "CCBot"} \ {"GPTBot"})
    BY <2>1, <2>2, SumStep
  <2>4. {"GPTBot", "ChatGPT-User", "Claude-SearchBot", "ClaudeBot", "Claude-User", "PerplexityBot", "Google-Extended", "CCBot"} \ {"GPTBot"} \in SUBSET {"GPTBot", "ChatGPT-User", "Claude-SearchBot", "ClaudeBot", "Claude-User", "PerplexityBot", "Google-Extended", "CCBot"}
    OBVIOUS
  <2>5. Numbers(w, {"GPTBot", "ChatGPT-User", "Claude-SearchBot", "ClaudeBot", "Claude-User", "PerplexityBot", "Google-Extended", "CCBot"} \ {"GPTBot"})
    BY <2>2, <2>4, NumbersOfPart
  <2> QED BY <2>1, <2>3, <2>5, <1>3
<1>a2. SumOn(w, {"ChatGPT-User", "Claude-SearchBot", "ClaudeBot", "Claude-User", "PerplexityBot", "Google-Extended", "CCBot"}) = 4 + SumOn(w, {"Claude-SearchBot", "ClaudeBot", "Claude-User", "PerplexityBot", "Google-Extended", "CCBot"})
      /\ Numbers(w, {"Claude-SearchBot", "ClaudeBot", "Claude-User", "PerplexityBot", "Google-Extended", "CCBot"})
  <2>1. {"ChatGPT-User", "Claude-SearchBot", "ClaudeBot", "Claude-User", "PerplexityBot", "Google-Extended", "CCBot"} \ {"ChatGPT-User"} = {"Claude-SearchBot", "ClaudeBot", "Claude-User", "PerplexityBot", "Google-Extended", "CCBot"} /\ "ChatGPT-User" \in {"ChatGPT-User", "Claude-SearchBot", "ClaudeBot", "Claude-User", "PerplexityBot", "Google-Extended", "CCBot"}
    OBVIOUS
  <2>2. Numbers(w, {"ChatGPT-User", "Claude-SearchBot", "ClaudeBot", "Claude-User", "PerplexityBot", "Google-Extended", "CCBot"})
    BY <1>a1
  <2>3. SumOn(w, {"ChatGPT-User", "Claude-SearchBot", "ClaudeBot", "Claude-User", "PerplexityBot", "Google-Extended", "CCBot"}) = w["ChatGPT-User"] + SumOn(w, {"ChatGPT-User", "Claude-SearchBot", "ClaudeBot", "Claude-User", "PerplexityBot", "Google-Extended", "CCBot"} \ {"ChatGPT-User"})
    BY <2>1, <2>2, SumStep
  <2>4. {"ChatGPT-User", "Claude-SearchBot", "ClaudeBot", "Claude-User", "PerplexityBot", "Google-Extended", "CCBot"} \ {"ChatGPT-User"} \in SUBSET {"ChatGPT-User", "Claude-SearchBot", "ClaudeBot", "Claude-User", "PerplexityBot", "Google-Extended", "CCBot"}
    OBVIOUS
  <2>5. Numbers(w, {"ChatGPT-User", "Claude-SearchBot", "ClaudeBot", "Claude-User", "PerplexityBot", "Google-Extended", "CCBot"} \ {"ChatGPT-User"})
    BY <2>2, <2>4, NumbersOfPart
  <2> QED BY <2>1, <2>3, <2>5, <1>3
<1>a3. SumOn(w, {"Claude-SearchBot", "ClaudeBot", "Claude-User", "PerplexityBot", "Google-Extended", "CCBot"}) = 8 + SumOn(w, {"ClaudeBot", "Claude-User", "PerplexityBot", "Google-Extended", "CCBot"})
      /\ Numbers(w, {"ClaudeBot", "Claude-User", "PerplexityBot", "Google-Extended", "CCBot"})
  <2>1. {"Claude-SearchBot", "ClaudeBot", "Claude-User", "PerplexityBot", "Google-Extended", "CCBot"} \ {"Claude-SearchBot"} = {"ClaudeBot", "Claude-User", "PerplexityBot", "Google-Extended", "CCBot"} /\ "Claude-SearchBot" \in {"Claude-SearchBot", "ClaudeBot", "Claude-User", "PerplexityBot", "Google-Extended", "CCBot"}
    OBVIOUS
  <2>2. Numbers(w, {"Claude-SearchBot", "ClaudeBot", "Claude-User", "PerplexityBot", "Google-Extended", "CCBot"})
    BY <1>a2
  <2>3. SumOn(w, {"Claude-SearchBot", "ClaudeBot", "Claude-User", "PerplexityBot", "Google-Extended", "CCBot"}) = w["Claude-SearchBot"] + SumOn(w, {"Claude-SearchBot", "ClaudeBot", "Claude-User", "PerplexityBot", "Google-Extended", "CCBot"} \ {"Claude-SearchBot"})
    BY <2>1, <2>2, SumStep
  <2>4. {"Claude-SearchBot", "ClaudeBot", "Claude-User", "PerplexityBot", "Google-Extended", "CCBot"} \ {"Claude-SearchBot"} \in SUBSET {"Claude-SearchBot", "ClaudeBot", "Claude-User", "PerplexityBot", "Google-Extended", "CCBot"}
    OBVIOUS
  <2>5. Numbers(w, {"Claude-SearchBot", "ClaudeBot", "Claude-User", "PerplexityBot", "Google-Extended", "CCBot"} \ {"Claude-SearchBot"})
    BY <2>2, <2>4, NumbersOfPart
  <2> QED BY <2>1, <2>3, <2>5, <1>3
<1>a4. SumOn(w, {"ClaudeBot", "Claude-User", "PerplexityBot", "Google-Extended", "CCBot"}) = 3 + SumOn(w, {"Claude-User", "PerplexityBot", "Google-Extended", "CCBot"})
      /\ Numbers(w, {"Claude-User", "PerplexityBot", "Google-Extended", "CCBot"})
  <2>1. {"ClaudeBot", "Claude-User", "PerplexityBot", "Google-Extended", "CCBot"} \ {"ClaudeBot"} = {"Claude-User", "PerplexityBot", "Google-Extended", "CCBot"} /\ "ClaudeBot" \in {"ClaudeBot", "Claude-User", "PerplexityBot", "Google-Extended", "CCBot"}
    OBVIOUS
  <2>2. Numbers(w, {"ClaudeBot", "Claude-User", "PerplexityBot", "Google-Extended", "CCBot"})
    BY <1>a3
  <2>3. SumOn(w, {"ClaudeBot", "Claude-User", "PerplexityBot", "Google-Extended", "CCBot"}) = w["ClaudeBot"] + SumOn(w, {"ClaudeBot", "Claude-User", "PerplexityBot", "Google-Extended", "CCBot"} \ {"ClaudeBot"})
    BY <2>1, <2>2, SumStep
  <2>4. {"ClaudeBot", "Claude-User", "PerplexityBot", "Google-Extended", "CCBot"} \ {"ClaudeBot"} \in SUBSET {"ClaudeBot", "Claude-User", "PerplexityBot", "Google-Extended", "CCBot"}
    OBVIOUS
  <2>5. Numbers(w, {"ClaudeBot", "Claude-User", "PerplexityBot", "Google-Extended", "CCBot"} \ {"ClaudeBot"})
    BY <2>2, <2>4, NumbersOfPart
  <2> QED BY <2>1, <2>3, <2>5, <1>3
<1>a5. SumOn(w, {"Claude-User", "PerplexityBot", "Google-Extended", "CCBot"}) = 3 + SumOn(w, {"PerplexityBot", "Google-Extended", "CCBot"})
      /\ Numbers(w, {"PerplexityBot", "Google-Extended", "CCBot"})
  <2>1. {"Claude-User", "PerplexityBot", "Google-Extended", "CCBot"} \ {"Claude-User"} = {"PerplexityBot", "Google-Extended", "CCBot"} /\ "Claude-User" \in {"Claude-User", "PerplexityBot", "Google-Extended", "CCBot"}
    OBVIOUS
  <2>2. Numbers(w, {"Claude-User", "PerplexityBot", "Google-Extended", "CCBot"})
    BY <1>a4
  <2>3. SumOn(w, {"Claude-User", "PerplexityBot", "Google-Extended", "CCBot"}) = w["Claude-User"] + SumOn(w, {"Claude-User", "PerplexityBot", "Google-Extended", "CCBot"} \ {"Claude-User"})
    BY <2>1, <2>2, SumStep
  <2>4. {"Claude-User", "PerplexityBot", "Google-Extended", "CCBot"} \ {"Claude-User"} \in SUBSET {"Claude-User", "PerplexityBot", "Google-Extended", "CCBot"}
    OBVIOUS
  <2>5. Numbers(w, {"Claude-User", "PerplexityBot", "Google-Extended", "CCBot"} \ {"Claude-User"})
    BY <2>2, <2>4, NumbersOfPart
  <2> QED BY <2>1, <2>3, <2>5, <1>3
<1>a6. SumOn(w, {"PerplexityBot", "Google-Extended", "CCBot"}) = 6 + SumOn(w, {"Google-Extended", "CCBot"})
      /\ Numbers(w, {"Google-Extended", "CCBot"})
  <2>1. {"PerplexityBot", "Google-Extended", "CCBot"} \ {"PerplexityBot"} = {"Google-Extended", "CCBot"} /\ "PerplexityBot" \in {"PerplexityBot", "Google-Extended", "CCBot"}
    OBVIOUS
  <2>2. Numbers(w, {"PerplexityBot", "Google-Extended", "CCBot"})
    BY <1>a5
  <2>3. SumOn(w, {"PerplexityBot", "Google-Extended", "CCBot"}) = w["PerplexityBot"] + SumOn(w, {"PerplexityBot", "Google-Extended", "CCBot"} \ {"PerplexityBot"})
    BY <2>1, <2>2, SumStep
  <2>4. {"PerplexityBot", "Google-Extended", "CCBot"} \ {"PerplexityBot"} \in SUBSET {"PerplexityBot", "Google-Extended", "CCBot"}
    OBVIOUS
  <2>5. Numbers(w, {"PerplexityBot", "Google-Extended", "CCBot"} \ {"PerplexityBot"})
    BY <2>2, <2>4, NumbersOfPart
  <2> QED BY <2>1, <2>3, <2>5, <1>3
<1>a7. SumOn(w, {"Google-Extended", "CCBot"}) = 2 + SumOn(w, {"CCBot"})
      /\ Numbers(w, {"CCBot"})
  <2>1. {"Google-Extended", "CCBot"} \ {"Google-Extended"} = {"CCBot"} /\ "Google-Extended" \in {"Google-Extended", "CCBot"}
    OBVIOUS
  <2>2. Numbers(w, {"Google-Extended", "CCBot"})
    BY <1>a6
  <2>3. SumOn(w, {"Google-Extended", "CCBot"}) = w["Google-Extended"] + SumOn(w, {"Google-Extended", "CCBot"} \ {"Google-Extended"})
    BY <2>1, <2>2, SumStep
  <2>4. {"Google-Extended", "CCBot"} \ {"Google-Extended"} \in SUBSET {"Google-Extended", "CCBot"}
    OBVIOUS
  <2>5. Numbers(w, {"Google-Extended", "CCBot"} \ {"Google-Extended"})
    BY <2>2, <2>4, NumbersOfPart
  <2> QED BY <2>1, <2>3, <2>5, <1>3
<1>a8. SumOn(w, {"CCBot"}) = 1 + SumOn(w, {})
      /\ Numbers(w, {})
  <2>1. {"CCBot"} \ {"CCBot"} = {} /\ "CCBot" \in {"CCBot"}
    OBVIOUS
  <2>2. Numbers(w, {"CCBot"})
    BY <1>a7
  <2>3. SumOn(w, {"CCBot"}) = w["CCBot"] + SumOn(w, {"CCBot"} \ {"CCBot"})
    BY <2>1, <2>2, SumStep
  <2>4. {"CCBot"} \ {"CCBot"} \in SUBSET {"CCBot"}
    OBVIOUS
  <2>5. Numbers(w, {"CCBot"} \ {"CCBot"})
    BY <2>2, <2>4, NumbersOfPart
  <2> QED BY <2>1, <2>3, <2>5, <1>3
<1>6. SumOn(w, D) = 44
  BY <1>a0, <1>a1, <1>a2, <1>a3, <1>a4, <1>a5, <1>a6, <1>a7, <1>a8, SumNone
<1>7. SumOn(w, D \ blocked) <= SumOn(w, D) /\ SumOn(w, D \ blocked) \in Nat
  <2>1. D \ blocked \in SUBSET D
    OBVIOUS
  <2> HIDE DEF D
  <2> QED BY <2>1, <1>4, SumOfPartLess
<1>8. T!Earned(w, blocked) = SumOn(w, D \ blocked)
  BY <1>1, EarnedIs
<1> QED BY <1>6, <1>7, <1>8 DEF w

-----------------------------------------------------------------------------
(* What the checks make of a site, and what the fixes make of it. *)

LEMMA SpeedBound ==
  ASSUME NEW ms \in Nat
  PROVE  T!Speed(ms) \in Nat /\ T!Speed(ms) <= 60000 /\ (~T!TooSlow(ms) => T!Speed(ms) >= 30000)
<1>1. CASE ms < 200
  BY <1>1 DEF T!Speed, T!TooSlow
<1>2. CASE ~(ms < 200) /\ ms < 500
  BY <1>2 DEF T!Speed, T!TooSlow
<1>3. CASE ~(ms < 500) /\ ms < 1000
  BY <1>3 DEF T!Speed, T!TooSlow
<1>4. CASE ~(ms < 1000) /\ ms < 1500
  BY <1>4 DEF T!Speed, T!TooSlow
<1>5. CASE ~(ms < 1500)
  BY <1>5 DEF T!Speed, T!TooSlow, T!Points
<1> QED BY <1>1, <1>2, <1>3, <1>4, <1>5, SMT

LEMMA LlmsBound ==
  ASSUME NEW l \in T!Llms
  PROVE  T!LlmsScore(l) \in Nat /\ T!LlmsScore(l) <= 200
<1>1. l.links \in Nat
  BY DEF T!Llms
<1> PICK n \in Nat : n = l.links
  BY <1>1
<1> QED BY DEF T!LlmsScore, T!Points

LEMMA AccessIs ==
  ASSUME NEW blocked
  PROVE  \E ai \in 0..44 :
           T!CrawlerAccess(blocked) =
             11 * ((IF "Googlebot" \in blocked THEN 0 ELSE 35) + (IF "Bingbot" \in blocked THEN 0 ELSE 20)
                     + (IF "Applebot" \in blocked THEN 0 ELSE 5)) + 10 * ai
<1>1. PICK ai \in 0..44 : ai = T!Earned(T!AICrawlers, blocked)
  BY AIEarned
<1> QED BY <1>1, SearchEarned DEF T!CrawlerAccess

LEMMA HomeBound ==
  ASSUME NEW home \in T!Homes
  PROVE  /\ T!HomeScore(home) \in Int /\ T!Clipped(T!HomeScore(home)) \in Nat /\ T!Clipped(T!HomeScore(home)) <= 100
         /\ ~T!Dependent(home) => T!Clipped(T!HomeScore(home)) >= 50
         /\ (home.chars >= 1000 /\ ~(home.framework /\ home.markers /\ home.loading)) => ~T!Dependent(home)
         /\ (T!Shell(home) /\ ~home.noscript) => T!Dependent(home)
<1>1. home.chars \in Nat
  BY DEF T!Homes
<1>2. PICK n \in Nat : n = home.chars
  BY <1>1
<1>4. PICK fw \in {0, 30}, ld \in {0, 15}, ns \in {0, 10}, mk \in {0, 10} :
         /\ fw = T!Points(home.framework, 30) /\ ld = T!Points(home.loading, 15)
         /\ ns = T!Points(home.noscript, 10) /\ mk = T!Points(home.markers, 10)
         /\ (fw = 30 => home.framework) /\ (ld = 15 => home.loading) /\ (mk = 10 => home.markers)
         /\ (ns = 10 => home.noscript)
  <2>1. T!Points(home.framework, 30) \in {0, 30} /\ (T!Points(home.framework, 30) = 30 => home.framework)
    BY DEF T!Points
  <2>2. T!Points(home.loading, 15) \in {0, 15} /\ (T!Points(home.loading, 15) = 15 => home.loading)
    BY DEF T!Points
  <2>3. T!Points(home.noscript, 10) \in {0, 10} /\ (T!Points(home.noscript, 10) = 10 => home.noscript)
    BY DEF T!Points
  <2>4. T!Points(home.markers, 10) \in {0, 10} /\ (T!Points(home.markers, 10) = 10 => home.markers)
    BY DEF T!Points
  <2> QED BY <2>1, <2>2, <2>3, <2>4
<1>5. T!HomeScore(home) = 100 - (IF n < 100 THEN 60 ELSE IF n < 500 THEN 40 ELSE IF n < 1000 THEN 20 ELSE 0)
                            - fw - ld + ns - mk
  BY <1>2, <1>4 DEF T!HomeScore, T!Shell, T!Points
<1>3. PICK sc \in Int :
         /\ sc = T!HomeScore(home)
         /\ sc <= 110
         /\ (home.chars >= 1000 /\ ~(home.framework /\ home.markers /\ home.loading)) => sc >= 55
         /\ (T!Shell(home) /\ ~home.noscript) => sc <= 40
  <2>1. PICK sc \in Int : sc = T!HomeScore(home)
    BY <1>5
  <2>2. sc <= 110
    BY <1>5, <2>1
  <2>3. (n >= 1000 /\ ~(fw = 30 /\ ld = 15 /\ mk = 10)) => sc >= 55
    BY <1>5, <2>1
  <2>4. (n < 100 /\ ns = 0) => sc <= 40
    BY <1>5, <2>1
  <2>5. ~home.noscript => ns = 0
    BY <1>4
  <2> QED BY <2>1, <2>2, <2>3, <2>4, <2>5, <1>2, <1>4 DEF T!Shell
<1> QED BY <1>3 DEF T!Clipped, T!Dependent

LEMMA ReportIs ==
  ASSUME NEW s, NEW tr, NEW r, r = T!Report(s, tr)
  PROVE  /\ r.trouble = tr /\ r.blocked = T!Blocked(s, tr) /\ r.search = T!Blocked(s, tr) \cap SearchNames
         /\ r.ms = T!FirstByte(s, tr).ms /\ r.speed = T!FirstByte(s, tr).score
         /\ r.llms = T!LlmsFound(s, tr) /\ r.llmsScore = (IF T!LlmsFound(s, tr) THEN T!LlmsScore(s.llms) ELSE 0)
         /\ r.access = T!CrawlerAccess(T!Blocked(s, tr))
         /\ r.shell = T!HomeFound(s, tr).shell /\ r.dependent = T!HomeFound(s, tr).dependent
         /\ r.sure = T!HomeFound(s, tr).sure /\ r.homeScore = T!HomeFound(s, tr).homeScore
BY SearchCrawlersAre DEF T!Report

LEMMA HomeFoundIs ==
  ASSUME NEW s, NEW tr, NEW h, h = T!HomeFound(s, tr)
  PROVE  /\ h.shell = ((~T!Down(tr) /\ "FindableBot" \notin T!Blocked(s, tr)) /\ T!Shell(s.home))
         /\ h.dependent = ((~T!Down(tr) /\ "FindableBot" \notin T!Blocked(s, tr)) /\ T!Dependent(s.home))
         /\ h.homeScore = IF ~T!Down(tr) /\ "FindableBot" \notin T!Blocked(s, tr)
                          THEN T!Clipped(T!HomeScore(s.home)) ELSE 100
BY DEF T!HomeFound

\* Every report is in range.
LEMMA ReportInRange ==
  ASSUME NEW s \in T!Site, NEW tr, NEW r, r = T!Report(s, tr)
  PROVE  /\ r.access \in Nat /\ r.access <= 1100 /\ r.speed \in Nat /\ r.speed <= 60000
         /\ r.llmsScore \in Nat /\ r.llmsScore <= 200 /\ r.homeScore \in Nat /\ r.homeScore <= 100 /\ r.ms \in Nat
         /\ T!Total(r) \in Nat /\ T!Total(r) <= 66000000
<1>0. /\ r.speed = T!FirstByte(s, tr).score /\ r.ms = T!FirstByte(s, tr).ms
      /\ r.llmsScore = (IF T!LlmsFound(s, tr) THEN T!LlmsScore(s.llms) ELSE 0)
      /\ r.access = T!CrawlerAccess(T!Blocked(s, tr)) /\ r.homeScore = T!HomeFound(s, tr).homeScore
  BY ReportIs
<1>1. s.ms \in Nat /\ s.llms \in T!Llms /\ s.home \in T!Homes
  BY DEF T!Site
<1>2. r.access \in Nat /\ r.access <= 1100
  BY <1>0, AccessIs
<1>3. r.speed \in Nat /\ r.speed <= 60000 /\ r.ms \in Nat
  <2>1. T!Speed(s.ms) \in Nat /\ T!Speed(s.ms) <= 60000
    BY <1>1, SpeedBound
  <2>2. T!FirstByte(s, tr).score \in Nat /\ T!FirstByte(s, tr).score <= 60000 /\ T!FirstByte(s, tr).ms \in Nat
    BY <1>1, <2>1 DEF T!FirstByte
  <2> QED BY <2>2, <1>0
<1>4. r.llmsScore \in Nat /\ r.llmsScore <= 200
  BY <1>0, <1>1, LlmsBound
<1>5. r.homeScore \in Nat /\ r.homeScore <= 100
  <2>1. T!Clipped(T!HomeScore(s.home)) \in Nat /\ T!Clipped(T!HomeScore(s.home)) <= 100
    BY <1>1, HomeBound
  <2>2. PICK h : h = T!HomeFound(s, tr)
    OBVIOUS
  <2>3. h.homeScore = IF ~T!Down(tr) /\ "FindableBot" \notin T!Blocked(s, tr)
                      THEN T!Clipped(T!HomeScore(s.home)) ELSE 100
    BY <2>2, HomeFoundIs
  <2> QED BY <2>1, <2>2, <2>3, <1>0
<1>6. PICK a \in Nat, sp \in Nat, l \in Nat, h \in Nat :
         a = r.access /\ sp = r.speed /\ l = r.llmsScore /\ h = r.homeScore
  BY <1>2, <1>3, <1>4, <1>5
<1>61. sp <= 60000 /\ a <= 1100 /\ l <= 200 /\ h <= 100
  BY <1>2, <1>3, <1>4, <1>5, <1>6, SMT
<1>7. T!Total(r) = 35 * 600 * a + 30 * 11 * sp + 15 * 3300 * l + 10 * 6600 * h + 10 * 660000
  BY <1>6 DEF T!Total
<1>8. T!Total(r) \in Nat /\ T!Total(r) <= 66000000
  BY <1>7, <1>61
<1> QED BY <1>2, <1>3, <1>4, <1>5, <1>8, SMT

\* A search engine is asked for when it may not come in.
LEMMA FixesAre ==
  ASSUME NEW r
  PROVE  /\ T!Fixes(r) \subseteq {"unblock", "ttfb", "llms", "ssr"}
         /\ "unblock" \in T!Fixes(r) <=> r.search # {}
         /\ "ttfb" \in T!Fixes(r) <=> T!TooSlow(r.ms)
         /\ "llms" \in T!Fixes(r) <=> ~r.llms
         /\ "ssr" \in T!Fixes(r) <=> r.dependent
BY DEF T!Fixes

\* With nothing left to fix the site is not limited.
LEMMA NothingLeftOfReport ==
  ASSUME NEW s \in T!Site, NEW r, r = T!Report(s, "none"), T!Fixes(r) = {}
  PROVE  T!Level(r) # "limited"
<1>1. r.search = {} /\ ~T!TooSlow(r.ms) /\ ~r.dependent
  BY FixesAre
<1>2. s.ms \in Nat /\ s.home \in T!Homes
  BY DEF T!Site
<1>3. /\ r.access \in Nat /\ r.access <= 1100 /\ r.speed \in Nat /\ r.speed <= 60000
      /\ r.llmsScore \in Nat /\ r.llmsScore <= 200 /\ r.homeScore \in Nat /\ r.homeScore <= 100 /\ r.ms \in Nat
  BY ReportInRange, SMT
<1>0. /\ r.speed = T!FirstByte(s, "none").score /\ r.ms = T!FirstByte(s, "none").ms
      /\ r.search = T!Blocked(s, "none") \cap SearchNames
      /\ r.access = T!CrawlerAccess(T!Blocked(s, "none")) /\ r.homeScore = T!HomeFound(s, "none").homeScore
      /\ r.dependent = T!HomeFound(s, "none").dependent
  BY ReportIs
<1>4. r.access >= 660
  <2>1. /\ "Googlebot" \notin T!Blocked(s, "none") /\ "Bingbot" \notin T!Blocked(s, "none")
        /\ "Applebot" \notin T!Blocked(s, "none")
    BY <1>0, <1>1 DEF SearchNames
  <2>2. PICK b : b = T!Blocked(s, "none")
    OBVIOUS
  <2>3. PICK ai \in 0..44 : T!CrawlerAccess(b) =
             11 * ((IF "Googlebot" \in b THEN 0 ELSE 35) + (IF "Bingbot" \in b THEN 0 ELSE 20)
                     + (IF "Applebot" \in b THEN 0 ELSE 5)) + 10 * ai
    BY AccessIs
  <2> QED BY <2>1, <2>2, <2>3, <1>0
<1>5. r.speed >= 30000
  <2>1. T!FirstByte(s, "none").ms = s.ms /\ T!FirstByte(s, "none").score = T!Speed(s.ms)
    BY DEF T!FirstByte, T!Down
  <2> QED BY <2>1, <1>0, <1>1, <1>2, SpeedBound
<1>6. r.homeScore >= 50
  <2>1. ~T!Dependent(s.home) => T!Clipped(T!HomeScore(s.home)) >= 50
    BY <1>2, HomeBound
  <2>2. PICK h : h = T!HomeFound(s, "none")
    OBVIOUS
  <2>3. /\ h.dependent = ((~T!Down("none") /\ "FindableBot" \notin T!Blocked(s, "none")) /\ T!Dependent(s.home))
        /\ h.homeScore = IF ~T!Down("none") /\ "FindableBot" \notin T!Blocked(s, "none")
                          THEN T!Clipped(T!HomeScore(s.home)) ELSE 100
    BY <2>2, HomeFoundIs
  <2>4. ~h.dependent
    BY <2>2, <1>0, <1>1
  <2>5. (~T!Down("none") /\ "FindableBot" \notin T!Blocked(s, "none")) => ~T!Dependent(s.home)
    BY <2>3, <2>4, Zenon
  <2>6. h.homeScore = T!Clipped(T!HomeScore(s.home)) \/ h.homeScore = 100
    BY <2>3
  <2>7. h.homeScore # 100 => ~T!Dependent(s.home)
    BY <2>3, <2>5
  <2> QED BY <2>1, <2>2, <2>6, <2>7, <1>0
<1>7. PICK a \in Nat, sp \in Nat, l \in Nat, h \in Nat :
         a = r.access /\ sp = r.speed /\ l = r.llmsScore /\ h = r.homeScore
  BY <1>3
<1>8. T!Total(r) = 35 * 600 * a + 30 * 11 * sp + 15 * 3300 * l + 10 * 6600 * h + 10 * 660000
  BY <1>7 DEF T!Total
<1>9. a >= 660 /\ sp >= 30000 /\ h >= 50
  BY <1>4, <1>5, <1>6, <1>7
<1>10. T!Total(r) >= 50 * 660000
  BY <1>8, <1>9
<1> QED BY <1>10 DEF T!Level

\* What a fix makes of a site.
Made(f, before, search, after) ==
  /\ f = "unblock" => after.robots = T!Groups(search) \o before.robots
  /\ f = "ttfb" => after.ms <= 450
  /\ f = "llms" => after.llms.exists
  /\ f = "ssr" => /\ after.home.chars = 3000 /\ after.home.framework = before.home.framework
                  /\ after.home.markers = before.home.markers
                  /\ after.home.loading => before.home.loading
  /\ f # "unblock" => after.robots = before.robots
  /\ f # "ttfb" => after.ms = before.ms
  /\ f # "llms" => after.llms = before.llms
  /\ f # "ssr" => after.home = before.home

LEMMA FixedIs ==
  ASSUME NEW s \in T!Site, techReport.search \in SUBSET SearchNames,
         NEW f \in {"unblock", "ttfb", "llms", "ssr"}, NEW t \in T!Fixed(s, f)
  PROVE  t \in T!Site /\ t.home.noscript = s.home.noscript /\ Made(f, s, techReport.search, t)
<1>1. PICK R \in Seq(T!Lines), m \in Nat, l \in T!Llms, h \in T!Homes :
         s = [robots |-> R, ms |-> m, llms |-> l, home |-> h]
  BY DEF T!Site
<1>2. CASE f = "unblock"
  <2>1. PICK q \in Seq(T!Lines) : q = T!Groups(techReport.search) \o R
    <3>2. PICK A \in SUBSET SearchNames : A = techReport.search
      OBVIOUS
    <3>3. T!Groups(A) \o R \in Seq(T!Lines)
      <4>1. R \in Seq(T!Lines) /\ "Googlebot" \in T!Crawlers
        BY DEF T!Crawlers, T!Checked, T!SearchCrawlers
      <4> QED BY <4>1, FixRead
    <3> QED BY <3>2, <3>3
  <2>2. t = [s EXCEPT !.robots = T!Groups(techReport.search) \o s.robots]
    <3>1. T!Fixed(s, "unblock") = {[s EXCEPT !.robots = T!Groups(techReport.search) \o s.robots]}
      BY DEF T!Fixed
    <3> QED BY <3>1, <1>2
  <2>3. t = [robots |-> q, ms |-> m, llms |-> l, home |-> h] /\ s.robots = R /\ s.home = h
    BY <1>1, <2>1, <2>2
  <2>4. t \in T!Site /\ t.robots = q /\ t.home = h /\ t.ms = s.ms /\ t.llms = s.llms
    BY <1>1, <2>3 DEF T!Site
  <2> QED BY <1>2, <2>1, <2>3, <2>4 DEF Made
<1>3. CASE f = "ttfb"
  <2>1. PICK ms \in {150, 450} : t = [s EXCEPT !.ms = ms]
    BY <1>3 DEF T!Fixed
  <2>3. t = [robots |-> R, ms |-> ms, llms |-> l, home |-> h] /\ ms \in Nat /\ ms <= 450
        /\ s.home = h /\ s.robots = R /\ s.llms = l
    BY <1>1, <2>1
  <2> QED BY <1>3, <2>3 DEF T!Site, Made
<1>4. CASE f = "llms"
  <2>1. PICK b \in BOOLEAN, n \in {1, 12} :
           t = [s EXCEPT !.llms = [exists |-> TRUE, title |-> TRUE, described |-> TRUE, sections |-> b, links |-> n]]
    BY <1>4 DEF T!Fixed
  <2>2. PICK k \in T!Llms : k = [exists |-> TRUE, title |-> TRUE, described |-> TRUE, sections |-> b, links |-> n]
    <3>1. n \in Nat
      BY <2>1
    <3> QED BY <3>1 DEF T!Llms
  <2>3. t = [robots |-> R, ms |-> m, llms |-> k, home |-> h] /\ k.exists
        /\ s.home = h /\ s.robots = R /\ s.ms = m
    BY <1>1, <2>1, <2>2
  <2> QED BY <1>4, <2>3 DEF T!Site, Made
<1>5. CASE f = "ssr"
  <2>1. PICK x \in Nat : x = 3000
    OBVIOUS
  <2>2. PICK b \in {FALSE, s.home.loading} : t = [s EXCEPT !.home = [s.home EXCEPT !.chars = x, !.loading = b]]
    BY <1>5, <2>1 DEF T!Fixed
  <2>3. s.home = h /\ h.loading \in BOOLEAN /\ b \in BOOLEAN
    <3>1. s.home = h
      BY <1>1
    <3>2. h.loading \in BOOLEAN
      BY DEF T!Homes
    <3>3. b = FALSE \/ b = h.loading
      BY <2>2, <3>1
    <3> QED BY <3>1, <3>2, <3>3, Zenon
  <2>4. PICK k : k = [h EXCEPT !.chars = x, !.loading = b]
    BY Zenon
  <2>5. k.chars = x /\ k.noscript = h.noscript /\ k.framework = h.framework /\ k.markers = h.markers
        /\ k.loading = b /\ k \in T!Homes
    BY <2>3, <2>4 DEF T!Homes
  <2>6. t = [s EXCEPT !.home = k]
    BY <2>2, <2>3, <2>4, Zenon
  <2>7. t = [robots |-> R, ms |-> m, llms |-> l, home |-> k]
    BY <1>1, <2>6
  <2>8. t \in T!Site /\ t.home = k /\ t.robots = s.robots /\ t.ms = s.ms /\ t.llms = s.llms
    BY <1>1, <2>5, <2>7 DEF T!Site
  <2>9. t.home.loading => s.home.loading
    BY <2>2, <2>5, <2>8
  <2> QED BY <1>5, <2>1, <2>3, <2>5, <2>8, <2>9 DEF Made
<1> QED BY <1>2, <1>3, <1>4, <1>5

\* Whoever lets more crawlers in has no fewer points.
LEMMA AccessGrows ==
  ASSUME NEW more, NEW fewer \in SUBSET more
  PROVE  T!CrawlerAccess(more) <= T!CrawlerAccess(fewer)
<1> DEFINE w == T!AICrawlers
           D == DOMAIN w
<1>1. IsFiniteSet(D) /\ \A c \in D : w[c] \in Nat
  BY AIWeights
<1>2. D \ more \in SUBSET (D \ fewer) /\ IsFiniteSet(D \ fewer) /\ \A c \in D \ fewer : w[c] \in Nat
  <2>1. D \ fewer \in SUBSET D /\ D \ more \in SUBSET (D \ fewer)
    OBVIOUS
  <2> HIDE DEF D, w
  <2>2. IsFiniteSet(D \ fewer)
    BY <1>1, <2>1, FS_Subset
  <2> QED BY <1>1, <2>1, <2>2
<1> HIDE DEF D, w
<1>3. SumOn(w, D \ more) <= SumOn(w, D \ fewer) /\ SumOn(w, D \ more) \in Nat /\ SumOn(w, D \ fewer) \in Nat
  BY <1>2, SumOfPartLess
<1>4. T!Earned(T!AICrawlers, more) = SumOn(w, D \ more) /\ T!Earned(T!AICrawlers, fewer) = SumOn(w, D \ fewer)
  BY EarnedIs DEF w, D
<1>5. PICK a \in Nat, b \in Nat : a = T!Earned(T!AICrawlers, more) /\ b = T!Earned(T!AICrawlers, fewer) /\ a <= b
  BY <1>3, <1>4
<1>6. PICK c \in Nat, d \in Nat : c = T!Earned(T!SearchCrawlers, more) /\ d = T!Earned(T!SearchCrawlers, fewer) /\ c <= d
  <2>1. T!Earned(T!SearchCrawlers, more) =
           (IF "Googlebot" \in more THEN 0 ELSE 35) + (IF "Bingbot" \in more THEN 0 ELSE 20)
             + (IF "Applebot" \in more THEN 0 ELSE 5)
    BY SearchEarned
  <2>2. T!Earned(T!SearchCrawlers, fewer) =
           (IF "Googlebot" \in fewer THEN 0 ELSE 35) + (IF "Bingbot" \in fewer THEN 0 ELSE 20)
             + (IF "Applebot" \in fewer THEN 0 ELSE 5)
    BY SearchEarned
  <2> QED BY <2>1, <2>2
<1>7. 11 * c + 10 * a <= 11 * d + 10 * b
  BY <1>5, <1>6
<1> QED BY <1>5, <1>6, <1>7 DEF T!CrawlerAccess

\* A report that is as good in each of its checks is as good in all.
AsGood(r, q) ==
  /\ r.access <= q.access /\ r.speed <= q.speed
  /\ r.llmsScore <= q.llmsScore /\ r.homeScore <= q.homeScore

LEMMA TotalGrows ==
  ASSUME NEW s \in T!Site, NEW t \in T!Site, NEW tr, NEW us, NEW r, NEW q,
         r = T!Report(s, tr), q = T!Report(t, us), AsGood(r, q)
  PROVE  T!Total(r) <= T!Total(q)
<1>1. /\ r.access \in Nat /\ r.access <= 1100 /\ r.speed \in Nat /\ r.speed <= 60000
      /\ r.llmsScore \in Nat /\ r.llmsScore <= 200 /\ r.homeScore \in Nat /\ r.homeScore <= 100 /\ r.ms \in Nat
      /\ T!Total(r) \in Nat /\ T!Total(r) <= 66000000
  BY ReportInRange, SMT
<1>2. /\ q.access \in Nat /\ q.access <= 1100 /\ q.speed \in Nat /\ q.speed <= 60000
      /\ q.llmsScore \in Nat /\ q.llmsScore <= 200 /\ q.homeScore \in Nat /\ q.homeScore <= 100 /\ q.ms \in Nat
      /\ T!Total(q) \in Nat /\ T!Total(q) <= 66000000
  BY ReportInRange, SMT
<1>3. PICK a \in Nat, sp \in Nat, l \in Nat, h \in Nat :
         a = r.access /\ sp = r.speed /\ l = r.llmsScore /\ h = r.homeScore
  BY <1>1
<1>4. PICK a2 \in Nat, sp2 \in Nat, l2 \in Nat, h2 \in Nat :
         a2 = q.access /\ sp2 = q.speed /\ l2 = q.llmsScore /\ h2 = q.homeScore
  BY <1>2
<1>5. T!Total(r) = 35 * 600 * a + 30 * 11 * sp + 15 * 3300 * l + 10 * 6600 * h + 10 * 660000
  BY <1>3 DEF T!Total
<1>6. T!Total(q) = 35 * 600 * a2 + 30 * 11 * sp2 + 15 * 3300 * l2 + 10 * 6600 * h2 + 10 * 660000
  BY <1>4 DEF T!Total
<1>7. a <= a2 /\ sp <= sp2 /\ l <= l2 /\ h <= h2
  BY <1>3, <1>4 DEF AsGood
<1> QED BY <1>5, <1>6, <1>7, SMT

\* What a report says of the site alone, part by part.
LEMMA SameParts ==
  ASSUME NEW s \in T!Site, NEW t \in T!Site, NEW tr, NEW r, NEW q, r = T!Report(s, tr), q = T!Report(t, tr)
  PROVE  /\ T!Blocked(t, tr) \subseteq T!Blocked(s, tr) => r.access <= q.access
         /\ s.ms = t.ms => r.speed = q.speed
         /\ s.llms = t.llms => r.llmsScore = q.llmsScore
         /\ (s.home = t.home /\ ("FindableBot" \in T!Blocked(s, tr) <=> "FindableBot" \in T!Blocked(t, tr)))
               => r.homeScore = q.homeScore
<1>1. /\ r.speed = T!FirstByte(s, tr).score /\ r.llmsScore = (IF T!LlmsFound(s, tr) THEN T!LlmsScore(s.llms) ELSE 0)
      /\ r.access = T!CrawlerAccess(T!Blocked(s, tr)) /\ r.homeScore = T!HomeFound(s, tr).homeScore
  BY ReportIs
<1>2. /\ q.speed = T!FirstByte(t, tr).score /\ q.llmsScore = (IF T!LlmsFound(t, tr) THEN T!LlmsScore(t.llms) ELSE 0)
      /\ q.access = T!CrawlerAccess(T!Blocked(t, tr)) /\ q.homeScore = T!HomeFound(t, tr).homeScore
  BY ReportIs
<1>3. ASSUME T!Blocked(t, tr) \subseteq T!Blocked(s, tr) PROVE r.access <= q.access
  BY <1>1, <1>2, <1>3, AccessGrows
<1>4. ASSUME s.ms = t.ms PROVE r.speed = q.speed
  <2>1. T!FirstByte(s, tr) = T!FirstByte(t, tr)
    BY <1>4, SMT DEF T!FirstByte
  <2> QED BY <2>1, <1>1, <1>2
<1>5. ASSUME s.llms = t.llms PROVE r.llmsScore = q.llmsScore
  BY <1>1, <1>2, <1>5 DEF T!LlmsFound
<1>6. ASSUME s.home = t.home, "FindableBot" \in T!Blocked(s, tr) <=> "FindableBot" \in T!Blocked(t, tr)
      PROVE  r.homeScore = q.homeScore
  <2>1. PICK h : h = T!HomeFound(s, tr)
    OBVIOUS
  <2>2. PICK k : k = T!HomeFound(t, tr)
    OBVIOUS
  <2>3. h.homeScore = IF ~T!Down(tr) /\ "FindableBot" \notin T!Blocked(s, tr)
                      THEN T!Clipped(T!HomeScore(s.home)) ELSE 100
    BY <2>1, HomeFoundIs
  <2>4. k.homeScore = IF ~T!Down(tr) /\ "FindableBot" \notin T!Blocked(t, tr)
                      THEN T!Clipped(T!HomeScore(t.home)) ELSE 100
    BY <2>2, HomeFoundIs
  <2> QED BY <2>1, <2>2, <2>3, <2>4, <1>1, <1>2, <1>6
<1> QED BY <1>3, <1>4, <1>5, <1>6

\* Nobody is kept out by the fix for blocked search engines.
LEMMA UnblockBlocksLess ==
  ASSUME NEW s \in T!Site, NEW t \in T!Site, NEW tr, NEW A \in SUBSET SearchNames,
         t.robots = T!Groups(A) \o s.robots, A \subseteq T!Blocked(s, tr)
  PROVE  /\ T!Blocked(t, tr) \subseteq T!Blocked(s, tr)
         /\ "FindableBot" \in T!Blocked(s, tr) <=> "FindableBot" \in T!Blocked(t, tr)
<1>1. s.robots \in Seq(T!Lines)
  BY DEF T!Site
<1>2. \A c \in T!Crawlers : c \notin A => T!Allowed(t.robots, c) = T!Allowed(s.robots, c)
  BY <1>1, FixKeeps
<1>3. "FindableBot" \notin A /\ "FindableBot" \in T!Crawlers
  BY DEF SearchNames, T!Crawlers, T!Checked
<1>4. CASE T!Down(tr) \/ tr = "robots"
  BY <1>4 DEF T!Blocked
<1>5. CASE ~(T!Down(tr) \/ tr = "robots")
  <2>1. /\ T!Blocked(s, tr) = {c \in T!Crawlers : ~T!Allowed(s.robots, c)}
        /\ T!Blocked(t, tr) = {c \in T!Crawlers : ~T!Allowed(t.robots, c)}
    BY <1>5 DEF T!Blocked
  <2> QED BY <2>1, <1>2, <1>3
<1> QED BY <1>4, <1>5

\* An edit of robots.txt is an edit of nothing else.
LEMMA EditIs ==
  ASSUME NEW s \in T!Site, techReport.search \in SUBSET SearchNames, NEW t \in T!MoreRules(s)
  PROVE  t \in T!Site /\ t.home.noscript = s.home.noscript
<1>1. PICK R \in Seq(T!Lines), m \in Nat, l \in T!Llms, h \in T!Homes :
         s = [robots |-> R, ms |-> m, llms |-> l, home |-> h]
  BY DEF T!Site
<1>2. ASSUME NEW q \in Seq(T!Lines), t = [s EXCEPT !.robots = R \o q] PROVE t \in T!Site /\ t.home = h
  <2>1. PICK x \in Seq(T!Lines) : x = R \o q
    BY ConcatProperties
  <2>2. t = [robots |-> x, ms |-> m, llms |-> l, home |-> h]
    BY <1>1, <1>2, <2>1
  <2> QED BY <2>2 DEF T!Site
<1>3. CASE t \in {[s EXCEPT !.robots = s.robots \o T!Group(agent, "disallow")] :
                     agent \in {"OtherBot", "GPTBot", "Applebot-Extended"}}
  <2>1. PICK agent \in {"OtherBot", "GPTBot", "Applebot-Extended"} :
           t = [s EXCEPT !.robots = s.robots \o T!Group(agent, "disallow")]
    BY <1>3
  <2>2. T!Group(agent, "disallow") \in Seq(T!Lines)
    <3>1. [is |-> "agent", value |-> agent] \in T!Lines /\ [is |-> "disallow", value |-> "/"] \in T!Lines
      BY <2>1 DEF T!Lines, T!Agents, T!Crawlers, T!Checked, T!AICrawlers
    <3> QED BY <3>1 DEF T!Group
  <2> QED BY <2>1, <2>2, <1>1, <1>2
<1>4. CASE t = [s EXCEPT !.robots = s.robots \o T!Groups(techReport.search)]
  <2>1. PICK A \in SUBSET SearchNames : A = techReport.search
    OBVIOUS
  <2>2. "Googlebot" \in T!Crawlers /\ << >> \in Seq(T!Lines)
    BY DEF T!Crawlers, T!Checked, T!SearchCrawlers
  <2>3. T!Groups(A) \in Seq(T!Lines)
    BY GroupsAreLines
  <2> QED BY <2>1, <2>3, <1>1, <1>2, <1>4
<1>5. t \in {[s EXCEPT !.robots = s.robots \o T!Group(agent, "disallow")] :
                     agent \in {"OtherBot", "GPTBot", "Applebot-Extended"}}
      \/ t = [s EXCEPT !.robots = s.robots \o T!Groups(techReport.search)]
  BY DEF T!MoreRules
<1> QED BY <1>1, <1>3, <1>4, <1>5, <1>2

FixNames == {"unblock", "ttfb", "llms", "ssr"}
\* Something was made of the site since it was audited.
Altered == ~audited /\ last \in FixNames \cup {"edit"}

\* What is still to be seen of the fix that was made last.
Stands(f, s) ==
  /\ f = "unblock" /\ ~Patterned(s.robots) => \A c \in SearchNames : T!Allowed(s.robots, c)
  /\ f = "ttfb" => s.ms <= 450
  /\ f = "llms" => s.llms.exists
  /\ f = "ssr" => s.home.chars = 3000

\* The report is of the site, or of one that differs by what was made of it since.
TechInv ==
  /\ tech \in T!Site /\ techReport.trouble \in T!Troubles
  /\ \E s \in T!Site : techReport = T!Report(s, techReport.trouble) /\ s.home.noscript = tech.home.noscript
  /\ ~Altered => techReport = T!Report(tech, techReport.trouble)
  /\ Altered => "technical" \in moves
  /\ Stands(last, tech)
  /\ Altered /\ last \in FixNames /\ techReport.trouble = "none" =>
       T!Total(techReport) <= T!Total(T!Report(tech, "none"))

\* Who is kept out is asked for.
LEMMA SearchIs ==
  ASSUME NEW s, NEW tr, techReport = T!Report(s, tr)
  PROVE  /\ techReport.search = T!Blocked(s, tr) \cap SearchNames /\ techReport.trouble = tr
         /\ techReport.search \in SUBSET SearchNames
         /\ techReport.search # {} =>
              T!Blocked(s, tr) = {c \in T!Crawlers : ~T!Allowed(s.robots, c)}
<1>1. techReport.search = T!Blocked(s, tr) \cap SearchNames /\ techReport.trouble = tr
  BY ReportIs
<1>2. techReport.search # {} => ~(T!Down(tr) \/ tr = "robots")
  BY <1>1 DEF T!Blocked
<1> QED BY <1>1, <1>2 DEF T!Blocked

LEMMA FixStands ==
  ASSUME NEW s \in T!Site, NEW tr, techReport = T!Report(s, tr), NEW f \in T!Fixes(techReport),
         NEW t \in T!Fixed(s, f)
  PROVE  t \in T!Site /\ t.home.noscript = s.home.noscript /\ Stands(f, t) /\ f \in FixNames
<1>1. f \in {"unblock", "ttfb", "llms", "ssr"}
  BY FixesAre
<1>2. techReport.search \in SUBSET SearchNames
  BY SearchIs
<1>3. t \in T!Site /\ t.home.noscript = s.home.noscript /\ Made(f, s, techReport.search, t)
  BY <1>1, <1>2, FixedIs
<1>4. ASSUME f = "unblock", ~Patterned(t.robots), NEW c \in SearchNames
      PROVE  T!Allowed(t.robots, c)
  <2>1. techReport.search # {}
    BY <1>4, FixesAre
  <2>2. T!Blocked(s, tr) = {x \in T!Crawlers : ~T!Allowed(s.robots, x)}
        /\ techReport.search = T!Blocked(s, tr) \cap SearchNames
    BY <2>1, SearchIs
  <2>3. PICK A \in SUBSET SearchNames : A = techReport.search
    BY <1>2
  <2>4. PICK R \in Seq(T!Lines) : R = s.robots
    BY DEF T!Site
  <2>5. c \in T!Crawlers
    BY SearchCrawlersAre DEF T!Crawlers, T!Checked
  <2>6. c \in A \/ T!Allowed(R, c)
    BY <2>2, <2>3, <2>4, <2>5
  <2>7. t.robots = T!Groups(A) \o R
    <3>1. t.robots = T!Groups(techReport.search) \o s.robots
      BY <1>3, <1>4, Zenon DEF Made
    <3> QED BY <3>1, <2>3, <2>4
  <2> QED BY <2>5, <2>6, <2>7, <1>4, FixAllows
<1> QED BY <1>1, <1>3, <1>4 DEF Stands, Made, FixNames

LEMMA SpeedFalls ==
  ASSUME NEW slow \in Nat, NEW fast \in Nat, T!TooSlow(slow), fast <= 450
  PROVE  T!Speed(slow) <= T!Speed(fast)
<1>1. T!Speed(fast) >= 30000 /\ T!Speed(fast) \in Nat
  <2>1. ~T!TooSlow(fast)
    BY DEF T!TooSlow
  <2> QED BY <2>1, SpeedBound
<1>2. T!Speed(slow) <= 30000
  <2>1. CASE slow < 1500
    BY <2>1, SMT DEF T!Speed, T!TooSlow
  <2>2. CASE ~(slow < 1500)
    BY <2>2, SMT DEF T!Speed, T!TooSlow, T!Points
  <2> QED BY <2>1, <2>2
<1> QED BY <1>1, <1>2, SpeedBound, SMT

\* The rendered page is no worse than the empty one was.
LEMMA RenderedIsBetter ==
  ASSUME NEW b \in T!Homes, NEW a \in T!Homes, NEW x \in Nat, x = 3000, a.chars = x,
         a.framework = b.framework, a.markers = b.markers, a.loading => b.loading,
         a.noscript = b.noscript
  PROVE  T!Clipped(T!HomeScore(b)) <= T!Clipped(T!HomeScore(a))
<1>1. PICK n \in Nat : n = b.chars
  BY DEF T!Homes
<1>2. PICK fw \in {0, 30}, ns \in {0, 10}, mk \in {0, 10} :
         fw = T!Points(b.framework, 30) /\ ns = T!Points(b.noscript, 10) /\ mk = T!Points(b.markers, 10)
  BY DEF T!Points
<1>3. PICK lb \in {0, 15}, la \in {0, 15} :
         lb = T!Points(b.loading, 15) /\ la = T!Points(a.loading, 15) /\ la <= lb
  BY DEF T!Points
<1>4. PICK u \in Int : u = T!HomeScore(b) /\ u <= 100 - fw - lb + ns - mk
  <2>1. T!HomeScore(b) = 100 - (IF n < 100 THEN 60 ELSE IF n < 500 THEN 40 ELSE IF n < 1000 THEN 20 ELSE 0)
                            - fw - lb + ns - mk
    BY <1>1, <1>2, <1>3 DEF T!HomeScore, T!Shell, T!Points
  <2> QED BY <2>1
<1>5. PICK v \in Int : v = T!HomeScore(a) /\ v = 100 - fw - la + ns - mk
  BY <1>2, <1>3, SMT DEF T!HomeScore, T!Shell, T!Points
<1>6. u <= v
  BY <1>3, <1>4, <1>5
<1> QED BY <1>4, <1>5, <1>6 DEF T!Clipped

\* A fix does not take points from a site that could be fetched.
LEMMA FixGains ==
  ASSUME NEW s \in T!Site, techReport = T!Report(s, "none"), NEW f \in T!Fixes(techReport),
         NEW t \in T!Fixed(s, f)
  PROVE  T!Total(techReport) <= T!Total(T!Report(t, "none"))
<1>1. f \in {"unblock", "ttfb", "llms", "ssr"}
  BY FixesAre
<1>2. techReport.search \in SUBSET SearchNames
  BY SearchIs
<1>3. t \in T!Site /\ Made(f, s, techReport.search, t)
  BY <1>1, <1>2, FixedIs
<1>4. PICK r, q : r = T!Report(s, "none") /\ q = T!Report(t, "none")
  OBVIOUS
<1>5. r = techReport
  BY <1>4
<1>6. /\ T!Blocked(t, "none") \subseteq T!Blocked(s, "none") => r.access <= q.access
      /\ s.ms = t.ms => r.speed = q.speed
      /\ s.llms = t.llms => r.llmsScore = q.llmsScore
      /\ (s.home = t.home /\ ("FindableBot" \in T!Blocked(s, "none") <=> "FindableBot" \in T!Blocked(t, "none")))
            => r.homeScore = q.homeScore
  BY <1>3, <1>4, SameParts
<1>7. /\ r.access \in Nat /\ r.access <= 1100 /\ r.speed \in Nat /\ r.speed <= 60000
      /\ r.llmsScore \in Nat /\ r.llmsScore <= 200 /\ r.homeScore \in Nat /\ r.homeScore <= 100 /\ r.ms \in Nat
  BY <1>4, ReportInRange, SMT
<1>8. /\ q.access \in Nat /\ q.access <= 1100 /\ q.speed \in Nat /\ q.speed <= 60000
      /\ q.llmsScore \in Nat /\ q.llmsScore <= 200 /\ q.homeScore \in Nat /\ q.homeScore <= 100 /\ q.ms \in Nat
  BY <1>3, <1>4, ReportInRange, SMT
<1>9. AsGood(r, q)
  <2>1. CASE f = "unblock"
    <3>1. PICK A \in SUBSET SearchNames : A = techReport.search
      BY <1>2
    <3>2. t.robots = T!Groups(A) \o s.robots
      <4>1. t.robots = T!Groups(techReport.search) \o s.robots
        BY <1>3, <2>1, Zenon DEF Made
      <4> QED BY <4>1, <3>1
    <3>3. A \subseteq T!Blocked(s, "none")
      BY <3>1, SearchIs
    <3>4. /\ T!Blocked(t, "none") \subseteq T!Blocked(s, "none")
          /\ "FindableBot" \in T!Blocked(s, "none") <=> "FindableBot" \in T!Blocked(t, "none")
      BY <1>3, <3>2, <3>3, UnblockBlocksLess
    <3>5. s.ms = t.ms /\ s.llms = t.llms /\ s.home = t.home
      BY <1>3, <2>1 DEF Made
    <3> QED BY <1>6, <1>7, <3>4, <3>5 DEF AsGood
  <2>2. ASSUME f # "unblock" PROVE T!Blocked(t, "none") = T!Blocked(s, "none") /\ r.access <= q.access
    <3>1. t.robots = s.robots
      BY <1>3, <2>2 DEF Made
    <3>2. T!Blocked(t, "none") = T!Blocked(s, "none")
      BY <3>1 DEF T!Blocked
    <3> QED BY <3>2, <1>6
  <2>3. CASE f = "ttfb"
    <3>1. s.llms = t.llms /\ s.home = t.home /\ t.ms <= 450
      BY <1>3, <2>3 DEF Made
    <3>2. r.ms = T!FirstByte(s, "none").ms /\ r.speed = T!FirstByte(s, "none").score
          /\ q.speed = T!FirstByte(t, "none").score
      BY <1>4, ReportIs
    <3>3. r.ms = s.ms /\ r.speed = T!Speed(s.ms) /\ q.speed = T!Speed(t.ms)
      BY <3>2 DEF T!FirstByte, T!Down
    <3>4. T!TooSlow(s.ms)
      BY <1>5, <2>3, <3>3, FixesAre
    <3>5. s.ms \in Nat /\ t.ms \in Nat
      BY <1>3 DEF T!Site
    <3>6. T!Speed(s.ms) <= T!Speed(t.ms)
      BY <3>1, <3>4, <3>5, SpeedFalls
    <3>7. f # "unblock"
      BY <2>3
    <3>8. r.access <= q.access /\ r.llmsScore <= q.llmsScore /\ r.homeScore <= q.homeScore
      BY <1>6, <1>7, <2>2, <3>1, <3>7
    <3> QED BY <3>3, <3>6, <3>8 DEF AsGood
  <2>4. CASE f = "llms"
    <3>1. s.ms = t.ms /\ s.home = t.home
      BY <1>3, <2>4 DEF Made
    <3>2. r.llms = T!LlmsFound(s, "none")
          /\ r.llmsScore = (IF T!LlmsFound(s, "none") THEN T!LlmsScore(s.llms) ELSE 0)
      BY <1>4, ReportIs
    <3>3. ~r.llms
      BY <1>5, <2>4, FixesAre
    <3>4. r.llmsScore = 0
      BY <3>2, <3>3
    <3>5. f # "unblock"
      BY <2>4
    <3> QED BY <1>6, <1>7, <1>8, <2>2, <3>1, <3>4, <3>5 DEF AsGood
  <2>5. CASE f = "ssr"
    <3>1. s.ms = t.ms /\ s.llms = t.llms
      BY <1>3, <2>5 DEF Made
    <3>2. PICK h, k : h = T!HomeFound(s, "none") /\ k = T!HomeFound(t, "none")
      OBVIOUS
    <3>3. /\ r.homeScore = h.homeScore /\ q.homeScore = k.homeScore
          /\ h.homeScore = IF ~T!Down("none") /\ "FindableBot" \notin T!Blocked(s, "none")
                           THEN T!Clipped(T!HomeScore(s.home)) ELSE 100
          /\ k.homeScore = IF ~T!Down("none") /\ "FindableBot" \notin T!Blocked(t, "none")
                           THEN T!Clipped(T!HomeScore(t.home)) ELSE 100
      BY <3>2, <1>4, ReportIs, HomeFoundIs
    <3>4. T!Clipped(T!HomeScore(s.home)) <= T!Clipped(T!HomeScore(t.home))
      <4>1. s.home \in T!Homes /\ t.home \in T!Homes
        BY <1>3 DEF T!Site
      <4>2. PICK b \in T!Homes, a \in T!Homes : b = s.home /\ a = t.home
        BY <4>1
      <4>3. PICK x \in Nat : x = 3000
        OBVIOUS
      <4>4. a.chars = x /\ a.framework = b.framework /\ a.markers = b.markers /\ (a.loading => b.loading)
            /\ a.noscript = b.noscript
        <5>1. t.home.noscript = s.home.noscript
          BY <1>1, <1>2, FixedIs
        <5> QED BY <1>3, <2>5, <4>2, <4>3, <5>1, SMT DEF Made
      <4> QED BY <4>2, <4>3, <4>4, RenderedIsBetter
    <3>5. f # "unblock"
      BY <2>5
    <3>6. r.homeScore <= q.homeScore
      BY <2>2, <3>3, <3>4, <3>5
    <3> QED BY <1>6, <1>7, <2>2, <3>1, <3>5, <3>6 DEF AsGood
  <2> QED BY <2>1, <2>3, <2>4, <2>5, <1>1
<1> QED BY <1>3, <1>4, <1>5, <1>9, TotalGrows

LEMMA TechInit == Init => TechInv
<1> SUFFICES ASSUME Init PROVE TechInv
  OBVIOUS
<1>1. PICK s \in Sites : tech = s.tech
  BY DEF Init
<1>2. tech \in T!Site
  BY <1>1, SitesAssumption
<1>3. ~audited /\ last = "none" /\ techReport = T!Report(tech, "none")
  BY DEF Init
<1>4. techReport.trouble = "none"
  BY <1>3, ReportIs
<1>5. ~Altered /\ Stands(last, tech)
  BY <1>3 DEF Altered, Stands, FixNames
<1> QED BY <1>2, <1>3, <1>4, <1>5 DEF TechInv, T!Troubles

\* What leaves the technical part as it is, and does not call itself a fix.
LEMMA TechStays ==
  ASSUME TechInv, UNCHANGED <<moves, tech, techReport>>,
         \/ UNCHANGED <<audited, last>>
         \/ audited /\ ~audited' /\ last' \in {"brand", "again", "fix", "change"}
  PROVE  TechInv'
<1>1. CASE UNCHANGED <<audited, last>>
  BY <1>1 DEF TechInv, Altered
<1>2. CASE audited /\ ~audited' /\ last' \in {"brand", "again", "fix", "change"}
  <2>1. ~Altered /\ ~Altered' /\ last' \notin FixNames
    BY <1>2 DEF Altered, FixNames
  <2>2. Stands(last', tech')
    BY <2>1 DEF Stands, FixNames
  <2>3. techReport = T!Report(tech, techReport.trouble)
    BY <2>1 DEF TechInv
  <2> QED BY <2>1, <2>2, <2>3 DEF TechInv
<1> QED BY <1>1, <1>2

LEMMA TechMoves == TechInv /\ TechnicalMoves => TechInv'
<1> SUFFICES ASSUME TechInv, TechnicalMoves PROVE TechInv'
  OBVIOUS
<1>1. audited /\ ~audited' /\ "technical" \in moves /\ moves' = moves /\ techReport' = techReport
  BY DEF TechnicalMoves, T!EditRobots, T!MakeFix
<1>2. PICK tr \in T!Troubles : tr = techReport.trouble
  BY DEF TechInv
<1>3. tech \in T!Site /\ techReport = T!Report(tech, tr) /\ techReport.trouble = tr
  BY <1>1, <1>2 DEF TechInv, Altered
<1>4. CASE T!EditRobots
  <2>1. tech' \in T!MoreRules(tech) /\ last' = "edit"
    BY <1>4 DEF T!EditRobots
  <2>2. techReport.search \in SUBSET SearchNames
    BY <1>3, SearchIs
  <2>3. tech' \in T!Site /\ tech'.home.noscript = tech.home.noscript
    BY <1>3, <2>1, <2>2, EditIs
  <2>4. Stands(last', tech')
    BY <2>1 DEF Stands
  <2>5. Altered' /\ last' \notin FixNames
    BY <1>1, <2>1 DEF Altered, FixNames
  <2> QED BY <1>1, <1>2, <1>3, <2>3, <2>4, <2>5 DEF TechInv
<1>5. ASSUME NEW f \in T!Fixes(techReport), T!MakeFix(f) PROVE TechInv'
  <2>1. tech' \in T!Fixed(tech, f) /\ last' = f
    BY <1>5 DEF T!MakeFix
  <2>2. tech' \in T!Site /\ tech'.home.noscript = tech.home.noscript /\ Stands(f, tech') /\ f \in FixNames
    BY <1>3, <2>1, FixStands
  <2>3. Altered'
    BY <1>1, <2>1, <2>2 DEF Altered
  <2>4. tr = "none" => T!Total(techReport) <= T!Total(T!Report(tech', "none"))
    BY <1>3, <2>1, FixGains
  <2> QED BY <1>1, <1>2, <1>3, <2>1, <2>2, <2>3, <2>4 DEF TechInv
<1> QED BY <1>4, <1>5 DEF TechnicalMoves

LEMMA TechAudit == TechInv /\ Audit => TechInv'
<1> SUFFICES ASSUME TechInv, Audit PROVE TechInv'
  OBVIOUS
<1>1. ~audited /\ audited' /\ UNCHANGED <<moves, tech, last>>
  BY DEF Audit
<1>2. ~Altered'
  BY <1>1 DEF Altered
<1>3. CASE "technical" \in moves
  <2>1. PICK tr \in T!Troubles : techReport' = T!Report(tech, tr)
    BY <1>3 DEF Audit, T!Audit
  <2>2. techReport'.trouble = tr
    BY <2>1, ReportIs
  <2> QED BY <1>1, <1>2, <2>1, <2>2 DEF TechInv
<1>4. CASE "technical" \notin moves
  <2>1. techReport' = techReport
    BY <1>4 DEF Audit, techVars
  <2>2. ~Altered
    BY <1>4 DEF TechInv
  <2> QED BY <1>1, <1>2, <2>1, <2>2 DEF TechInv
<1> QED BY <1>3, <1>4

LEMMA TechNext == TechInv /\ [Next]_vars => TechInv'
<1> SUFFICES ASSUME TechInv, [Next]_vars PROVE TechInv'
  OBVIOUS
<1>1. CASE Audit
  BY <1>1, TechAudit
<1>2. CASE Again
  BY <1>2, TechStays DEF Again, techVars
<1>3. CASE TechnicalMoves
  BY <1>3, TechMoves
<1>4. CASE TextMoves
  BY <1>4, TechStays DEF TextMoves, techVars, Q!Change, Q!MakeFix
<1>5. CASE BrandMoves
  BY <1>5, TechStays DEF BrandMoves, techVars
<1>6. CASE UNCHANGED vars
  BY <1>6, TechStays DEF vars
<1> QED BY <1>1, <1>2, <1>3, <1>4, <1>5, <1>6 DEF Next

\* The report of the technical checks is of a site that is there, and it comes to
\* no more than that of the site after a fix.
THEOREM TechnicalHolds == Spec => []TechInv
<1>1. Init => TechInv
  BY TechInit
<1>2. TechInv /\ [Next]_vars => TechInv'
  BY TechNext
<1> QED BY <1>1, <1>2, PTL DEF Spec

LEMMA TechSuffices == TechInv => FixesSuffice
<1> SUFFICES ASSUME TechInv PROVE FixesSuffice
  OBVIOUS
<1>1. T!NothingLeft
  <2> SUFFICES ASSUME techReport.trouble = "none", T!Fixes(techReport) = {} PROVE T!Level(techReport) # "limited"
    BY DEF T!NothingLeft
  <2>1. PICK s \in T!Site : techReport = T!Report(s, "none")
    BY DEF TechInv
  <2> QED BY <2>1, NothingLeftOfReport
<1>2. T!FixIsMet
  <2> SUFFICES ASSUME audited, techReport.trouble = "none", last \in T!Fixes(techReport)
               PROVE  \/ last = "unblock" /\ Patterned(tech.robots)
                      \/ last = "ssr" /\ tech.home.framework /\ tech.home.markers /\ tech.home.loading
    BY DEF T!FixIsMet, Patterned
  <2>1. tech \in T!Site /\ techReport = T!Report(tech, "none") /\ Stands(last, tech)
    BY DEF TechInv, Altered
  <2>2. last \in {"unblock", "ttfb", "llms", "ssr"}
    BY FixesAre
  <2>3. CASE last = "unblock"
    <3>1. techReport.search # {}
      BY <2>3, FixesAre
    <3>2. techReport.search = T!Blocked(tech, "none") \cap SearchNames
          /\ T!Blocked(tech, "none") = {c \in T!Crawlers : ~T!Allowed(tech.robots, c)}
      BY <2>1, <3>1, SearchIs
    <3>3. ~(\A c \in SearchNames : T!Allowed(tech.robots, c))
      BY <3>1, <3>2
    <3> QED BY <2>1, <2>3, <3>3 DEF Stands
  <2>4. last # "ttfb"
    <3> SUFFICES ASSUME last = "ttfb" PROVE FALSE
      OBVIOUS
    <3>1. T!TooSlow(techReport.ms) /\ techReport.ms = T!FirstByte(tech, "none").ms
      BY <2>1, FixesAre, ReportIs
    <3>2. T!FirstByte(tech, "none").ms = tech.ms /\ tech.ms <= 450 /\ tech.ms \in Nat
      BY <2>1 DEF T!FirstByte, T!Down, Stands, T!Site
    <3> QED BY <3>1, <3>2 DEF T!TooSlow
  <2>5. last # "llms"
    <3> SUFFICES ASSUME last = "llms" PROVE FALSE
      OBVIOUS
    <3>1. ~techReport.llms /\ techReport.llms = T!LlmsFound(tech, "none")
      BY <2>1, FixesAre, ReportIs
    <3>2. tech.llms.exists
      BY <2>1 DEF Stands
    <3> QED BY <3>1, <3>2 DEF T!LlmsFound, T!Down
  <2>6. CASE last = "ssr"
    <3>1. techReport.dependent /\ techReport.dependent = T!HomeFound(tech, "none").dependent
      BY <2>1, <2>6, FixesAre, ReportIs
    <3>2. PICK h : h = T!HomeFound(tech, "none")
      OBVIOUS
    <3>3. T!Dependent(tech.home)
      <4>1. h.dependent = ((~T!Down("none") /\ "FindableBot" \notin T!Blocked(tech, "none")) /\ T!Dependent(tech.home))
        BY <3>2, HomeFoundIs
      <4> QED BY <4>1, <3>1, <3>2
    <3>4. PICK home \in T!Homes : home = tech.home
      BY <2>1 DEF T!Site
    <3>5. home.chars >= 1000
      <4>1. PICK n \in Nat : n = 3000
        OBVIOUS
      <4>2. home.chars = n
        BY <2>1, <2>6, <3>4, <4>1 DEF Stands
      <4> QED BY <4>1, <4>2
    <3> QED BY <2>6, <3>3, <3>4, <3>5, HomeBound
  <2> QED BY <2>2, <2>3, <2>4, <2>5, <2>6
<1> QED BY <1>1, <1>2 DEF FixesSuffice

\* A technical fix that was made is not asked for again, and a site with none left is
\* not limited (generate_technical_fixes of the checks, TechnicalReadiness.level).
THEOREM FixesAreMet == Spec => []FixesSuffice
<1>1. TechInv => FixesSuffice
  BY TechSuffices
<1> QED BY <1>1, TechnicalHolds, PTL

\* Sequences laid one after another are a sequence.
LEMMA FlattenIsSeq ==
  ASSUME NEW S, NEW n \in Nat, NEW seqs \in [1..n -> Seq(S)]
  PROVE  Q!FlattenSeq(seqs) \in Seq(S)
<1> DEFINE Is(h) == h = [i \in 1..n |-> IF i = 1 THEN seqs[i] ELSE h[i - 1] \o seqs[i]]
<1>1. Len(seqs) = n
  <2> DEFINE V == Seq(S)
  <2>1. seqs \in [1..n -> V]
    OBVIOUS
  <2> HIDE DEF V
  <2> QED BY <2>1
<1>2. CASE n = 0
  <2>1. Q!FlattenSeq(seqs) = seqs
    BY <1>1, <1>2 DEF Q!FlattenSeq
  <2>2. 1..n = {}
    BY <1>2
  <2>3. seqs \in [1..n -> S]
    BY <2>2
  <2> QED BY <2>1, <2>3
<1>3. CASE n # 0
  <2> DEFINE upTo(k) == 1..k
             Laid(k) == \E f \in [upTo(k) -> Seq(S)] :
                          \A i \in upTo(k) : f[i] = IF i = 1 THEN seqs[i] ELSE f[i - 1] \o seqs[i]
             G == {k \in Nat : k <= n => Laid(k)}
  <2>1. 0 \in G
    <3>1. upTo(0) = {}
      OBVIOUS
    <3>2. [i \in upTo(0) |-> << >>] \in [upTo(0) -> Seq(S)]
      BY <3>1
    <3> QED BY <3>1, <3>2
  <2>2. \A k \in Nat : k \in G => k + 1 \in G
    <3> TAKE k \in Nat
    <3> HAVE k \in G
    <3> SUFFICES ASSUME k + 1 <= n PROVE Laid(k + 1)
      <4> HIDE DEF Laid
      <4> QED OBVIOUS
    <3>1. PICK f \in [upTo(k) -> Seq(S)] :
            \A i \in upTo(k) : f[i] = IF i = 1 THEN seqs[i] ELSE f[i - 1] \o seqs[i]
      <4>1. k <= n /\ k \in G
        OBVIOUS
      <4>2. Laid(k)
        <5> HIDE DEF Laid
        <5> QED BY <4>1
      <4> QED BY <4>2
    <3>2. PICK m \in Nat : m = k + 1
      OBVIOUS
    <3>3. m \in 1..n /\ seqs[m] \in Seq(S)
      BY <3>2
    <3>4. PICK s \in Seq(S) : s = IF k = 0 THEN seqs[m] ELSE f[k] \o seqs[m]
      <4>1. CASE k = 0
        BY <4>1, <3>3
      <4>2. CASE k # 0
        <5>1. f[k] \in Seq(S)
          BY <4>2, <3>1
        <5> QED BY <4>2, <5>1, <3>3, ConcatProperties
      <4> QED BY <4>1, <4>2
    <3> DEFINE g == [i \in upTo(m) |-> IF i = m THEN s ELSE f[i]]
    <3>5. \A i \in upTo(m) : i # m => i \in upTo(k)
      BY <3>2
    <3>6. g \in [upTo(m) -> Seq(S)]
      BY <3>1, <3>4, <3>5
    <3>7. \A i \in upTo(m) : g[i] = IF i = 1 THEN seqs[i] ELSE g[i - 1] \o seqs[i]
      <4> TAKE i \in upTo(m)
      <4>1. i # 1 => i - 1 \in upTo(m) /\ i - 1 # m /\ i - 1 \in upTo(k)
        BY <3>2
      <4>2. i # 1 => g[i - 1] = f[i - 1]
        BY <4>1
      <4>3. CASE i = m
        <5>1. g[i] = s
          BY <4>3
        <5>2. k # 0 => i # 1 /\ i - 1 = k
          BY <4>3, <3>2
        <5> HIDE DEF g
        <5> QED BY <4>2, <4>3, <5>1, <5>2, <3>4, <3>2
      <4>4. CASE i # m
        <5>1. g[i] = f[i] /\ i \in upTo(k)
          BY <4>4, <3>5
        <5> HIDE DEF g
        <5> QED BY <4>2, <5>1, <3>1
      <4> QED BY <4>3, <4>4
    <3> HIDE DEF g, upTo
    <3> QED BY <3>2, <3>6, <3>7
  <2>3. Nat \subseteq G
    <3> HIDE DEF G
    <3> QED BY <2>1, <2>2, NatByStep
  <2>4. \E f : Is(f)
    <3>1. PICK f \in [upTo(n) -> Seq(S)] :
            \A i \in upTo(n) : f[i] = IF i = 1 THEN seqs[i] ELSE f[i - 1] \o seqs[i]
      <4>1. n \in G /\ n <= n
        <5> HIDE DEF G
        <5> QED BY <2>3
      <4>2. Laid(n)
        <5> HIDE DEF Laid
        <5> QED BY <4>1
      <4> QED BY <4>2
    <3>2. f = [i \in 1..n |-> f[i]]
      BY <3>1
    <3>3. Is(f)
      BY <3>1, <3>2
    <3> QED BY <3>3
  <2>5. PICK h : h = (CHOOSE h_1 : Is(h_1)) /\ Is(h)
    <3> HIDE DEF Is
    <3> QED BY <2>4, Zenon
  <2>6. Q!FlattenSeq(seqs) = h[n]
    <3>1. h = CHOOSE h_1 : h_1 = [i \in 1..Len(seqs) |-> IF i = 1 THEN seqs[i] ELSE h_1[i - 1] \o seqs[i]]
      BY <2>5, <1>1, Zenon
    <3>2. Q!FlattenSeq(seqs) = (CHOOSE h_1 : h_1 = [i \in 1..Len(seqs) |-> IF i = 1 THEN seqs[i] ELSE h_1[i - 1] \o seqs[i]])[Len(seqs)]
      BY <1>1, <1>3, Zenon DEF Q!FlattenSeq
    <3> QED BY <3>1, <3>2, <1>1
  <2> DEFINE F == {i \in Nat : i + 1 \in 1..n => h[i + 1] \in Seq(S)}
  <2>7. 0 \in F
    <3>1. 1 \in 1..n
      BY <1>3
    <3>2. h[1] = seqs[1]
      BY <2>5, <3>1
    <3> QED BY <3>1, <3>2
  <2>8. \A i \in Nat : i \in F => i + 1 \in F
    <3> TAKE i \in Nat
    <3> HAVE i \in F
    <3> SUFFICES ASSUME (i + 1) + 1 \in 1..n PROVE h[(i + 1) + 1] \in Seq(S)
      OBVIOUS
    <3>1. PICK j \in 1..n : j = (i + 1) + 1
      OBVIOUS
    <3>2. j # 1 /\ j - 1 = i + 1 /\ j - 1 \in 1..n
      BY <3>1
    <3>3. h[j] = h[j - 1] \o seqs[j]
      BY <2>5, <3>2
    <3>4. h[j - 1] \in Seq(S)
      BY <3>2
    <3>5. h[j - 1] \o seqs[j] \in Seq(S)
      BY <3>4, ConcatProperties
    <3> QED BY <3>1, <3>3, <3>5
  <2>9. Nat \subseteq F
    <3> HIDE DEF F
    <3> QED BY <2>7, <2>8, NatByStep
  <2>10. h[n] \in Seq(S)
    <3>1. PICK i \in Nat : i + 1 = n
      BY <1>3
    <3>2. i \in F
      <4> HIDE DEF F
      <4> QED BY <2>9
    <3> QED BY <3>1, <3>2, <1>3
  <2> QED BY <2>6, <2>10
<1> QED BY <1>2, <1>3

LEMMA UpToIsFinite ==
  ASSUME NEW n \in Nat
  PROVE  IsFiniteSet(1..n) /\ Cardinality(1..n) = n
<1>1. PICK a \in Int : a = 1
  OBVIOUS
<1>2. IsFiniteSet(a..n) /\ Cardinality(a..n) = IF a > n THEN 0 ELSE n - a + 1
  BY FS_Interval
<1> QED BY <1>1, <1>2

\* Two of a set of numbers have less than two below them.
LEMMA FirstTwo ==
  ASSUME NEW N \in SUBSET Nat, IsFiniteSet(N), NEW first, first = {i \in N : Cardinality({j \in N : j < i}) < 2}
  PROVE  IsFiniteSet(first) /\ Cardinality(first) <= 2 /\ Cardinality(first) \in Nat
<1>0. \A a, b : a # b => IsFiniteSet({a, b}) /\ Cardinality({a, b}) = 2
  <2> TAKE a, b
  <2> HAVE a # b
  <2>1. IsFiniteSet({a}) /\ Cardinality({a}) = 1
    BY FS_Singleton
  <2>2. PICK A : A = {a} /\ IsFiniteSet(A) /\ Cardinality(A) = 1 /\ b \notin A
    BY <2>1
  <2>3. IsFiniteSet(A \cup {b}) /\ Cardinality(A \cup {b}) = 2
    <3>1. IsFiniteSet(A \cup {b}) /\ Cardinality(A \cup {b}) = Cardinality(A) + 1
      BY <2>2, FS_AddElement
    <3> QED BY <2>2, <3>1
  <2>4. A \cup {b} = {a, b}
    BY <2>2
  <2> QED BY <2>3, <2>4
<1>1. CASE N = {}
  <2>1. first = {}
    BY <1>1
  <2>2. IsFiniteSet({}) /\ Cardinality({}) = 0
    BY FS_EmptySet
  <2>3. 0 <= 2 /\ 0 \in Nat
    OBVIOUS
  <2> QED BY <2>1, <2>2, <2>3, Zenon
<1>2. CASE N # {}
  <2>1. PICK a \in N : \A m \in N : a <= m
    BY <1>2, LeastNat
  <2>2. CASE N = {a}
    <3>1. IsFiniteSet({a}) /\ Cardinality({a}) = 1
      BY FS_Singleton
    <3>2. first \in SUBSET {a}
      BY <2>2
    <3>3. IsFiniteSet(first) /\ Cardinality(first) <= Cardinality({a})
      BY <3>1, <3>2, FS_Subset
    <3> QED BY <3>1, <3>3, FS_CardinalityType
  <2>3. CASE N # {a}
    <3>1. N \ {a} \in SUBSET Nat /\ N \ {a} # {}
      BY <2>3, <2>1
    <3>2. PICK b \in N \ {a} : \A m \in N \ {a} : b <= m
      BY <3>1, LeastNat
    <3>3. ASSUME NEW i \in first, i # a, i # b PROVE FALSE
      <4>1. i \in N /\ Cardinality({j \in N : j < i}) < 2
        BY <3>3
      <4>2. {a, b} \in SUBSET {j \in N : j < i}
        BY <2>1, <3>2, <3>3, <4>1
      <4>3. IsFiniteSet({j \in N : j < i})
        BY FS_Subset
      <4>4. Cardinality({a, b}) <= Cardinality({j \in N : j < i})
        BY <4>2, <4>3, FS_Subset
      <4>5. Cardinality({a, b}) = 2 /\ Cardinality({j \in N : j < i}) \in Nat
        BY <1>0, <3>2, <4>3, FS_CardinalityType
      <4> QED BY <4>1, <4>4, <4>5
    <3>4. first \in SUBSET {a, b}
      BY <3>3
    <3>5. IsFiniteSet({a, b}) /\ Cardinality({a, b}) = 2
      BY <1>0, <3>2
    <3>6. IsFiniteSet(first) /\ Cardinality(first) <= Cardinality({a, b})
      BY <3>4, <3>5, FS_Subset
    <3> QED BY <3>5, <3>6, FS_CardinalityType
  <2> QED BY <2>2, <2>3
<1> QED BY <1>1, <1>2

Types8 == DOMAIN Q!Templates

LEMMA TemplatesAre ==
  /\ IsFiniteSet(Types8)
  /\ \A t \in Types8 : Q!Templates[t] \in Seq(Q!Categories) /\ Len(Q!Templates[t]) \in 1..3
<1> DEFINE names == {"Product", "LocalBusiness", "Organization", "SoftwareApplication", "Service", "Article",
                     "FAQPage", "HowTo"}
<1>1. Types8 = names
  BY DEF Types8, Q!Templates
<1>2. \A t \in names : Q!Templates[t] \in Seq(Q!Categories) /\ Len(Q!Templates[t]) \in 1..3
  <2>1. /\ Q!Templates["Product"] = <<"offerings", "offerings", "trust">>
        /\ Q!Templates["LocalBusiness"] = <<"contact", "contact", "offerings">>
        /\ Q!Templates["Organization"] = <<"identity", "trust">>
        /\ Q!Templates["SoftwareApplication"] = <<"offerings", "offerings", "offerings">>
        /\ Q!Templates["Service"] = <<"offerings", "offerings">>
        /\ Q!Templates["Article"] = <<"identity", "trust">>
        /\ Q!Templates["FAQPage"] = <<"offerings">>
        /\ Q!Templates["HowTo"] = <<"offerings", "offerings">>
    BY DEF Q!Templates
  <2>2. {"identity", "offerings", "contact", "trust"} \subseteq Q!Categories
    BY DEF Q!Categories
  <2>3. \A a, b, c \in Q!Categories :
           /\ <<a>> \in Seq(Q!Categories) /\ Len(<<a>>) \in 1..3
           /\ <<a, b>> \in Seq(Q!Categories) /\ Len(<<a, b>>) \in 1..3
           /\ <<a, b, c>> \in Seq(Q!Categories) /\ Len(<<a, b, c>>) \in 1..3
    OBVIOUS
  <2> TAKE t \in names
  <2>4. PICK a \in Q!Categories, b \in Q!Categories, c \in Q!Categories :
          Q!Templates[t] \in {<<a>>, <<a, b>>, <<a, b, c>>}
    BY <2>1, <2>2
  <2> QED BY <2>3, <2>4
<1>3. IsFiniteSet(names)
  <2>1. names = (((((({"Product"} \cup {"LocalBusiness"}) \cup {"Organization"}) \cup {"SoftwareApplication"})
                 \cup {"Service"}) \cup {"Article"}) \cup {"FAQPage"}) \cup {"HowTo"}
    OBVIOUS
  <2>2. IsFiniteSet({"Product"}) /\ \A S, x : IsFiniteSet(S) => IsFiniteSet(S \cup {x})
    BY FS_Singleton, FS_AddElement
  <2> HIDE DEF names
  <2> QED BY <2>1, <2>2
<1> QED BY <1>1, <1>2, <1>3

LEMMA PatternsAre == \A h \in DOMAIN Q!Patterns : Q!Patterns[h] \in Q!Categories
BY DEF Q!Patterns, Q!Categories

LEMMA QCount == ASSUME NEW S PROVE Q!Cardinality(S) = Cardinality(S)
BY Zenon DEF Q!Cardinality, Cardinality

\* A question that was derived has no signals.
Plain(q) == q.category \in Q!Categories /\ q.signals = 0

LEMMA DerivedAre ==
  ASSUME NEW s, NEW H, s.headings \in Seq(H), NEW known \in Q!SetToSeqs(s.types \cap DOMAIN Q!Templates)
  PROVE  /\ IsFiniteSet(Q!Derived(s, known)) /\ Cardinality(Q!Derived(s, known)) <= 5
         /\ \A q \in Q!Derived(s, known) : Plain(q)
<1> DEFINE S == s.types \cap Types8
           n == Cardinality(S)
           ofType(t) == [i \in DOMAIN Q!Templates[t] |-> Q!Asks(<<t, i>>, Q!Templates[t][i], 0, "")]
           seqs == [i \in DOMAIN known |-> ofType(known[i])]
           V == {Q!Asks(p[1], p[2], 0, "") : p \in (Types8 \X (1..3)) \X Q!Categories}
           ranked == Q!FlattenSeq(seqs)
           few == Q!SchemaQuestions(ranked)
<1>1. n \in Nat /\ IsFiniteSet(S)
  <2>1. S \in SUBSET Types8
    OBVIOUS
  <2> QED BY <2>1, TemplatesAre, FS_Subset, FS_CardinalityType
<1>2. known \in [1..n -> S]
  BY QCount DEF Q!SetToSeqs, Types8
<1>3. \A t \in Types8 : ofType(t) \in Seq(V)
  <2> TAKE t \in Types8
  <2>1. PICK k \in 1..3 : k = Len(Q!Templates[t]) /\ Q!Templates[t] \in Seq(Q!Categories)
    BY TemplatesAre
  <2>2. DOMAIN Q!Templates[t] = 1..k /\ \A i \in 1..k : Q!Templates[t][i] \in Q!Categories
    BY <2>1
  <2>3. \A i \in 1..k : Q!Asks(<<t, i>>, Q!Templates[t][i], 0, "") \in V
    <3> TAKE i \in 1..k
    <3> DEFINE p == <<<<t, i>>, Q!Templates[t][i]>>
    <3>1. p \in (Types8 \X (1..3)) \X Q!Categories
      BY <2>2
    <3>2. p[1] = <<t, i>> /\ p[2] = Q!Templates[t][i]
      OBVIOUS
    <3> HIDE DEF p
    <3> QED BY <3>1, <3>2
  <2> HIDE DEF V
  <2>4. PICK g \in [1..k -> V] : g = ofType(t)
    BY <2>2, <2>3
  <2>5. g \in Seq(V)
    <3>1. PICK m \in Nat : m = k
      OBVIOUS
    <3>2. g \in [1..m -> V]
      BY <2>4, <3>1
    <3> QED BY <3>2
  <2> HIDE DEF ofType
  <2> QED BY <2>4, <2>5
<1>4. seqs \in [1..n -> Seq(V)]
  <2>1. DOMAIN known = 1..n /\ \A i \in 1..n : known[i] \in Types8
    BY <1>2
  <2> HIDE DEF V, ofType, n
  <2> QED BY <2>1, <1>3
<1>5. ranked \in Seq(V)
  <2> HIDE DEF V, seqs, n
  <2> QED BY <1>1, <1>4, FlattenIsSeq
<1>6. few \in Seq(V) /\ Len(few) <= 3
  <2> HIDE DEF V, ranked
  <2>1. PICK l \in Nat : l = Len(ranked)
    BY <1>5
  <2>2. PICK m \in Nat : m = Q!Least(3, l) /\ m <= 3 /\ m <= l
    BY DEF Q!Least
  <2>3. few = SubSeq(ranked, 1, m)
    BY <2>1, <2>2 DEF Q!SchemaQuestions, Q!First
  <2>4. \A i \in 1..m : ranked[i] \in V
    BY <1>5, <2>1, <2>2
  <2>5. PICK o \in Int : o = 1
    OBVIOUS
  <2>6. SubSeq(ranked, o, m) \in Seq(V) /\ Len(SubSeq(ranked, o, m)) = IF o <= m THEN m - o + 1 ELSE 0
    BY <2>4, <2>5, SubSeqProperties
  <2> QED BY <2>2, <2>3, <2>5, <2>6
<1> DEFINE A == Q!ToSet(few)
<1>7. IsFiniteSet(A) /\ Cardinality(A) \in Nat /\ Cardinality(A) <= 3 /\ A \subseteq V
  <2> HIDE DEF V, few
  <2>1. PICK k \in Nat : k = Len(few) /\ k <= 3 /\ DOMAIN few = 1..k
    BY <1>6
  <2>2. A = {few[i] : i \in 1..k}
    BY <2>1 DEF Q!ToSet
  <2>3. IsFiniteSet(1..k) /\ Cardinality(1..k) = k
    BY UpToIsFinite
  <2>4. IsFiniteSet(A) /\ Cardinality(A) <= Cardinality(1..k) /\ Cardinality(A) \in Nat
    <3> HIDE DEF A
    <3> QED BY <2>1, <2>2, <2>3, ImageIsFinite
  <2>5. A \subseteq V
    BY <2>1, <2>2, <1>6
  <2> QED BY <2>1, <2>3, <2>4, <2>5
<1>8. \A q \in V : Plain(q)
  <2> TAKE q \in V
  <2>1. PICK p \in (Types8 \X (1..3)) \X Q!Categories : q = Q!Asks(p[1], p[2], 0, "")
    OBVIOUS
  <2>2. q.category = p[2] /\ q.signals = 0 /\ p[2] \in Q!Categories
    BY <2>1 DEF Q!Asks
  <2> QED BY <2>2 DEF Plain
<1> DEFINE topics == {i \in DOMAIN s.headings : s.headings[i] \in DOMAIN Q!Patterns}
           first == {i \in topics : Q!Cardinality({j \in topics : j < i}) < 2}
           about == {s.headings[i] : i \in first}
           ask(h) == Q!Asks(<<h, 0>>, Q!Patterns[h], 0, IF h = "pricing" THEN "pricing" ELSE "")
           B == {ask(h) : h \in about}
<1>9. IsFiniteSet(first) /\ Cardinality(first) <= 2 /\ Cardinality(first) \in Nat
  <2>1. PICK k \in Nat : DOMAIN s.headings = 1..k
    OBVIOUS
  <2>2. topics \in SUBSET (1..k) /\ topics \in SUBSET Nat
    BY <2>1
  <2>3. IsFiniteSet(topics)
    <3> HIDE DEF topics
    <3> QED BY <2>2, UpToIsFinite, FS_Subset
  <2> HIDE DEF topics
  <2>4. first = {i \in topics : Cardinality({j \in topics : j < i}) < 2}
    BY QCount
  <2> HIDE DEF first
  <2> QED BY <2>2, <2>3, <2>4, FirstTwo
<1>10. IsFiniteSet(about) /\ Cardinality(about) <= 2 /\ Cardinality(about) \in Nat
  <2> HIDE DEF first
  <2> DEFINE f == [i \in first |-> s.headings[i]]
  <2>1. DOMAIN f = first /\ about = {f[i] : i \in first}
    OBVIOUS
  <2> HIDE DEF f, about
  <2> QED BY <1>9, <2>1, ImageIsFinite
<1>11. IsFiniteSet(B) /\ Cardinality(B) <= 2 /\ Cardinality(B) \in Nat
  <2> HIDE DEF about
  <2> DEFINE f == [h \in about |-> ask(h)]
  <2>1. DOMAIN f = about /\ B = {f[h] : h \in about}
    OBVIOUS
  <2> HIDE DEF f, B
  <2> QED BY <1>10, <2>1, ImageIsFinite
<1>12. \A q \in B : Plain(q)
  <2>1. \A h \in about : h \in DOMAIN Q!Patterns
    OBVIOUS
  <2> HIDE DEF about
  <2> TAKE q \in B
  <2>2. PICK h \in about : q = ask(h)
    OBVIOUS
  <2>3. q.category = Q!Patterns[h] /\ q.signals = 0
    BY <2>2 DEF Q!Asks
  <2>4. Q!Patterns[h] \in Q!Categories
    BY <2>1, PatternsAre
  <2> QED BY <2>3, <2>4 DEF Plain
<1>13. Q!Derived(s, known) = A \cup B
  BY Zenon DEF Q!Derived
<1> HIDE DEF A, B, V
<1>14. IsFiniteSet(A \cup B) /\ Cardinality(A \cup B) = Cardinality(A) + Cardinality(B) - Cardinality(A \cap B)
  BY <1>7, <1>11, FS_Union
<1>15. Cardinality(A \cap B) \in Nat
  <2>1. A \cap B \in SUBSET A
    OBVIOUS
  <2> QED BY <2>1, <1>7, FS_Subset, FS_CardinalityType
<1>16. Cardinality(A \cup B) <= 5
  BY <1>7, <1>11, <1>14, <1>15
<1> QED BY <1>7, <1>8, <1>12, <1>13, <1>14, <1>16

\* What a chunk has from a search that finds it, and one that does not.
LEMMA ShareIs ==
  ASSUME NEW v \in 0..20
  PROVE  /\ Q!Share(v) \in Nat /\ Q!Share(v) <= 409
         /\ v # 0 => Q!Share(v) >= 312
         /\ v = 1 => Q!Share(v) = 409
         /\ v = 0 => Q!Share(v) = 0
<1>1. CASE v = 0
  BY <1>1, SMT DEF Q!Share
<1>2. CASE v # 0
  <2>1. PICK n \in Nat, k \in Nat, m \in Nat : n = 25000 /\ k = 409 /\ m = 312
    BY SMT
  <2>2. 60 + v \in Nat /\ 60 + v > 0 /\ n < k * (60 + v) + (60 + v) /\ m * (60 + v) <= n
    BY <1>2, <2>1, SMT
  <2>3. n \div (60 + v) \in Nat /\ n \div (60 + v) <= k
    BY <2>2, QuotientBound
  <2>4. n \div (60 + v) >= m
    BY <2>2, QuotientAtLeast
  <2>5. PICK x \in Nat : x = n \div (60 + v)
    BY <2>3
  <2>6. Q!Share(v) = x
    BY <1>2, <2>1, <2>5, SMT DEF Q!Share
  <2>7. v = 1 => Q!Share(v) = 409
    BY SMT DEF Q!Share
  <2> QED BY <1>2, <2>1, <2>3, <2>4, <2>5, <2>6, <2>7, SMT
<1> QED BY <1>1, <1>2

\* Nothing, or what a chunk has that one of the searches finds.
Ranked(x) == x \in Nat /\ x <= 818 /\ (x > 0 => x >= 312)

LEMMA FusedBound ==
  ASSUME NEW v \in 0..20, NEW u \in 0..20
  PROVE  /\ Ranked(Q!FusedScore(v, u))
         /\ v = 1 /\ u = 1 => Q!FusedScore(v, u) = 818
<1>1. PICK x \in Nat : x = Q!Share(v) /\ x <= 409 /\ (x # 0 => x >= 312) /\ (v = 1 => x = 409)
  BY ShareIs
<1>2. PICK y \in Nat : y = Q!Share(u) /\ y <= 409 /\ (y # 0 => y >= 312) /\ (u = 1 => y = 409)
  BY ShareIs
<1>3. PICK z \in Nat : z = Q!FusedScore(v, u) /\ z = x + y
  <2>1. Q!FusedScore(v, u) = x + y
    BY <1>1, <1>2 DEF Q!FusedScore
  <2>2. x + y \in Nat
    OBVIOUS
  <2> QED BY <2>1, <2>2
<1>4. Ranked(z)
  <2>1. x <= 409 /\ y <= 409 /\ z = x + y /\ (x = 0 \/ x >= 312) /\ (y = 0 \/ y >= 312)
    BY <1>1, <1>2, <1>3
  <2> QED BY <2>1, SMT DEF Ranked
<1>5. ASSUME v = 1, u = 1 PROVE z = 818
  <2>1. x = 409 /\ y = 409 /\ z = x + y
    BY <1>1, <1>2, <1>3, <1>5
  <2> QED BY <2>1, SMT
<1> QED BY <1>3, <1>4, <1>5

\* The place of a chunk in a search, which is the first where none is ahead of it.
LEMMA PlaceIs ==
  ASSUME NEW n \in Nat, NEW S \in SUBSET (1..n), NEW txt, NEW c, NEW i
  PROVE  /\ Q!Place(txt, c, S, i) \in 0..20
         /\ i \in S /\ (\A j \in S : ~Q!Ahead(txt, c, j, i)) => Q!Place(txt, c, S, i) = 1
<1> DEFINE A == {j \in S : Q!Ahead(txt, c, j, i)}
<1>1. IsFiniteSet(A) /\ Cardinality(A) \in Nat
  <2>1. IsFiniteSet(1..n) /\ A \in SUBSET (1..n)
    BY UpToIsFinite
  <2> HIDE DEF A
  <2> QED BY <2>1, FS_Subset, FS_CardinalityType
<1>2. (\A j \in S : ~Q!Ahead(txt, c, j, i)) => Cardinality(A) = 0
  <2>1. (\A j \in S : ~Q!Ahead(txt, c, j, i)) => A = {}
    OBVIOUS
  <2>2. Cardinality({}) = 0
    BY FS_EmptySet
  <2> HIDE DEF A
  <2> QED BY <2>1, <2>2
<1>3. PICK rank \in Nat : rank = 1 + Cardinality(A)
  BY <1>1
<1>4. Q!Place(txt, c, S, i) = IF i \in S /\ rank <= Q!SearchLimit THEN rank ELSE 0
  <2>1. rank = 1 + Q!Cardinality({j \in S : Q!Ahead(txt, c, j, i)})
    BY <1>3, QCount
  <2> HIDE DEF A
  <2> QED BY <2>1, Zenon DEF Q!Place
<1> HIDE DEF A
<1>5. Q!Place(txt, c, S, i) = IF i \in S /\ rank <= 20 THEN rank ELSE 0
  BY <1>4, SMT DEF Q!SearchLimit
<1>6. Q!Place(txt, c, S, i) \in 0..20
  BY <1>5, SMT
<1>7. Cardinality(A) = 0 => rank = 1
  BY <1>3
<1>8. i \in S /\ rank = 1 => Q!Place(txt, c, S, i) = 1
  BY <1>5, SMT
<1> QED BY <1>2, <1>6, <1>7, <1>8

\* The largest of finitely many numbers, as SiteQuestions has it.
LEMMA LargestIsThere ==
  ASSUME NEW S, IsFiniteSet(S), S # {}, S \in SUBSET Int
  PROVE  Q!Max(S) \in S /\ \A y \in S : Q!Max(S) >= y
<1>1. Q!Max(S) = Max(S)
  BY Zenon DEF Max, Q!Max
<1> QED BY <1>1, LargestOf

\* What is retrieved, whatever its order: finitely many chunks with their scores.
Pieces(f, n) ==
  /\ DOMAIN f \in SUBSET (1..n)
  /\ \A i \in DOMAIN f : f[i] \in Nat /\ f[i] <= 818 /\ f[i] >= 312

Matching(txt, c) == {i \in DOMAIN txt : txt[i].category = c \/ txt[i].named}
Both(txt, c, i) ==
  Q!FusedScore(Q!Place(txt, c, DOMAIN txt, i), Q!Place(txt, c, Matching(txt, c), i))

LEMMA FusedIs ==
  ASSUME NEW txt \in Seq(Q!Chunk), NEW c
  PROVE  /\ Q!Fused(txt, c) = [i \in {j \in DOMAIN txt : Both(txt, c, j) > 0} |-> Both(txt, c, i)]
         /\ \A i : Ranked(Both(txt, c, i))
<1>1. Q!Fused(txt, c) = [i \in {j \in DOMAIN txt : Both(txt, c, j) > 0} |-> Both(txt, c, i)]
  BY Zenon DEF Q!Fused, Both, Matching
<1>2. DOMAIN txt = 1..Len(txt) /\ Len(txt) \in Nat /\ DOMAIN txt \in SUBSET (1..Len(txt))
        /\ Matching(txt, c) \in SUBSET (1..Len(txt))
  BY DEF Matching
<1>3. ASSUME NEW i
      PROVE  Ranked(Both(txt, c, i))
  <2>1. PICK v \in 0..20 : v = Q!Place(txt, c, DOMAIN txt, i)
    BY <1>2, PlaceIs
  <2>2. PICK u \in 0..20 : u = Q!Place(txt, c, Matching(txt, c), i)
    BY <1>2, PlaceIs
  <2>3. PICK z : z = Both(txt, c, i) /\ z = Q!FusedScore(v, u)
    BY <2>1, <2>2 DEF Both
  <2>4. Ranked(Q!FusedScore(v, u))
    BY FusedBound
  <2> QED BY <2>3, <2>4
<1> QED BY <1>1, <1>3

LEMMA FusedPieces ==
  ASSUME NEW txt \in Seq(Q!Chunk), NEW c
  PROVE  Pieces(Q!Fused(txt, c), Len(txt))
<1>1. PICK f : f = Q!Fused(txt, c) /\ f = [i \in {j \in DOMAIN txt : Both(txt, c, j) > 0} |-> Both(txt, c, i)]
  BY FusedIs
<1>2. DOMAIN txt = 1..Len(txt)
  OBVIOUS
<1>3. DOMAIN f \in SUBSET (1..Len(txt)) /\ \A i \in DOMAIN f : f[i] = Both(txt, c, i) /\ Both(txt, c, i) > 0
  BY <1>1, <1>2
<1>4. \A i \in DOMAIN f : f[i] \in Nat /\ f[i] <= 818 /\ f[i] >= 312
  <2> TAKE i \in DOMAIN f
  <2>1. Ranked(Both(txt, c, i))
    BY FusedIs
  <2>2. PICK z : z = Both(txt, c, i) /\ z = f[i] /\ Ranked(z) /\ z > 0
    BY <1>3, <2>1
  <2> QED BY <2>2 DEF Ranked
<1>5. Pieces(f, Len(txt))
  BY <1>3, <1>4, Zenon DEF Pieces
<1> QED BY <1>1, <1>5

LEMMA PartOfPieces ==
  ASSUME NEW f, NEW n, Pieces(f, n), NEW S \in SUBSET DOMAIN f
  PROVE  Pieces(Q!Restrict(f, S), n)
<1>1. DOMAIN f \in SUBSET (1..n) /\ \A i \in DOMAIN f : f[i] \in Nat /\ f[i] <= 818 /\ f[i] >= 312
  BY Zenon DEF Pieces
<1>2. DOMAIN Q!Restrict(f, S) = S /\ \A i \in S : Q!Restrict(f, S)[i] = f[i]
  BY DEF Q!Restrict
<1>3. DOMAIN Q!Restrict(f, S) \in SUBSET (1..n)
        /\ \A i \in DOMAIN Q!Restrict(f, S) :
             Q!Restrict(f, S)[i] \in Nat /\ Q!Restrict(f, S)[i] <= 818 /\ Q!Restrict(f, S)[i] >= 312
  BY <1>1, <1>2
<1> QED BY <1>3, Zenon DEF Pieces

LEMMA RetrievedPieces ==
  ASSUME NEW txt \in Seq(Q!Chunk), NEW c
  PROVE  Pieces(Q!Retrieved(txt, c, Q!Diverse(txt, c, Q!Fused(txt, c))), Len(txt))
<1>1. PICK f : f = Q!Fused(txt, c) /\ Pieces(f, Len(txt))
  BY FusedPieces, Zenon
<1>2. PICK d : d = Q!Diverse(txt, c, f) /\ Pieces(d, Len(txt))
  <2> DEFINE S == {i \in DOMAIN f : Q!Cardinality({j \in Q!Better(txt, c, f, i) : txt[j].page = txt[i].page}) < 2}
  <2>1. Q!Diverse(txt, c, f) = Q!Restrict(f, S) /\ S \in SUBSET DOMAIN f
    BY <1>1, Zenon DEF Q!Diverse
  <2> HIDE DEF S
  <2> QED BY <1>1, <2>1, PartOfPieces, Zenon
<1> DEFINE S == {i \in DOMAIN d : Q!Cardinality(Q!Better(txt, c, d, i)) < 5}
<1>3. Q!Retrieved(txt, c, d) = Q!Restrict(d, S) /\ S \in SUBSET DOMAIN d
  BY Zenon DEF Q!Retrieved
<1> HIDE DEF S
<1>4. Pieces(Q!Restrict(d, S), Len(txt))
  BY <1>2, <1>3, PartOfPieces
<1> QED BY <1>1, <1>2, <1>3, <1>4, Zenon

\* SumOver adds up.
LEMMA QSum == ASSUME NEW w PROVE Q!SumOver(w) = SumOn(w, DOMAIN w)
BY Zenon DEF SumOn, AddsUp, Q!SumOver, Q!MapThenSumSet, Q!MapThenFoldSet

\* A number of chunks, and their scores.
Evidences(e) ==
  /\ e.chunks \in Nat /\ e.signals \in Nat
  /\ e.relevance \in Nat /\ e.relevance <= 818
  /\ e.best \in Nat /\ e.best <= 818

LEMMA EvidenceInRange ==
  ASSUME NEW txt \in Seq(Q!Chunk), NEW c, NEW r, Pieces(r, Len(txt)), NEW e, e = Q!Evidence(txt, c, r)
  PROVE  Evidences(e)
<1> DEFINE D == DOMAIN r
           n == Len(txt)
           kept == {i \in DOMAIN r : txt[i].category = c
                      /\ Q!SumOver([j \in Q!Better(txt, c, r, i) |-> txt[j].chars]) < 2000}
<1>1. n \in Nat /\ IsFiniteSet(1..n) /\ DOMAIN txt = 1..n
  BY UpToIsFinite
<1>2. D \in SUBSET (1..n) /\ \A i \in D : r[i] \in Nat /\ r[i] <= 818
  BY Zenon DEF Pieces
<1>3. IsFiniteSet(D) /\ Cardinality(D) \in Nat
  BY <1>1, <1>2, FS_Subset, FS_CardinalityType
<1>4. e.chunks = Cardinality(D)
  BY QCount, Zenon DEF Q!Evidence
<1>5. e.relevance = Q!Average(SumOn(r, D), Cardinality(D))
  <2>1. Q!SumOver(r) = SumOn(r, D)
    BY QSum
  <2>2. e.relevance = Q!Average(Q!SumOver(r), Q!Cardinality(D))
    BY Zenon DEF Q!Evidence
  <2> QED BY <2>1, <2>2, QCount, Zenon
<1>6. e.best = Q!Max({0} \cup {r[i] : i \in D})
  BY Zenon DEF Q!Evidence, Q!Range
<1>7. e.signals = Q!SumOver([i \in kept |-> txt[i].signals]) /\ kept \in SUBSET D
  BY Zenon DEF Q!Evidence
<1> HIDE DEF D, n, kept
<1>8. e.relevance \in Nat /\ e.relevance <= 818
  <2>1. PICK top \in Nat, lo \in Nat : top = 818 /\ lo = 0
    BY SMT
  <2>2. \A i \in D : r[i] \in lo..top
    <3> TAKE i \in D
    <3>1. PICK x \in Nat : x = r[i] /\ x <= 818
      BY <1>2
    <3>2. lo <= x /\ x <= top
      BY <3>1, <2>1, SMT
    <3>3. x \in lo..top
      BY <3>2
    <3> QED BY <3>1, <3>3, Zenon
  <2>3. SumOn(r, D) \in Int /\ lo * Cardinality(D) <= SumOn(r, D) /\ SumOn(r, D) <= top * Cardinality(D)
    BY <1>3, <2>2, SumBetween
  <2>4. PICK m \in Nat, sum \in Nat : m = Cardinality(D) /\ sum = SumOn(r, D) /\ sum <= top * m
    BY <1>3, <2>1, <2>3, SMT
  <2>5. CASE m = 0
    BY <1>5, <2>1, <2>4, <2>5, SMT DEF Q!Average
  <2>6. CASE m # 0
    <3>0. m > 0 /\ sum < top * m + m
      <4>1. PICK z \in Int : z = top * m
        OBVIOUS
      <4> QED BY <4>1, <2>4, <2>6
    <3>1. sum \div m \in Nat /\ sum \div m <= top
      BY <3>0, QuotientBound
    <3>2. e.relevance = sum \div m
      BY <1>5, <2>4, <2>6 DEF Q!Average
    <3> QED BY <2>1, <3>1, <3>2, SMT
  <2> QED BY <2>5, <2>6
<1>9. e.best \in Nat /\ e.best <= 818
  <2> DEFINE R == {r[i] : i \in D}
             S == R \cup {0}
  <2>1. IsFiniteSet(R)
    <3> DEFINE f == [i \in D |-> r[i]]
    <3>1. DOMAIN f = D /\ R = {f[i] : i \in D}
      OBVIOUS
    <3> HIDE DEF f, R
    <3> QED BY <1>3, <3>1, ImageIsFinite
  <2>2. \A x \in S : x \in Nat /\ x <= 818
    BY <1>2, SMT
  <2>3. {0} \cup {r[i] : i \in D} = S /\ 0 \in S
    OBVIOUS
  <2> HIDE DEF R
  <2>4. IsFiniteSet(S)
    BY <2>1, FS_AddElement
  <2> HIDE DEF S
  <2>5. S \in SUBSET Int /\ S # {}
    BY <2>2, <2>3
  <2>6. Q!Max(S) \in S
    BY <2>4, <2>5, LargestIsThere
  <2>7. e.best = Q!Max(S)
    BY <1>6, <2>3 DEF R
  <2>8. PICK v : v = e.best /\ v \in S
    BY <2>6, <2>7
  <2>9. v \in Nat /\ v <= 818
    BY <2>2, <2>8
  <2> QED BY <2>8, <2>9
<1>10. e.signals \in Nat
  <2> DEFINE w == [i \in kept |-> txt[i].signals]
  <2>1. \A i \in kept : w[i] \in Nat
    <3> TAKE i \in kept
    <3>1. i \in 1..n
      BY <1>2, <1>7
    <3>2. PICK k \in Q!Chunk : k = txt[i]
      BY <3>1, <1>1
    <3>3. k.signals \in 0..4
      BY DEF Q!Chunk
    <3> QED BY <3>2, <3>3
  <2>2. IsFiniteSet(kept)
    BY <1>3, <1>7, FS_Subset
  <2>3. e.signals = SumOn(w, kept)
    <3>1. e.signals = Q!SumOver(w) /\ DOMAIN w = kept
      BY <1>7
    <3> HIDE DEF w
    <3> QED BY <3>1, QSum
  <2> HIDE DEF w
  <2> QED BY <2>1, <2>2, <2>3, SumNat
<1> QED BY <1>3, <1>4, <1>8, <1>9, <1>10, Zenon DEF Evidences

LEMMA TwelfthsAre ==
  ASSUME NEW total \in 0..4, NEW found \in 0..total, NEW t, t = Q!Twelfths(found, total)
  PROVE  /\ t \in 0..12 /\ (total > 0 /\ t >= 6 => 2 * found >= total)
         /\ (total > 0 /\ found = 0 => t = 0)
         /\ (total = 0 => t = 6)
<1>1. CASE total = 0
  BY <1>1 DEF Q!Twelfths
<1>2. CASE total = 1
  BY <1>2 DEF Q!Twelfths
<1>3. CASE total = 2
  BY <1>3 DEF Q!Twelfths
<1>4. CASE total = 3
  BY <1>4 DEF Q!Twelfths
<1>5. CASE total = 4
  BY <1>5 DEF Q!Twelfths
<1> QED BY <1>1, <1>2, <1>3, <1>4, <1>5

\* The parts of a score.
Parted(q, e, r, t) ==
  /\ t \in 0..12
  /\ q.signals > 0 /\ t >= 6 => 2 * r.found >= q.signals
  /\ q.signals > 0 /\ r.found = 0 => t = 0
  /\ q.signals = 0 => t = 6 /\ r.found = 0
  /\ r.found \in Nat /\ r.found <= q.signals /\ r.found <= e.signals
  /\ q.signals > 0 /\ r.found = 0 => e.signals = 0
  /\ r.score = (IF e.chunks = 0 THEN 0
                ELSE 24 * e.relevance + 2000 * t + (IF r.found > 0 THEN 12000 ELSE 0))
  /\ r.answer = (IF r.score >= 42000 THEN "full" ELSE IF r.score >= 18000 THEN "partial" ELSE "none")
  /\ r.confidence \in {"high", "medium", "low"}

LEMMA ResultIsParted ==
  ASSUME NEW q, q.signals \in 0..4, NEW e, Evidences(e), NEW r, r = Q!Result(q, e)
  PROVE  \E t : Parted(q, e, r, t)
<1>1. PICK total \in 0..4, have \in Nat : total = q.signals /\ have = e.signals
  BY DEF Evidences
<1>2. PICK found \in 0..total : found = Q!Least(total, have) /\ found <= have /\ (total > 0 /\ found = 0 => have = 0)
  BY DEF Q!Least
<1>3. r.found = found
  <2>1. r.found = Q!Least(q.signals, e.signals)
    BY SMT DEF Q!Result, Q!Shown
  <2> QED BY <2>1, <1>1, <1>2
<1>4. PICK t : t = Q!Twelfths(found, total)
  OBVIOUS
<1>5. r.score = (IF e.chunks = 0 THEN 0
                ELSE 24 * e.relevance + 2000 * t + (IF found > 0 THEN 12000 ELSE 0))
  BY <1>1, <1>2, <1>4, SMT DEF Q!Result, Q!Shown
<1>6. r.answer = (IF r.score >= 42000 THEN "full" ELSE IF r.score >= 18000 THEN "partial" ELSE "none")
  <2>1. r.answer = (IF r.score >= Q!FullyAt THEN "full" ELSE IF r.score >= 18000 THEN "partial" ELSE "none")
    BY SMT DEF Q!Result
  <2> QED BY <2>1, SMT DEF Q!FullyAt
<1>7. r.confidence \in {"high", "medium", "low"}
  BY SMT DEF Q!Result
<1>8. /\ t \in 0..12 /\ (total > 0 /\ t >= 6 => 2 * found >= total)
      /\ (total > 0 /\ found = 0 => t = 0) /\ (total = 0 => t = 6)
  BY <1>4, TwelfthsAre
<1>9. Parted(q, e, r, t)
  BY <1>1, <1>2, <1>3, <1>5, <1>6, <1>7, <1>8, SMT DEF Parted
<1> QED BY <1>9

\* What a result is.
Results(q, r) ==
  /\ r.found \in Nat /\ r.found <= q.signals
  /\ r.score \in Nat /\ r.score <= 60000
  /\ r.answer \in {"full", "partial", "none"}
  /\ r.answer = "full" => q.signals > 0 /\ 2 * r.found >= q.signals
  /\ r.confidence \in {"high", "medium", "low"}

LEMMA ResultIs ==
  ASSUME NEW q, q.signals \in 0..4, NEW e, Evidences(e), NEW r, r = Q!Result(q, e)
  PROVE  Results(q, r)
<1>1. PICK t : Parted(q, e, r, t)
  BY ResultIsParted
<1>2. PICK rel \in Nat, found \in Nat, total \in 0..4, x \in 0..12 :
        rel = e.relevance /\ rel <= 818 /\ found = r.found /\ total = q.signals /\ x = t
  BY <1>1 DEF Parted, Evidences
<1>3. PICK more \in Nat : more = (IF found > 0 THEN 12000 ELSE 0) /\ more <= 12000 /\ (found = 0 => more = 0)
  BY SMT
<1>4. PICK sc \in Nat :
        /\ sc = r.score /\ sc <= 60000
        /\ sc >= 42000 => sc = 24 * rel + 2000 * x + more
  <2>1. r.score = (IF e.chunks = 0 THEN 0 ELSE 24 * rel + 2000 * x + more)
    BY <1>1, <1>2, <1>3, SMT DEF Parted
  <2>2. CASE e.chunks = 0
    BY <2>1, <2>2, SMT
  <2>3. CASE e.chunks # 0
    <3>1. 24 * rel <= 24 * 818 /\ 2000 * x <= 24000
      BY <1>2, SMT
    <3> QED BY <2>1, <2>3, <3>1, <1>3, SMT
  <2> QED BY <2>2, <2>3
<1>5. sc >= 42000 => total > 0 /\ 2 * found >= total
  <2> SUFFICES ASSUME sc >= 42000 PROVE total > 0 /\ 2 * found >= total
    OBVIOUS
  <2>1. sc = 24 * rel + 2000 * x + more /\ 24 * rel <= 19632
    BY <1>2, <1>4, SMT
  <2>2. x >= 6
    BY <2>1, <1>3, SMT
  <2>3. total # 0
    <3> SUFFICES ASSUME total = 0 PROVE FALSE
      OBVIOUS
    <3>1. x = 6 /\ found = 0
      BY <1>1, <1>2, SMT DEF Parted
    <3> QED BY <2>1, <3>1, <1>3, SMT
  <2> QED BY <2>2, <2>3, <1>1, <1>2, SMT DEF Parted
<1>6. r.answer = (IF sc >= 42000 THEN "full" ELSE IF sc >= 18000 THEN "partial" ELSE "none")
  BY <1>1, <1>4, SMT DEF Parted
<1>7. r.answer = "full" => sc >= 42000
  BY <1>6, SMT
<1>8. r.answer \in {"full", "partial", "none"}
  BY <1>6, SMT
<1>9. r.found <= q.signals /\ r.confidence \in {"high", "medium", "low"}
  BY <1>1, SMT DEF Parted
<1> QED BY <1>2, <1>4, <1>5, <1>7, <1>8, <1>9, SMT DEF Results

\* Where one question of a category is not answered, none is answered so well that
\* the category is strong.
LEMMA NoneIsWeak ==
  ASSUME NEW q, q.signals \in 0..4, NEW p, p.signals \in 0..4, NEW e, Evidences(e),
         Q!Result(q, e).answer = "none"
  PROVE  Q!Result(p, e).score \in Nat /\ Q!Result(p, e).score <= 42000
<1>1. PICK r, o : r = Q!Result(q, e) /\ o = Q!Result(p, e)
  OBVIOUS
<1>2. PICK t : Parted(q, e, r, t)
  BY <1>1, ResultIsParted
<1>3. PICK u : Parted(p, e, o, u)
  BY <1>1, ResultIsParted
<1>4. PICK rel \in Nat, x \in 0..12, y \in 0..12, rf \in Nat, pf \in Nat :
        rel = e.relevance /\ rel <= 818 /\ x = t /\ y = u /\ rf = r.found /\ pf = o.found
  <2>1. t \in 0..12 /\ r.found \in Nat
    BY <1>2, SMT DEF Parted
  <2>2. u \in 0..12 /\ o.found \in Nat
    BY <1>3, SMT DEF Parted
  <2>3. e.relevance \in Nat /\ e.relevance <= 818
    BY Zenon DEF Evidences
  <2> QED BY <2>1, <2>2, <2>3
<1>5. o.score = (IF e.chunks = 0 THEN 0 ELSE 24 * rel + 2000 * y + (IF pf > 0 THEN 12000 ELSE 0))
  BY <1>3, <1>4, SMT DEF Parted
<1>6. CASE e.chunks = 0
  BY <1>1, <1>5, <1>6, SMT
<1>7. CASE e.chunks # 0
  <2>1. r.score = 24 * rel + 2000 * x + (IF rf > 0 THEN 12000 ELSE 0)
    BY <1>2, <1>4, <1>7, SMT DEF Parted
  <2>2. r.score < 18000
    <3>1. r.answer = (IF r.score >= 42000 THEN "full" ELSE IF r.score >= 18000 THEN "partial" ELSE "none")
      BY <1>2, SMT DEF Parted
    <3>2. PICK sc \in Int : sc = r.score
      BY <2>1, SMT
    <3> QED BY <3>1, <3>2, <1>1, SMT
  <2>3. o.score = 24 * rel + 2000 * y + (IF pf > 0 THEN 12000 ELSE 0)
    BY <1>5, <1>7, SMT
  <2>4. CASE rel < 250
    <3>1. 24 * rel <= 6000 /\ 2000 * y <= 24000
      BY <2>4, SMT
    <3> QED BY <1>1, <2>3, <3>1, SMT
  <2>5. CASE ~(rel < 250)
    <3>1. rf = 0 /\ x < 6
      BY <2>1, <2>2, <2>5, SMT
    <3>2. q.signals # 0
      BY <1>2, <1>4, <3>1, SMT DEF Parted
    <3>3. e.signals = 0
      BY <1>2, <1>4, <3>1, <3>2, SMT DEF Parted
    <3>4. pf = 0
      BY <1>3, <1>4, <3>3, SMT DEF Parted
    <3>5. y <= 6
      BY <1>3, <1>4, <3>4, SMT DEF Parted
    <3>6. 24 * rel <= 19632 /\ 2000 * y <= 12000
      BY <1>4, <3>5, SMT
    <3> QED BY <1>1, <2>3, <3>4, <3>6, SMT
  <2> QED BY <2>4, <2>5
<1> QED BY <1>6, <1>7

\* The questions of an audit.
Asked(A) ==
  /\ IsFiniteSet(A) /\ Q!Universal \subseteq A /\ Cardinality(A \ Q!Universal) <= 5
  /\ \A q \in A : q.category \in Q!Categories /\ q.signals \in 0..4

\* What an audit of a text comes to.
Answered(txt, A, evidence, rep) ==
  /\ Asked(A)
  /\ \A c \in Q!Categories :
       /\ evidence[c] = Q!Evidence(txt, c, Q!Retrieved(txt, c, Q!Diverse(txt, c, Q!Fused(txt, c))))
       /\ Evidences(evidence[c])
  /\ rep.results = [q \in A |-> Q!Result(q, evidence[q.category])]
  /\ rep.score = Q!Score(evidence, rep.results)
  /\ rep.plan = Q!Plan(evidence, rep.results)

TextInv ==
  /\ text \in Q!Site
  /\ textReport.results # << >> =>
       \E txt \in Seq(Q!Chunk) : \E A, evidence :
         Answered(txt, A, evidence, textReport) /\ (audited \/ "text" \notin moves => txt = text.text)
  /\ textReport.results = << >> => ~audited

LEMMA UniversalIs ==
  /\ IsFiniteSet(Q!Universal) /\ Q!Universal # {}
  /\ \A q \in Q!Universal : q.category \in Q!Categories /\ q.signals \in 3..4
<1> DEFINE a == Q!Asks(<<"UQ", 1>>, "identity", 3, "")
           b == Q!Asks(<<"UQ", 4>>, "offerings", 3, "")
           c == Q!Asks(<<"UQ", 5>>, "offerings", 3, "pricing")
           d == Q!Asks(<<"UQ", 8>>, "contact", 4, "contact")
           e == Q!Asks(<<"UQ", 9>>, "contact", 3, "")
           f == Q!Asks(<<"UQ", 10>>, "trust", 4, "")
           g == Q!Asks(<<"UQ", 13>>, "differentiation", 4, "")
           h == Q!Asks(<<"UQ", 14>>, "differentiation", 3, "")
<1>1. Q!Universal = (((((({a} \cup {b}) \cup {c}) \cup {d}) \cup {e}) \cup {f}) \cup {g}) \cup {h}
  BY Zenon DEF Q!Universal
<1>2. \A q \in {a, b, c, d, e, f, g, h} : q.category \in Q!Categories /\ q.signals \in 3..4
  <2>1. /\ a.category = "identity" /\ a.signals = 3 /\ b.category = "offerings" /\ b.signals = 3
        /\ c.category = "offerings" /\ c.signals = 3 /\ d.category = "contact" /\ d.signals = 4
        /\ e.category = "contact" /\ e.signals = 3 /\ f.category = "trust" /\ f.signals = 4
        /\ g.category = "differentiation" /\ g.signals = 4 /\ h.category = "differentiation" /\ h.signals = 3
    BY DEF Q!Asks
  <2>2. /\ {"identity", "offerings", "contact", "trust", "differentiation"} = Q!Categories
        /\ 3 \in 3..4 /\ 4 \in 3..4
    BY DEF Q!Categories
  <2> HIDE DEF a, b, c, d, e, f, g, h
  <2> QED BY <2>1, <2>2
<1> HIDE DEF a, b, c, d, e, f, g, h
<1>3. IsFiniteSet(Q!Universal)
  <2>1. IsFiniteSet({a}) /\ \A S, x : IsFiniteSet(S) => IsFiniteSet(S \cup {x})
    BY FS_Singleton, FS_AddElement
  <2> QED BY <1>1, <2>1
<1> QED BY <1>1, <1>2, <1>3

LEMMA NotEmpty ==
  ASSUME NEW A, Asked(A), NEW f, DOMAIN f = A
  PROVE  f # << >>
<1>1. A # {}
  BY UniversalIs DEF Asked
<1>2. DOMAIN << >> = {}
  OBVIOUS
<1> QED BY <1>1, <1>2

LEMMA AskedAre ==
  ASSUME NEW s, NEW H, s.headings \in Seq(H), NEW known \in Q!SetToSeqs(s.types \cap DOMAIN Q!Templates)
  PROVE  Asked(Q!Universal \cup Q!Derived(s, known))
<1>1. PICK D : D = Q!Derived(s, known) /\ IsFiniteSet(D) /\ Cardinality(D) <= 5 /\ \A q \in D : Plain(q)
  BY DerivedAre
<1>2. PICK U : U = Q!Universal /\ IsFiniteSet(U) /\ \A q \in U : q.category \in Q!Categories /\ q.signals \in 3..4
  BY UniversalIs
<1>3. IsFiniteSet(U \cup D)
  BY <1>1, <1>2, FS_Union
<1>4. (U \cup D) \ U \in SUBSET D
  OBVIOUS
<1>5. Cardinality((U \cup D) \ U) <= 5
  <2>1. IsFiniteSet((U \cup D) \ U) /\ Cardinality((U \cup D) \ U) <= Cardinality(D)
    BY <1>1, <1>4, FS_Subset
  <2>2. Cardinality(D) \in Nat /\ Cardinality((U \cup D) \ U) \in Nat
    BY <1>1, <2>1, FS_CardinalityType
  <2> QED BY <1>1, <2>1, <2>2
<1>6. \A q \in U \cup D : q.category \in Q!Categories /\ q.signals \in 0..4
  BY <1>1, <1>2 DEF Plain
<1> QED BY <1>1, <1>2, <1>3, <1>5, <1>6 DEF Asked

LEMMA AuditAnswers ==
  ASSUME TextInv, Q!Audit
  PROVE  \E A, evidence : Answered(text.text, A, evidence, textReport')
<1>1. PICK known, evidence, results :
        /\ known \in Q!SetToSeqs(text.types \cap DOMAIN Q!Templates)
        /\ evidence = [c \in Q!Categories |->
              Q!Evidence(text.text, c, Q!Retrieved(text.text, c, Q!Diverse(text.text, c, Q!Fused(text.text, c))))]
        /\ results = [q \in Q!Universal \cup Q!Derived(text, known) |-> Q!Result(q, evidence[q.category])]
        /\ textReport' = [results |-> results, score |-> Q!Score(evidence, results), plan |-> Q!Plan(evidence, results)]
  <2> DEFINE Fus == [c \in Q!Categories |-> Q!Fused(text.text, c)]
             Div(f) == [c \in Q!Categories |-> Q!Diverse(text.text, c, f[c])]
             Ret(d) == [c \in Q!Categories |-> Q!Retrieved(text.text, c, d[c])]
             Evi(r) == [c \in Q!Categories |-> Q!Evidence(text.text, c, r[c])]
             Res(k, e) == [q \in Q!Universal \cup Q!Derived(text, k) |-> Q!Result(q, e[q.category])]
             Rep(e, r) == textReport' = [results |-> r, score |-> Q!Score(e, r), plan |-> Q!Plan(e, r)]
  <2>1. PICK known \in Q!SetToSeqs(text.types \cap DOMAIN Q!Templates) :
          \E fused \in {Fus} : \E diverse \in {Div(fused)} : \E retrieved \in {Ret(diverse)} :
          \E evidence \in {Evi(retrieved)} : \E results \in {Res(known, evidence)} : Rep(evidence, results)
    BY Zenon DEF Q!Audit
  <2>2. PICK fused, diverse, retrieved, evidence, results :
          /\ fused = Fus /\ diverse = Div(fused) /\ retrieved = Ret(diverse) /\ evidence = Evi(retrieved)
          /\ results = Res(known, evidence) /\ Rep(evidence, results)
    <3> HIDE DEF Fus, Div, Ret, Evi, Res, Rep
    <3> QED BY <2>1
  <2>3. evidence = [c \in Q!Categories |->
              Q!Evidence(text.text, c, Q!Retrieved(text.text, c, Q!Diverse(text.text, c, Q!Fused(text.text, c))))]
    BY <2>2
  <2> QED BY <2>2, <2>3, Zenon
<1> DEFINE A == Q!Universal \cup Q!Derived(text, known)
<1>2. Asked(A)
  BY <1>1, AskedAre DEF TextInv, Q!Site
<1>3. PICK txt \in Seq(Q!Chunk) : txt = text.text
  BY DEF TextInv, Q!Site
<1>4. ASSUME NEW c \in Q!Categories
      PROVE  /\ evidence[c] = Q!Evidence(txt, c, Q!Retrieved(txt, c, Q!Diverse(txt, c, Q!Fused(txt, c))))
             /\ Evidences(evidence[c])
  <2>1. PICK r : r = Q!Retrieved(txt, c, Q!Diverse(txt, c, Q!Fused(txt, c))) /\ Pieces(r, Len(txt))
    BY RetrievedPieces
  <2>2. evidence[c] = Q!Evidence(txt, c, r)
    BY <1>1, <1>3, <2>1
  <2> QED BY <2>1, <2>2, EvidenceInRange
<1>5. /\ textReport'.results = [q \in A |-> Q!Result(q, evidence[q.category])]
      /\ textReport'.score = Q!Score(evidence, textReport'.results)
      /\ textReport'.plan = Q!Plan(evidence, textReport'.results)
  BY <1>1
<1> HIDE DEF A
<1> QED BY <1>2, <1>3, <1>4, <1>5, Zenon DEF Answered

\* There is a page for the fix.
LEMMA NewPageIsThere ==
  ASSUME NEW txt \in Seq(Q!Chunk)
  PROVE  Q!NewPage(txt) \in Nat
<1> DEFINE n == Len(txt)
           R == {txt[i].page : i \in DOMAIN txt}
           S == (1..(n + 1)) \ R
<1>1. n \in Nat /\ DOMAIN txt = 1..n
  OBVIOUS
<1>2. IsFiniteSet(R) /\ Cardinality(R) <= n /\ Cardinality(R) \in Nat
  <2> DEFINE f == [i \in 1..n |-> txt[i].page]
  <2>1. DOMAIN f = 1..n /\ R = {f[i] : i \in 1..n}
    BY <1>1
  <2>2. IsFiniteSet(1..n) /\ Cardinality(1..n) = n
    BY <1>1, UpToIsFinite
  <2> HIDE DEF f, R, n
  <2> QED BY <2>1, <2>2, ImageIsFinite
<1>3. S # {}
  <2> SUFFICES ASSUME S = {} PROVE FALSE
    OBVIOUS
  <2> HIDE DEF R
  <2>1. 1..(n + 1) \in SUBSET R
    OBVIOUS
  <2>2. PICK m \in Nat : m = n + 1
    BY <1>1
  <2>3. IsFiniteSet(1..m) /\ Cardinality(1..m) = m
    BY UpToIsFinite
  <2>4. Cardinality(1..m) <= Cardinality(R)
    BY <2>1, <2>2, <1>2, FS_Subset
  <2> QED BY <1>1, <1>2, <2>2, <2>3, <2>4
<1>4. S \in SUBSET Nat
  BY <1>1
<1>5. PICK k \in S : \A m \in S : k <= m
  <2> HIDE DEF S
  <2> QED BY <1>3, <1>4, LeastNat
<1>6. Q!Min(S) \in S
  <2> HIDE DEF S
  <2> QED BY <1>5 DEF Q!Min
<1>7. Q!NewPage(txt) = Q!Min(S)
  BY Zenon DEF Q!NewPage
<1> QED BY <1>4, <1>6, <1>7

LEMMA PlanIs ==
  ASSUME NEW evidence, NEW results, NEW reason \in DOMAIN Q!Plan(evidence, results)
  PROVE  Q!Plan(evidence, results)[reason] \subseteq DOMAIN results
BY Zenon DEF Q!Plan

\* A site with another chunk is a site.
LEMMA LongerIsSite ==
  ASSUME NEW s \in Q!Site, NEW e \in Q!Chunk
  PROVE  /\ [s EXCEPT !.text = <<e>> \o s.text] \in Q!Site
         /\ [s EXCEPT !.text = Append(s.text, e)] \in Q!Site
<1>1. PICK U \in SUBSET STRING, H \in Seq(STRING), X \in Seq(Q!Chunk) :
        s = [types |-> U, headings |-> H, text |-> X]
  BY DEF Q!Site
<1>2. <<e>> \in Seq(Q!Chunk)
  OBVIOUS
<1>3. PICK Y \in Seq(Q!Chunk) : Y = <<e>> \o X
  BY <1>2, ConcatProperties
<1>4. PICK Z \in Seq(Q!Chunk) : Z = Append(X, e)
  BY AppendProperties
<1>5. s.text = X
  BY <1>1
<1>6. [s EXCEPT !.text = Y] = [types |-> U, headings |-> H, text |-> Y]
  BY <1>1
<1>7. [s EXCEPT !.text = Z] = [types |-> U, headings |-> H, text |-> Z]
  BY <1>1
<1>8. [s EXCEPT !.text = Y] \in Q!Site /\ [s EXCEPT !.text = Z] \in Q!Site
  BY <1>6, <1>7 DEF Q!Site
<1> QED BY <1>3, <1>4, <1>5, <1>8

LEMMA WrittenIs ==
  ASSUME NEW s \in Q!Site, NEW c \in Q!Categories, NEW t \in Q!Written(s, c)
  PROVE  t \in Q!Site
<1>1. s.text \in Seq(Q!Chunk)
  BY DEF Q!Site
<1>2. PICK n \in Nat : n = Q!NewPage(s.text)
  BY <1>1, NewPageIsThere
<1> DEFINE chunk(m) == [page |-> n, category |-> c, signals |-> m, named |-> TRUE, chars |-> 500]
<1>3. chunk(4) \in Q!Chunk
  BY SMT DEF Q!Chunk
<1>4. chunk(2) \in Q!Chunk
  BY SMT DEF Q!Chunk
<1>5. t \in {[s EXCEPT !.text = <<chunk(4)>> \o s.text], [s EXCEPT !.text = Append(s.text, chunk(2))]}
  BY <1>2, Zenon DEF Q!Written
<1> HIDE DEF chunk
<1> QED BY <1>3, <1>4, <1>5, LongerIsSite

LEMMA TextMoveStays ==
  ASSUME TextInv, TextMoves
  PROVE  TextInv'
<1>1. audited /\ ~audited' /\ "text" \in moves /\ moves' = moves /\ textReport' = textReport
  BY DEF TextMoves, Q!Change, Q!MakeFix
<1>2. PICK U \in SUBSET STRING, H \in Seq(STRING), X \in Seq(Q!Chunk) :
        text = [types |-> U, headings |-> H, text |-> X]
  BY DEF TextInv, Q!Site
<1>3. text' \in Q!Site
  <2>1. CASE Q!Change
    <3>1. text' \in Q!Changed(text)
      BY <2>1 DEF Q!Change
    <3>2. \/ \E t \in Types : text' = [text EXCEPT !.types = text.types \cup {t}]
          \/ \E t \in Types : text' = [text EXCEPT !.types = text.types \ {t}]
          \/ \E h \in Topics : text' = [text EXCEPT !.headings = Append(text.headings, h)]
      BY <3>1, Zenon DEF Q!Changed
    <3>3. Types \subseteq STRING /\ Topics \subseteq STRING
      BY SitesAssumption
    <3>4. CASE \E t \in Types : text' = [text EXCEPT !.types = text.types \cup {t}]
      <4>1. PICK t \in STRING : text' = [text EXCEPT !.types = text.types \cup {t}]
        BY <3>3, <3>4
      <4>2. PICK V \in SUBSET STRING : V = U \cup {t}
        OBVIOUS
      <4>3. text' = [types |-> V, headings |-> H, text |-> X]
        BY <1>2, <4>1, <4>2
      <4> QED BY <4>3 DEF Q!Site
    <3>5. CASE \E t \in Types : text' = [text EXCEPT !.types = text.types \ {t}]
      <4>1. PICK t \in STRING : text' = [text EXCEPT !.types = text.types \ {t}]
        BY <3>3, <3>5
      <4>2. PICK V \in SUBSET STRING : V = U \ {t}
        OBVIOUS
      <4>3. text' = [types |-> V, headings |-> H, text |-> X]
        BY <1>2, <4>1, <4>2
      <4> QED BY <4>3 DEF Q!Site
    <3>6. CASE \E h \in Topics : text' = [text EXCEPT !.headings = Append(text.headings, h)]
      <4>1. PICK h \in STRING : text' = [text EXCEPT !.headings = Append(text.headings, h)]
        BY <3>3, <3>6
      <4>2. PICK K \in Seq(STRING) : K = Append(H, h)
        BY AppendProperties
      <4>3. text' = [types |-> U, headings |-> K, text |-> X]
        BY <1>2, <4>1, <4>2
      <4> QED BY <4>3 DEF Q!Site
    <3> QED BY <3>2, <3>4, <3>5, <3>6
  <2>2. ASSUME NEW reason \in DOMAIN textReport.plan, Q!MakeFix(reason) PROVE text' \in Q!Site
    <3>1. PICK q \in textReport.plan[reason] : text' \in Q!Written(text, q.category)
      BY <2>2 DEF Q!MakeFix
    <3>2. PICK c \in Q!Categories : c = q.category
      <4>1a. PICK txt \in Seq(Q!Chunk) : \E A, evidence : Answered(txt, A, evidence, textReport)
        BY <1>1 DEF TextInv
      <4>1. PICK A, evidence : Answered(txt, A, evidence, textReport)
        BY <4>1a, Zenon
      <4>2. textReport.plan = Q!Plan(evidence, textReport.results) /\ DOMAIN textReport.results = A /\ Asked(A)
        BY <4>1, Zenon DEF Answered
      <4>3. q \in A
        BY <4>2, <3>1, PlanIs
      <4> QED BY <4>2, <4>3 DEF Asked
    <3> QED BY <1>1, <3>1, <3>2, WrittenIs DEF TextInv
  <2> QED BY <2>1, <2>2 DEF TextMoves
<1>4a. PICK txt \in Seq(Q!Chunk) : \E A, evidence : Answered(txt, A, evidence, textReport)
  BY <1>1 DEF TextInv
<1>4. PICK A, evidence : Answered(txt, A, evidence, textReport)
  BY <1>4a, Zenon
<1> QED BY <1>1, <1>3, <1>4 DEF TextInv

LEMMA TextAudit == TextInv /\ Audit => TextInv'
<1> SUFFICES ASSUME TextInv, Audit PROVE TextInv'
  OBVIOUS
<1>1. audited' /\ text' = text /\ moves' = moves
  BY DEF Audit
<1>2. CASE Q!Audit
  <2>1. PICK A, evidence : Answered(text.text, A, evidence, textReport')
    BY <1>2, AuditAnswers
  <2>2. textReport'.results # << >>
    <3>1. DOMAIN textReport'.results = A /\ Asked(A)
      BY <2>1, Zenon DEF Answered
    <3> QED BY <3>1, NotEmpty
  <2>3. text.text \in Seq(Q!Chunk)
    BY DEF TextInv, Q!Site
  <2> QED BY <1>1, <2>1, <2>2, <2>3 DEF TextInv
<1>3. CASE textReport' = textReport /\ "text" \notin moves /\ textReport.results # << >>
  BY <1>1, <1>3 DEF TextInv
<1> QED BY <1>2, <1>3 DEF Audit, textVars

LEMMA TextInit == Init => TextInv
<1> SUFFICES ASSUME Init PROVE TextInv
  OBVIOUS
<1>1. PICK s \in Sites : text = s.text
  BY DEF Init
<1>2. text \in Q!Site
  BY <1>1, SitesAssumption
<1>3. ~audited /\ textReport.results = << >>
  BY DEF Init
<1> QED BY <1>2, <1>3 DEF TextInv

LEMMA TextNext == TextInv /\ [Next]_vars => TextInv'
<1> SUFFICES ASSUME TextInv, [Next]_vars PROVE TextInv'
  OBVIOUS
<1>1. CASE Audit
  BY <1>1, TextAudit
<1>2. CASE Again
  BY <1>2 DEF Again, textVars, TextInv
<1>3. CASE TechnicalMoves
  BY <1>3 DEF TechnicalMoves, textVars, TextInv, T!EditRobots, T!MakeFix
<1>4. CASE TextMoves
  BY <1>4, TextMoveStays
<1>5. CASE BrandMoves
  BY <1>5 DEF BrandMoves, textVars, TextInv
<1>6. CASE UNCHANGED vars
  BY <1>6 DEF vars, TextInv
<1> QED BY <1>1, <1>2, <1>3, <1>4, <1>5, <1>6 DEF Next

\* The report on the questions is what an audit of the text made of it.
THEOREM TextHolds == Spec => []TextInv
BY TextInit, TextNext, PTL DEF Spec

LEMMA CriticalAsked == TechInv => T!CriticalIsAsked
<1> SUFFICES ASSUME TechInv, NEW c \in T!Criticals(techReport)
             PROVE  c \in T!Fixes(techReport) \/ (c = "ssr" /\ tech.home.noscript)
  BY DEF T!CriticalIsAsked
<1>1. PICK s \in T!Site : techReport = T!Report(s, techReport.trouble) /\ s.home.noscript = tech.home.noscript
  BY DEF TechInv
<1>2. PICK tr : tr = techReport.trouble /\ techReport = T!Report(s, tr)
  BY <1>1
<1>3. c \in {"unblock", "ttfb", "ssr"}
  BY DEF T!Criticals
<1>4. CASE c = "unblock"
  BY <1>4, FixesAre DEF T!Criticals
<1>5. CASE c = "ttfb"
  <2>1. techReport.ms > 1500
    BY <1>5 DEF T!Criticals
  <2>2. techReport.ms \in Nat
    BY <1>2, ReportInRange
  <2>3. T!TooSlow(techReport.ms)
    <3>1. PICK ms \in Nat : ms = techReport.ms
      BY <2>2
    <3> QED BY <2>1, <3>1, SMT DEF T!TooSlow
  <2> QED BY <1>5, <2>3, FixesAre
<1>6. CASE c = "ssr"
  <2>1. T!Unrendered(techReport)
    BY <1>6 DEF T!Criticals
  <2>2. CASE techReport.dependent
    BY <1>6, <2>2, FixesAre
  <2>3. CASE techReport.shell
    <3>1. techReport.shell = T!HomeFound(s, tr).shell /\ techReport.dependent = T!HomeFound(s, tr).dependent
      BY <1>2, ReportIs
    <3>3. /\ T!HomeFound(s, tr).shell = ((~T!Down(tr) /\ "FindableBot" \notin T!Blocked(s, tr)) /\ T!Shell(s.home))
          /\ T!HomeFound(s, tr).dependent =
               ((~T!Down(tr) /\ "FindableBot" \notin T!Blocked(s, tr)) /\ T!Dependent(s.home))
      BY HomeFoundIs
    <3>4. s.home \in T!Homes
      BY DEF T!Site
    <3>5. ~s.home.noscript => techReport.dependent
      BY <2>3, <3>1, <3>3, <3>4, HomeBound
    <3> QED BY <1>1, <1>6, <3>5, FixesAre
  <2> QED BY <2>1, <2>2, <2>3 DEF T!Unrendered
<1> QED BY <1>3, <1>4, <1>5, <1>6

\* There always is a reason.
LEMMA ThereIsAReason ==
  ASSUME NEW q, NEW e, NEW r
  PROVE  \E reason : reason \in Q!ToSet(Q!Reasons(q, e, r))
<1> DEFINE found == (IF e.chunks = 0 THEN <<Q!NotFound[q.category]>> ELSE Q!If(e.relevance < 400, "buried_answer"))
             \o (IF q.signals = 0 \/ 10 * r.found < 3 * q.signals THEN <<Q!Gap(q)>>
                ELSE Q!If(10 * r.found < 6 * q.signals, "fragmented_info"))
           all == found \o Q!If(found = <<>> /\ r.confidence = "low", "vague_language")
<1>1. Q!Reasons(q, e, r) = Q!WithDefault(all)
  BY Zenon DEF Q!Reasons
<1> DEFINE V == {Q!NotFound[q.category], "buried_answer", Q!Gap(q), "fragmented_info", "vague_language"}
<1>2. all \in Seq(V)
  <2>1. \A b, x : x \in V => Q!If(b, x) \in Seq(V)
    <3> HIDE DEF V
    <3> QED BY DEF Q!If
  <2>2. \A x : x \in V => <<x>> \in Seq(V)
    <3> HIDE DEF V
    <3> QED OBVIOUS
  <2>3. \A a, b \in Seq(V) : a \o b \in Seq(V)
    <3> HIDE DEF V
    <3> QED BY ConcatProperties
  <2>4. /\ Q!NotFound[q.category] \in V /\ "buried_answer" \in V /\ Q!Gap(q) \in V
        /\ "fragmented_info" \in V /\ "vague_language" \in V
    OBVIOUS
  <2> HIDE DEF V
  <2>5. PICK x \in Seq(V) :
          x = (IF e.chunks = 0 THEN <<Q!NotFound[q.category]>> ELSE Q!If(e.relevance < 400, "buried_answer"))
    BY <2>1, <2>2, <2>4, Zenon
  <2>6. PICK y \in Seq(V) :
          y = (IF q.signals = 0 \/ 10 * r.found < 3 * q.signals THEN <<Q!Gap(q)>>
                ELSE Q!If(10 * r.found < 6 * q.signals, "fragmented_info"))
    BY <2>1, <2>2, <2>4, Zenon
  <2>7. found \in Seq(V)
    BY <2>3, <2>5, <2>6
  <2>8. Q!If(found = <<>> /\ r.confidence = "low", "vague_language") \in Seq(V)
    BY <2>1, <2>4
  <2> HIDE DEF found
  <2> QED BY <2>3, <2>7, <2>8
<1> HIDE DEF all, V
<1>3. CASE all = << >>
  <2>1. Q!Reasons(q, e, r) = <<"buried_answer">>
    BY <1>1, <1>3, Zenon DEF Q!WithDefault
  <2>2. "buried_answer" \in Q!ToSet(<<"buried_answer">>)
    BY DEF Q!ToSet
  <2> QED BY <2>1, <2>2
<1>4. CASE all # << >>
  <2>1. Q!Reasons(q, e, r) = all
    BY <1>1, <1>4, Zenon DEF Q!WithDefault
  <2>2. 1 \in DOMAIN all
    BY <1>2, <1>4
  <2>3. all[1] \in Q!ToSet(all)
    BY <2>2 DEF Q!ToSet
  <2> QED BY <2>1, <2>3
<1> QED BY <1>3, <1>4

LEMMA PlanAddresses ==
  ASSUME NEW evidence, NEW results, NEW q \in DOMAIN results, Q!Problem(results[q]),
         NEW plan, plan = Q!Plan(evidence, results)
  PROVE  \E f \in DOMAIN plan : q \in plan[f]
<1> DEFINE asked == {x \in DOMAIN results : Q!Problem(results[x])}
           why(x) == Q!ToSet(Q!Reasons(x, evidence[x.category], results[x]))
           reasons == [x \in asked |-> why(x)]
<1>1. q \in asked /\ DOMAIN reasons = asked /\ reasons[q] = why(q)
  OBVIOUS
<1>2. PICK reason : reason \in why(q)
  BY ThereIsAReason
<1>3. plan = [f \in UNION Q!Range(reasons) |-> {x \in DOMAIN reasons : f \in reasons[x]}]
  BY Zenon DEF Q!Plan
<1> HIDE DEF asked, why, reasons
<1>4. reason \in UNION Q!Range(reasons)
  BY <1>1, <1>2 DEF Q!Range
<1>5. q \in plan[reason]
  BY <1>1, <1>2, <1>3, <1>4
<1> QED BY <1>3, <1>4, <1>5

LEMMA ResultsAre ==
  ASSUME NEW txt, NEW A, NEW evidence, NEW rep, Answered(txt, A, evidence, rep)
  PROVE  /\ DOMAIN rep.results = A
         /\ \A q \in A : /\ q.category \in Q!Categories /\ q.signals \in 0..4
                         /\ Evidences(evidence[q.category])
                         /\ rep.results[q] = Q!Result(q, evidence[q.category])
                         /\ Results(q, rep.results[q])
<1>1. rep.results = [q \in A |-> Q!Result(q, evidence[q.category])] /\ Asked(A)
  BY Zenon DEF Answered
<1>2. ASSUME NEW q \in A
      PROVE  /\ q.category \in Q!Categories /\ q.signals \in 0..4
             /\ Evidences(evidence[q.category])
             /\ rep.results[q] = Q!Result(q, evidence[q.category])
             /\ Results(q, rep.results[q])
  <2>1. q.category \in Q!Categories /\ q.signals \in 0..4
    BY <1>1 DEF Asked
  <2>2. Evidences(evidence[q.category])
    BY <2>1, Zenon DEF Answered
  <2>3. rep.results[q] = Q!Result(q, evidence[q.category])
    BY <1>1
  <2> QED BY <2>1, <2>2, <2>3, ResultIs
<1> QED BY <1>1, <1>2

LEMMA ProblemsAddressed == TextInv => Q!ProblemsAreAddressed /\ Q!FullIsShown
<1> SUFFICES ASSUME TextInv, NEW q \in DOMAIN textReport.results
             PROVE  /\ Q!Problem(textReport.results[q]) =>
                         \E f \in DOMAIN textReport.plan : q \in textReport.plan[f]
                    /\ textReport.results[q].answer = "full" =>
                         q.signals > 0 /\ 2 * textReport.results[q].found >= q.signals
  BY DEF Q!ProblemsAreAddressed, Q!FullIsShown
<1>1. textReport.results # << >>
  OBVIOUS
<1>2a. PICK txt \in Seq(Q!Chunk) : \E A, evidence : Answered(txt, A, evidence, textReport)
  BY <1>1 DEF TextInv
<1>2. PICK A, evidence : Answered(txt, A, evidence, textReport)
  BY <1>2a, Zenon
<1>3. textReport.plan = Q!Plan(evidence, textReport.results)
  BY <1>2, Zenon DEF Answered
<1>4. Results(q, textReport.results[q])
  BY <1>2, ResultsAre
<1> QED BY <1>3, <1>4, PlanAddresses DEF Results

\* Of some chunks one comes before all others in a ranking, and one after all others.
LEMMA EndsOfRanking ==
  ASSUME NEW text_, NEW c, NEW n \in Nat, NEW f, DOMAIN f \in SUBSET (1..n), \A i \in DOMAIN f : f[i] \in Nat,
         NEW S \in SUBSET DOMAIN f, S # {}
  PROVE  /\ \E i \in S : \A j \in S : j \notin Q!Better(text_, c, f, i)
         /\ \E i \in S : \A j \in S \ {i} : j \in Q!Better(text_, c, f, i)
<1> DEFINE V == {f[i] : i \in S}
           Of(i) == text_[i].category = c
<1>1. IsFiniteSet(S) /\ \A W \in SUBSET S : IsFiniteSet(W) /\ W \in SUBSET Nat /\ W \in SUBSET Int
  <2>1. IsFiniteSet(1..n)
    BY UpToIsFinite
  <2>2. \A W \in SUBSET S : W \in SUBSET (1..n)
    OBVIOUS
  <2>3. \A W \in SUBSET S : W \in SUBSET Nat /\ W \in SUBSET Int
    OBVIOUS
  <2> QED BY <2>1, <2>2, <2>3, FS_Subset
<1>2. IsFiniteSet(V) /\ V # {} /\ V \in SUBSET Nat /\ V \in SUBSET Int
  <2>1. PICK g : g = [i \in S |-> f[i]]
    OBVIOUS
  <2>2. DOMAIN g = S /\ V = {g[i] : i \in S}
    BY <2>1
  <2>3. IsFiniteSet(V)
    <3> HIDE DEF V
    <3> QED BY <1>1, <2>2, ImageIsFinite
  <2> QED BY <2>3
<1>3. \A i, j \in S : Q!Ahead(text_, c, i, j) <=>
        (IF Of(i) /\ Of(j) THEN i < j ELSE Of(i) \/ (~Of(j) /\ i < j))
  BY DEF Q!Ahead
<1>4. \A i, j \in S : j \in Q!Better(text_, c, f, i) <=>
        (f[j] > f[i] \/ (f[j] = f[i] /\ Q!Ahead(text_, c, j, i)))
  BY DEF Q!Better
<1>5. \A W \in SUBSET S : W # {} => /\ \E i \in W : \A j \in W : i <= j
                                    /\ \E i \in W : \A j \in W : i >= j
  <2> TAKE W \in SUBSET S
  <2> HAVE W # {}
  <2>1. IsFiniteSet(W) /\ W \in SUBSET Nat /\ W \in SUBSET Int
    BY <1>1
  <2>2. \E i \in W : \A j \in W : i <= j
    BY <2>1, LeastNat
  <2>3. \E i \in W : \A j \in W : i >= j
    BY <2>1, LargestIsThere
  <2> QED BY <2>2, <2>3
<1>6. \A i \in S : i \in Nat /\ f[i] \in Nat
  BY <1>1
<1>7. \E i \in S : \A j \in S : j \notin Q!Better(text_, c, f, i)
  <2>1. PICK m \in V : \A v \in V : m >= v
    BY <1>2, LargestIsThere
  <2> DEFINE B == {i \in S : f[i] = m}
             C == {i \in B : Of(i)}
  <2>2. B \in SUBSET S /\ C \in SUBSET S /\ B # {}
    OBVIOUS
  <2>3. CASE C # {}
    <3>1. PICK i \in C : \A j \in C : i <= j
      BY <1>5, <2>2, <2>3
    <3>2. \A j \in S : f[j] > f[i] => FALSE
      BY <1>6, <2>1
    <3>3. \A j \in S : f[j] = f[i] => ~Q!Ahead(text_, c, j, i)
      BY <1>3, <1>6, <3>1
    <3> QED BY <1>4, <3>2, <3>3
  <2>4. CASE C = {}
    <3>1. PICK i \in B : \A j \in B : i <= j
      BY <1>5, <2>2
    <3>2. \A j \in S : f[j] > f[i] => FALSE
      BY <1>6, <2>1
    <3>3. \A j \in S : f[j] = f[i] => ~Q!Ahead(text_, c, j, i)
      BY <1>3, <1>6, <3>1, <2>4
    <3> QED BY <1>4, <3>2, <3>3
  <2> QED BY <2>3, <2>4
<1>8. \E i \in S : \A j \in S \ {i} : j \in Q!Better(text_, c, f, i)
  <2>1. PICK m \in V : \A v \in V : m <= v
    BY <1>2, LeastNat
  <2> DEFINE B == {i \in S : f[i] = m}
             C == {i \in B : ~Of(i)}
  <2>2. B \in SUBSET S /\ C \in SUBSET S /\ B # {}
    OBVIOUS
  <2>3. CASE C # {}
    <3>1. PICK i \in C : \A j \in C : i >= j
      BY <1>5, <2>2, <2>3
    <3>2. \A j \in S : f[j] > f[i] \/ f[j] = f[i]
      BY <1>6, <2>1
    <3>3. \A j \in S \ {i} : f[j] = f[i] => Q!Ahead(text_, c, j, i)
      BY <1>3, <1>6, <3>1
    <3> QED BY <1>4, <3>2, <3>3
  <2>4. CASE C = {}
    <3>1. PICK i \in B : \A j \in B : i >= j
      BY <1>5, <2>2
    <3>2. \A j \in S : f[j] > f[i] \/ f[j] = f[i]
      BY <1>6, <2>1
    <3>3. \A j \in S \ {i} : f[j] = f[i] => Q!Ahead(text_, c, j, i)
      BY <1>3, <1>6, <3>1, <2>4
    <3> QED BY <1>4, <3>2, <3>3
  <2> QED BY <2>3, <2>4
<1> QED BY <1>7, <1>8

\* What is retrieved where the best page of a category comes first.
BestFirst(txt, c, r) ==
  /\ 1 \in DOMAIN r /\ r[1] = 818 /\ Q!Better(txt, c, r, 1) = {}
  /\ IsFiniteSet(DOMAIN r) /\ Cardinality(DOMAIN r) \in Nat /\ Cardinality(DOMAIN r) <= 5

LEMMA BestIsRetrieved ==
  ASSUME NEW txt \in Seq(Q!Chunk), txt # << >>, NEW c \in Q!Categories, txt[1].category = c,
         NEW r, r = Q!Retrieved(txt, c, Q!Diverse(txt, c, Q!Fused(txt, c)))
  PROVE  BestFirst(txt, c, r)
<1>1. PICK n \in Nat : n = Len(txt) /\ n >= 1 /\ DOMAIN txt = 1..n
  OBVIOUS
<1> DEFINE D == 1..n
           M == Matching(txt, c)
<1>2. M \in SUBSET D /\ 1 \in M /\ 1 \in D /\ D \in SUBSET D /\ D = DOMAIN txt
  BY <1>1 DEF Matching
<1>3. \A j \in D : ~Q!Ahead(txt, c, j, 1)
  BY DEF Q!Ahead
<1>4. PICK f : f = Q!Fused(txt, c) /\ Pieces(f, n)
  BY <1>1, FusedPieces, Zenon
<1>5. DOMAIN f \in SUBSET D /\ \A i \in DOMAIN f : f[i] \in Nat /\ f[i] <= 818
  BY <1>4 DEF Pieces
<1> HIDE DEF M
<1>8. 1 \in DOMAIN f /\ f[1] = 818
  <2>1. Q!Place(txt, c, D, 1) = 1 /\ Q!Place(txt, c, M, 1) = 1
    <3>1. ASSUME NEW S \in SUBSET (1..n), 1 \in S PROVE Q!Place(txt, c, S, 1) = 1
      <4>1. \A j \in S : ~Q!Ahead(txt, c, j, 1)
        BY <1>3
      <4> QED BY <3>1, <4>1, PlaceIs
    <3> QED BY <1>2, <3>1
  <2>2. PICK v \in 0..20, u \in 0..20 : v = Q!Place(txt, c, D, 1) /\ u = Q!Place(txt, c, M, 1) /\ v = 1 /\ u = 1
    BY <2>1
  <2>3. Both(txt, c, 1) = Q!FusedScore(v, u)
    BY <1>2, <2>2 DEF Both, M
  <2>4. Both(txt, c, 1) = 818
    BY <2>2, <2>3, FusedBound
  <2>5. f = [i \in {j \in DOMAIN txt : Both(txt, c, j) > 0} |-> Both(txt, c, i)]
    <3>1. Q!Fused(txt, c) = [i \in {j \in DOMAIN txt : Both(txt, c, j) > 0} |-> Both(txt, c, i)]
      BY FusedIs
    <3> QED BY <1>4, <3>1, Zenon
  <2>6. 1 \in DOMAIN txt /\ Both(txt, c, 1) > 0
    BY <1>2, <2>4
  <2> QED BY <2>4, <2>5, <2>6
<1>12. \A h, i : (DOMAIN h \in SUBSET DOMAIN f /\ i \in DOMAIN h /\ (\A j \in DOMAIN h : h[j] = f[j])) =>
                   Q!Better(txt, c, h, i) = Q!Better(txt, c, f, i) \cap DOMAIN h
  BY <1>4 DEF Q!Better
<1>13. Q!Better(txt, c, f, 1) = {}
  BY <1>2, <1>3, <1>5, <1>8 DEF Q!Better
<1> DEFINE A == {i \in DOMAIN f : Cardinality({j \in Q!Better(txt, c, f, i) : txt[j].page = txt[i].page}) < 2}
<1>14. PICK d : d = Q!Diverse(txt, c, f) /\ DOMAIN d = A /\ \A i \in A : d[i] = f[i]
  <2>1. Q!Diverse(txt, c, f) = Q!Restrict(f, A)
    <3>1. \A S : Q!Cardinality(S) = Cardinality(S)
      BY QCount
    <3> QED BY <1>1, <3>1, Zenon DEF Q!Diverse
  <2> QED BY <2>1 DEF Q!Restrict
<1> DEFINE R == {i \in A : Cardinality(Q!Better(txt, c, d, i)) < 5}
<1>15. DOMAIN r = R /\ \A i \in R : r[i] = f[i]
  <2>1. r = Q!Restrict(d, R)
    <3>1. \A S : Q!Cardinality(S) = Cardinality(S)
      BY QCount
    <3>2. r = Q!Retrieved(txt, c, d)
      BY <1>4, <1>14
    <3> QED BY <1>14, <3>1, <3>2, Zenon DEF Q!Retrieved
  <2> QED BY <1>14, <2>1 DEF Q!Restrict
<1>16. \A S : S \in SUBSET {1} => IsFiniteSet(S) /\ Cardinality(S) \in Nat /\ Cardinality(S) <= 1
  <2>1. IsFiniteSet({1}) /\ Cardinality({1}) = 1
    BY FS_Singleton
  <2> QED BY <2>1, FS_Subset, FS_CardinalityType
<1>17. \A i \in DOMAIN f : Q!Better(txt, c, f, i) \in SUBSET {1} => i \in R
  <2> TAKE i \in DOMAIN f
  <2> HAVE Q!Better(txt, c, f, i) \in SUBSET {1}
  <2>1. Cardinality({j \in Q!Better(txt, c, f, i) : txt[j].page = txt[i].page}) < 2
    <3>1. PICK S : S = {j \in Q!Better(txt, c, f, i) : txt[j].page = txt[i].page} /\ S \in SUBSET {1}
      OBVIOUS
    <3>2. Cardinality(S) \in Nat /\ Cardinality(S) <= 1
      BY <1>16, <3>1
    <3> QED BY <3>1, <3>2
  <2>2. i \in A
    BY <2>1
  <2>3. Q!Better(txt, c, d, i) \in SUBSET {1}
    <3>1. A \in SUBSET DOMAIN f
      OBVIOUS
    <3> HIDE DEF A
    <3>2. DOMAIN d \in SUBSET DOMAIN f /\ i \in DOMAIN d /\ \A j \in DOMAIN d : d[j] = f[j]
      BY <1>14, <2>2, <3>1
    <3>3. Q!Better(txt, c, d, i) = Q!Better(txt, c, f, i) \cap DOMAIN d
      BY <1>12, <3>2
    <3> QED BY <3>3
  <2>4. Cardinality(Q!Better(txt, c, d, i)) < 5
    BY <1>16, <2>3
  <2> HIDE DEF A
  <2> QED BY <2>2, <2>4
<1>18. A \in SUBSET DOMAIN f /\ A \in SUBSET D /\ R \in SUBSET A
  BY <1>5
<1>19. 1 \in R
  BY <1>8, <1>13, <1>17
<1> HIDE DEF A
<1>21. IsFiniteSet(D)
  BY UpToIsFinite
<1>22. IsFiniteSet(R) /\ Cardinality(R) \in Nat /\ Cardinality(R) <= 5
  <2>1. IsFiniteSet(R) /\ Cardinality(R) \in Nat
    <3> HIDE DEF R
    <3>1. R \in SUBSET D
      BY <1>18
    <3> HIDE DEF D
    <3> QED BY <1>21, <3>1, FS_Subset, FS_CardinalityType
  <2>2. PICK w \in R : \A j \in R \ {w} : j \in Q!Better(txt, c, d, w)
    <3>1. DOMAIN d \in SUBSET (1..n) /\ \A i \in DOMAIN d : d[i] \in Nat
      BY <1>5, <1>14, <1>18
    <3>2. R \in SUBSET DOMAIN d /\ R # {}
      BY <1>14, <1>18, <1>19
    <3> HIDE DEF R
    <3> QED BY <3>1, <3>2, EndsOfRanking
  <2>3. R \ {w} \in SUBSET Q!Better(txt, c, d, w)
    BY <2>2
  <2>4. Q!Better(txt, c, d, w) \in SUBSET D
    BY <1>14, <1>18 DEF Q!Better
  <2>5. IsFiniteSet(Q!Better(txt, c, d, w)) /\ Cardinality(Q!Better(txt, c, d, w)) \in Nat
    <3> HIDE DEF D
    <3> QED BY <1>21, <2>4, FS_Subset, FS_CardinalityType
  <2>6. Cardinality(Q!Better(txt, c, d, w)) < 5
    OBVIOUS
  <2> HIDE DEF R
  <2>7. Cardinality(R \ {w}) <= Cardinality(Q!Better(txt, c, d, w)) /\ IsFiniteSet(R \ {w})
    BY <2>3, <2>5, FS_Subset
  <2>8. Cardinality(R \ {w}) = Cardinality(R) - 1
    BY <2>1, <2>2, FS_RemoveElement
  <2> QED BY <2>1, <2>5, <2>6, <2>7, <2>8
<1>23. Q!Better(txt, c, r, 1) = {}
  <2>1. DOMAIN r \in SUBSET DOMAIN f /\ 1 \in DOMAIN r /\ \A j \in DOMAIN r : r[j] = f[j]
    BY <1>15, <1>18, <1>19
  <2>2. Q!Better(txt, c, r, 1) = Q!Better(txt, c, f, 1) \cap DOMAIN r
    BY <1>12, <2>1
  <2> QED BY <1>13, <2>2
<1> QED BY <1>8, <1>15, <1>19, <1>22, <1>23 DEF BestFirst

LEMMA BestEvidence ==
  ASSUME NEW txt \in Seq(Q!Chunk), txt # << >>, NEW c \in Q!Categories, txt[1].category = c,
         txt[1].signals = 4,
         NEW r, r = Q!Retrieved(txt, c, Q!Diverse(txt, c, Q!Fused(txt, c))), NEW e, e = Q!Evidence(txt, c, r)
  PROVE  e.chunks > 0 /\ e.signals >= 4 /\ e.relevance >= 250
<1>1. Pieces(r, Len(txt))
  BY RetrievedPieces
<1> DEFINE D == DOMAIN r
           n == Len(txt)
           kept == {i \in DOMAIN r : txt[i].category = c
                      /\ Q!SumOver([j \in Q!Better(txt, c, r, i) |-> txt[j].chars]) < 2000}
<1>0. BestFirst(txt, c, r)
  BY BestIsRetrieved
<1>2. /\ 1 \in D /\ r[1] = 818 /\ Q!Better(txt, c, r, 1) = {}
      /\ IsFiniteSet(D) /\ Cardinality(D) \in Nat /\ Cardinality(D) <= 5
  BY <1>0 DEF BestFirst
<1>3. n \in Nat /\ DOMAIN txt = 1..n
  OBVIOUS
<1>4. D \in SUBSET (1..n) /\ \A i \in D : r[i] \in Nat /\ r[i] <= 818 /\ r[i] >= 312
  BY <1>1, Zenon DEF Pieces
<1>5. e.chunks = Cardinality(D)
  BY QCount, Zenon DEF Q!Evidence
<1>6. e.relevance = Q!Average(SumOn(r, D), Cardinality(D))
  <2>1. Q!SumOver(r) = SumOn(r, D)
    BY QSum
  <2>2. e.relevance = Q!Average(Q!SumOver(r), Q!Cardinality(D))
    BY Zenon DEF Q!Evidence
  <2> QED BY <2>1, <2>2, QCount, Zenon
<1>7. e.signals = Q!SumOver([i \in kept |-> txt[i].signals]) /\ kept \in SUBSET D
  BY Zenon DEF Q!Evidence
<1>8. 1 \in kept
  <2>1. Q!SumOver([j \in Q!Better(txt, c, r, 1) |-> txt[j].chars]) = 0
    <3>1. PICK B : B = Q!Better(txt, c, r, 1) /\ B = {}
      BY <1>2
    <3>2. PICK w : w = [j \in B |-> txt[j].chars]
      OBVIOUS
    <3>3. Q!SumOver(w) = SumOn(w, B)
      BY <3>2, QSum
    <3>4. SumOn(w, B) = 0
      BY <3>1, SumNone
    <3> QED BY <3>1, <3>2, <3>3, <3>4, Zenon
  <2> DEFINE First(i) == txt[i].category = c /\ Q!SumOver([j \in Q!Better(txt, c, r, i) |-> txt[j].chars]) < 2000
  <2>2. First(1)
    BY <2>1, SMT
  <2>3. kept = {i \in DOMAIN r : First(i)}
    OBVIOUS
  <2> HIDE DEF First, kept
  <2> QED BY <1>2, <2>2, <2>3
<1> HIDE DEF D, n, kept
<1>9. Cardinality(D) >= 1
  <2>1. Cardinality(D) # 0
    BY <1>2, FS_EmptySet
  <2> QED BY <1>2, <2>1
<1>10. e.signals >= 4
  <2> DEFINE w == [i \in kept |-> txt[i].signals]
  <2>1. \A i \in kept : w[i] \in Nat
    <3> TAKE i \in kept
    <3>1. i \in 1..n
      BY <1>4, <1>7
    <3>2. PICK k \in Q!Chunk : k = txt[i]
      BY <3>1, <1>3
    <3>3. k.signals \in 0..4
      BY DEF Q!Chunk
    <3> QED BY <3>2, <3>3
  <2>2. IsFiniteSet(kept)
    BY <1>2, <1>7, FS_Subset
  <2>3. e.signals = SumOn(w, kept)
    <3>1. e.signals = Q!SumOver(w) /\ DOMAIN w = kept
      BY <1>7
    <3> HIDE DEF w
    <3> QED BY <3>1, QSum
  <2>4. w[1] = 4
    BY <1>8
  <2> HIDE DEF w
  <2>5. Numbers(w, kept)
    BY <2>1, <2>2, SumNat
  <2>6. SumOn(w, kept) = w[1] + SumOn(w, kept \ {1})
    BY <1>8, <2>5, SumStep
  <2>7. SumOn(w, kept \ {1}) \in Nat
    <3>1. IsFiniteSet(kept \ {1}) /\ \A i \in kept \ {1} : w[i] \in Nat
      BY <2>1, <2>2, FS_RemoveElement
    <3> QED BY <3>1, SumNat
  <2> QED BY <2>3, <2>4, <2>6, <2>7
<1>13. Numbers(r, D) /\ SumOn(r, D) \in Nat
  <2>1. \A i \in D : r[i] \in Nat
    BY <1>4
  <2> QED BY <1>2, <2>1, SumNat
<1>14. PICK sum \in Nat : sum = SumOn(r, D)
  BY <1>13
<1>15. PICK m \in Nat : m = Cardinality(D)
  BY <1>2, FS_CardinalityType
<1>16. m >= 1 /\ m <= 5
  BY <1>2, <1>9, <1>15
<1>11. sum >= 818 + 312 * (m - 1)
  <2>1. SumOn(r, D) = r[1] + SumOn(r, D \ {1})
    BY <1>2, <1>13, SumStep
  <2> DEFINE E == D \ {1}
  <2>2. IsFiniteSet(E) /\ Cardinality(E) = Cardinality(D) - 1 /\ Cardinality(E) \in Nat
    BY <1>2, FS_RemoveElement, FS_CardinalityType
  <2>3. PICK lo \in Int, top \in Int : lo = 312 /\ top = 818
    BY SMT
  <2>4. \A k \in E : r[k] \in lo..top
    <3> TAKE k \in E
    <3>1. PICK x \in Nat : x = r[k] /\ x >= 312 /\ x <= 818
      BY <1>4
    <3>2. x \in lo..top
      <4>1. lo <= x /\ x <= top
        BY <2>3, <3>1, SMT
      <4> QED BY <4>1
    <3> QED BY <3>1, <3>2
  <2> HIDE DEF E
  <2>5. SumOn(r, E) \in Int /\ lo * Cardinality(E) <= SumOn(r, E)
    BY <2>2, <2>4, SumBetween
  <2>6. PICK a \in Int, k \in Nat : a = SumOn(r, E) /\ k = Cardinality(E) /\ k = m - 1
    BY <1>15, <2>2, <2>5
  <2>7. a >= 312 * k
    BY <2>3, <2>5, <2>6, SMT
  <2>8. sum = 818 + a
    BY <1>2, <1>14, <2>1, <2>6 DEF E
  <2> QED BY <2>6, <2>7, <2>8, SMT
<1>12. e.relevance >= 250
  <2>1. e.relevance = sum \div m
    <3>1. m # 0
      BY <1>16
    <3> QED BY <1>6, <1>14, <1>15, <3>1 DEF Q!Average
  <2>2. PICK k \in Nat : k = 250
    BY SMT
  <2>3. k * m <= sum
    BY <1>11, <1>16, <2>2, SMT
  <2>4. m > 0
    BY <1>16
  <2>5. sum \div m >= k
    BY <2>3, <2>4, QuotientAtLeast
  <2> QED BY <2>1, <2>2, <2>5
<1> QED BY <1>2, <1>5, <1>9, <1>10, <1>12

\* Such evidence answers every question that has signals.
LEMMA BestAnswers ==
  ASSUME NEW q, q.signals \in 1..4, NEW e, Evidences(e), e.chunks > 0, e.signals >= 4, e.relevance >= 250
  PROVE  Q!Result(q, e).answer = "full"
<1>1. PICK r : r = Q!Result(q, e)
  OBVIOUS
<1>2. PICK total \in 1..4, rel \in Nat, have \in Nat : total = q.signals /\ rel = e.relevance /\ rel >= 250 /\ have = e.signals /\ have >= 4
  BY DEF Evidences
<1>3. Q!Shown(q, e) = total
  BY <1>2, SMT DEF Q!Shown, Q!Least
<1>4. Q!Twelfths(total, total) = 12
  <2>1. total = 1 \/ total = 2 \/ total = 3 \/ total = 4
    BY SMT
  <2> QED BY <2>1, SMT DEF Q!Twelfths
<1>5. r.score = 24 * rel + 2000 * 12 + 12000
  <2>1. e.chunks # 0
    BY SMT DEF Evidences
  <2>2. r.score = (IF e.chunks = 0 THEN 0
                ELSE 24 * e.relevance + 2000 * Q!Twelfths(Q!Shown(q, e), q.signals) + (IF Q!Shown(q, e) > 0 THEN 12000 ELSE 0))
    BY <1>1, SMT DEF Q!Result
  <2> QED BY <1>2, <1>3, <1>4, <2>1, <2>2, SMT
<1>6. r.answer = (IF r.score >= 42000 THEN "full" ELSE IF r.score >= 18000 THEN "partial" ELSE "none")
  <2>1. r.answer = (IF r.score >= Q!FullyAt THEN "full" ELSE IF r.score >= 18000 THEN "partial" ELSE "none")
    BY <1>1, SMT DEF Q!Result
  <2> QED BY <2>1, SMT DEF Q!FullyAt
<1>7. r.score >= 42000
  BY <1>2, <1>5, SMT
<1> QED BY <1>1, <1>6, <1>7, SMT

LEMMA BestPageAnswered == TextInv => Q!BestPageAnswers
<1> SUFFICES ASSUME TextInv, audited, text.text # << >>,
                    NEW q \in DOMAIN textReport.results,
                    Head(text.text).category = q.category, Head(text.text).signals = 4, q.signals > 0
             PROVE  textReport.results[q].answer = "full"
  BY DEF Q!BestPageAnswers
<1>1a. PICK txt \in Seq(Q!Chunk) : \E A, evidence : Answered(txt, A, evidence, textReport) /\ txt = text.text
  BY DEF TextInv
<1>1. PICK A, evidence : Answered(txt, A, evidence, textReport) /\ txt = text.text
  BY <1>1a, Zenon
<1>2. q \in A /\ q.category \in Q!Categories /\ q.signals \in 0..4 /\ Evidences(evidence[q.category])
        /\ textReport.results[q] = Q!Result(q, evidence[q.category])
  BY <1>1, ResultsAre
<1>3. PICK c, e : c \in Q!Categories /\ c = q.category /\ e = evidence[c] /\ Evidences(e)
  BY <1>2
<1>4. PICK r : /\ r = Q!Retrieved(txt, c, Q!Diverse(txt, c, Q!Fused(txt, c)))
             /\ e = Q!Evidence(txt, c, r)
  BY <1>1, <1>3, Zenon DEF Answered
<1>5. txt # << >> /\ txt[1].category = c /\ txt[1].signals = 4
  BY <1>1, <1>3
<1>6. e.chunks > 0 /\ e.signals >= 4 /\ e.relevance >= 250
  BY <1>3, <1>4, <1>5, BestEvidence
<1>7. q.signals \in 1..4
  BY <1>2
<1>8. Q!Result(q, e).answer = "full"
  BY <1>3, <1>6, <1>7, BestAnswers
<1> QED BY <1>2, <1>3, <1>8

\* What is critical and what is not well answered comes with a fix, a question is
\* fully answered only on the strength of its signals, and the best page answers.
THEOREM ProblemsAreMet == Spec => []ProblemsAreAsked
<1>1. TechInv /\ TextInv => ProblemsAreAsked
  BY CriticalAsked, ProblemsAddressed, BestPageAnswered DEF ProblemsAreAsked
<1> QED BY <1>1, TechnicalHolds, TextHolds, PTL

=============================================================================
