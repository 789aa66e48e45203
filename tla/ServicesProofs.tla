----------------------------- MODULE ServicesProofs -----------------------------
(***************************************************************************)
(* The safety of the two parts that deal with a service outside: the         *)
(* observation run that asks providers for answers (ObservationRun), for     *)
(* every number of questions, slots and retries, and for every cap and cost; *)
(* and the billing that follows the events of the payment service           *)
(* (BillingWebhooks), for any number of requests, webhooks and subscriptions,*)
(* and any bounds on events, deliveries and failures.                       *)
(***************************************************************************)
EXTENDS ObservationRun, BillingWebhooks, FiniteSetTheorems, WellFoundedInduction,
        NaturalsInduction, TLAPS

-----------------------------------------------------------------------------
(* The observation run. *)

\* Where a coroutine is determines how far its loop over the providers got.
Loop(q) ==
  /\ at[q] \in {"created", "waiting", "granted"} => turn[q] = 1 /\ calls[q][1] = 0
  /\ at[q] \in {"checking", "asking", "backoff"} => turn[q] < 3
  /\ at[q] \in {"trying", "checking"} /\ turn[q] < 3 => calls[q][turn[q]] = 0
  /\ at[q] \in {"asking", "backoff"} => calls[q][turn[q]] > 0
  /\ at[q] = "backoff" => calls[q][turn[q]] < MaxRetries
  /\ turn[q] = 1 => calls[q][2] = 0
  /\ calls[q][1] <= MaxRetries /\ calls[q][2] <= MaxRetries

\* A coroutine has a result exactly when it has ended, and the result says how.
Ended(q) ==
  /\ at[q] # "done" => outcome[q] = "none"
  /\ at[q] = "done" => outcome[q] \notin {"none", "refused"}
  /\ outcome[q] = "failed" => turn[q] = 3
  /\ outcome[q] \in {"answered", "raised"} => turn[q] < 3 /\ calls[q][turn[q]] > 0

\* What a returned run says, and that its coroutines have ended with it.
Returned ==
  /\ ~Running => \A q \in Questions : at[q] \in {"done", "cancelled"}
  /\ CapIsReported
  /\ OneResultPerQuestion
  /\ SpendIsReported

\* The inductive invariant.
RunIInv ==
  /\ RunTypeOK
  /\ NoSlotLost
  /\ \A q \in Questions : Loop(q) /\ Ended(q)
  /\ exceeded <=> total >= Cap
  /\ total = Usage
  /\ Returned

-----------------------------------------------------------------------------
(* The semaphore. *)

\* The questions are finitely many, and so are those that hold a slot.
LEMMA HoldingFinite ==
  /\ IsFiniteSet(Questions)
  /\ IsFiniteSet(Holding) /\ Cardinality(Holding) \in Nat
<1>1. IsFiniteSet(Questions)
  BY SizeAssumption, FS_Interval DEF Questions
<1>2. Holding \in SUBSET Questions
  BY DEF Holding
<1> QED
  BY <1>1, <1>2, FS_Subset, FS_CardinalityType

\* Nothing but the place of one question changes, and it neither takes nor
\* gives back a slot.
LEMMA SlotKept ==
  ASSUME RunTypeOK, NoSlotLost, NEW q \in Questions, q \in Holding,
         at' = [at EXCEPT ![q] = "trying"] \/ at' = [at EXCEPT ![q] = "checking"]
           \/ at' = [at EXCEPT ![q] = "asking"] \/ at' = [at EXCEPT ![q] = "backoff"],
         free' = free
  PROVE  NoSlotLost'
<1>1. Holding' = Holding
  BY DEF Holding, RunTypeOK
<1>2. Waiting' = Waiting
  BY DEF Holding, Waiting, RunTypeOK
<1> QED
  BY <1>1, <1>2 DEF NoSlotLost

\* A question that ends gives its slot to the first that waits, or back.
LEMMA SlotPassed ==
  ASSUME RunTypeOK, NoSlotLost, NEW q \in Questions, q \in Holding, PassSlot(q)
  PROVE  NoSlotLost' /\ free' \in Nat
<1> DEFINE H == Holding \ {q}
<1>1. IsFiniteSet(H) /\ Cardinality(H) = Cardinality(Holding) - 1
  BY HoldingFinite, FS_RemoveElement
<1>2. CASE Waiting = {} /\ at' = [at EXCEPT ![q] = "done"] /\ free' = free + 1
  <2>1. Holding' = H /\ Waiting' = {}
    BY <1>2 DEF Holding, Waiting, RunTypeOK
  <2> QED
    BY <1>1, <1>2, <2>1, HoldingFinite, SizeAssumption DEF NoSlotLost, RunTypeOK
<1>3. ASSUME NEW w \in Waiting, at' = [at EXCEPT ![q] = "done", ![w] = "granted"], free' = free
      PROVE  NoSlotLost' /\ free' \in Nat
  <2>1. w \in Questions /\ w \notin H /\ w # q
    BY DEF Waiting, Holding
  <2>2. Holding' = H \cup {w}
    BY <1>3, <2>1 DEF Holding, RunTypeOK
  <2>3. Cardinality(H \cup {w}) = Cardinality(H) + 1
    BY <1>1, <2>1, FS_AddElement
  <2>4. Cardinality(Holding') = Cardinality(Holding)
    BY <1>1, <2>2, <2>3, HoldingFinite
  <2> QED
    BY <1>3, <2>4 DEF NoSlotLost, RunTypeOK
<1> QED
  BY <1>2, <1>3 DEF PassSlot

-----------------------------------------------------------------------------
(* Sums.  The induction theorems of the library take operators, which no prover *)
(* here instantiates: induction over numbers goes by a least counterexample.    *)

LEMMA NatOrder == IsWellFoundedOn({p \in Nat \X Nat : p[1] < p[2]}, Nat)
BY NatLessThanWellFounded, SMT DEF OpToRel

\* Every set of numbers that is not empty has a least one.
LEMMA LeastNat ==
  ASSUME NEW T \in SUBSET Nat, T # {}
  PROVE  \E n \in T : \A m \in T : n <= m
<1> DEFINE R == {p \in Nat \X Nat : p[1] < p[2]}
<1>1. IsWellFoundedOn(R, Nat)
  BY NatOrder
<1> HIDE DEF R
<1>2. PICK x \in T : \A y \in T : ~(<<y, x>> \in R)
  BY <1>1, WFMin
<1>3. \A y \in T : ~(y < x)
  BY <1>2 DEF R
<1> QED
  BY <1>3

\* f[i] is the sum of the first i values of w.
Sums(w, n, f) == f = [i \in 0..n |-> IF i = 0 THEN 0 ELSE f[i - 1] + w[i]]

\* There are such sums, for every n.
LEMMA SumsExist ==
  ASSUME NEW w, NEW n \in Nat
  PROVE  \E f : Sums(w, n, f)
<1> DEFINE T == {m \in Nat : ~ \E f : Sums(w, m, f)}
<1> SUFFICES ASSUME T # {} PROVE FALSE
  OBVIOUS
<1>1. PICK m \in T : \A k \in T : m <= k
  <2>1. T \in SUBSET Nat
    OBVIOUS
  <2> HIDE DEF T
  <2> QED
    BY <2>1, LeastNat
<1>2. m # 0
  <2>1. Sums(w, 0, [i \in 0..0 |-> 0])
    BY DEF Sums
  <2> QED
    BY <1>1, <2>1
<1>3. m - 1 \in Nat /\ m - 1 \notin T
  BY <1>1, <1>2
<1>4. PICK f : Sums(w, m - 1, f)
  BY <1>3
<1>5. Sums(w, m, [i \in 0..m |-> IF i = m THEN f[m - 1] + w[m] ELSE f[i]])
  BY <1>2, <1>3, <1>4 DEF Sums
<1> QED
  BY <1>1, <1>5

\* Added takes the last of the sums.
LEMMA AddedIsSum ==
  ASSUME NEW w
  PROVE  \E f : Sums(w, N, f) /\ Added(w) = f[N]
<1>1. Sums(w, N, CHOOSE f : Sums(w, N, f))
  BY SumsExist, SizeAssumption
<1> QED
  BY <1>1 DEF Added, Sums

\* The sums of integers are integers.
LEMMA SumsType ==
  ASSUME NEW w \in [Questions -> Int], NEW f, Sums(w, N, f)
  PROVE  \A n \in 0..N : f[n] \in Int
<1> USE SizeAssumption
<1> DEFINE T == {n \in 0..N : f[n] \notin Int}
<1> SUFFICES ASSUME T # {} PROVE FALSE
  OBVIOUS
<1>1. PICK n \in T : \A k \in T : n <= k
  <2>1. T \in SUBSET Nat
    OBVIOUS
  <2> HIDE DEF T
  <2> QED
    BY <2>1, LeastNat
<1>2. n # 0
  BY <1>1 DEF Sums
<1>3. n - 1 \in 0..N /\ f[n - 1] \in Int /\ w[n] \in Int
  BY <1>1, <1>2 DEF Questions
<1>4. f[n] = f[n - 1] + w[n]
  BY <1>1, <1>2 DEF Sums
<1> QED
  BY <1>1, <1>3, <1>4

\* What one question adds is added to the sum of all.
LEMMA AddedChange ==
  ASSUME NEW w \in [Questions -> Int], NEW q \in Questions, NEW c \in Int
  PROVE  Added([w EXCEPT ![q] = w[q] + c]) = Added(w) + c
<1> USE SizeAssumption
<1> DEFINE v == [w EXCEPT ![q] = w[q] + c]
<1>1. PICK f : Sums(w, N, f) /\ Added(w) = f[N]
  BY AddedIsSum
<1>2. PICK g : Sums(v, N, g) /\ Added(v) = g[N]
  BY AddedIsSum
<1>3. \A n \in 0..N : f[n] \in Int
  BY <1>1, SumsType
<1> DEFINE More(n) == IF n >= q THEN c ELSE 0
           T == {n \in 0..N : g[n] # f[n] + More(n)}
<1>4. T = {}
  <2> SUFFICES ASSUME T # {} PROVE FALSE
    OBVIOUS
  <2>1. PICK n \in T : \A k \in T : n <= k
    <3>1. T \in SUBSET Nat
      OBVIOUS
    <3> HIDE DEF T
    <3> QED
      BY <3>1, LeastNat
  <2>2. q \in Nat /\ 1 <= q /\ q <= N
    BY DEF Questions
  <2>3. n # 0
    BY <1>1, <1>2, <2>1, <2>2 DEF Sums
  <2>4. n \in 1..N /\ n - 1 \in 0..N /\ n - 1 \notin T
    BY <2>1, <2>3
  <2>5. g[n - 1] = f[n - 1] + More(n - 1)
    BY <2>4
  <2>6. g[n] = g[n - 1] + v[n] /\ f[n] = f[n - 1] + w[n]
    BY <1>1, <1>2, <2>4 DEF Sums
  <2>7. v[n] = w[n] + (IF n = q THEN c ELSE 0) /\ w[n] \in Int
    BY <2>4 DEF Questions
  <2>8. f[n - 1] \in Int
    BY <1>3, <2>4
  <2> HIDE DEF T, v
  <2>9. g[n] = f[n] + More(n)
    BY <2>2, <2>4, <2>5, <2>6, <2>7, <2>8
  <2> QED
    BY <2>1, <2>9 DEF T
<1>5. g[N] = f[N] + c
  BY <1>4 DEF Questions
<1> QED
  BY <1>1, <1>2, <1>5

\* Nothing added up is nothing.
LEMMA NothingAdded == Added([q \in Questions |-> 0]) = 0
<1> USE SizeAssumption
<1> DEFINE w == [q \in Questions |-> 0]
<1>1. PICK f : Sums(w, N, f) /\ Added(w) = f[N]
  BY AddedIsSum
<1> DEFINE T == {n \in 0..N : f[n] # 0}
<1>2. T = {}
  <2> SUFFICES ASSUME T # {} PROVE FALSE
    OBVIOUS
  <2>1. PICK n \in T : \A k \in T : n <= k
    <3>1. T \in SUBSET Nat
      OBVIOUS
    <3> HIDE DEF T
    <3> QED
      BY <3>1, LeastNat
  <2>2. n # 0
    BY <1>1, <2>1 DEF Sums
  <2>3. n \in Questions /\ n - 1 \in 0..N /\ n - 1 \notin T
    BY <2>1, <2>2 DEF Questions
  <2>4. f[n] = f[n - 1] + w[n]
    BY <1>1, <2>2, <2>3 DEF Sums
  <2> QED
    BY <2>1, <2>3, <2>4
<1> QED
  BY <1>1, <1>2

-----------------------------------------------------------------------------
(* The initial state. *)

\* A run starts in the invariant.
LEMMA InitRunIInv == RunInit => RunIInv
<1> SUFFICES ASSUME RunInit PROVE RunIInv
  OBVIOUS
<1> USE SizeAssumption, CostAssumption
<1>1. RunTypeOK
  <2>1. calls \in [Questions -> [1..2 -> Nat]]
    BY DEF RunInit
  <2>2. /\ run.status \in {"in_progress", "completed", "partial", "failed"}
        /\ run.errors \subseteq {"timeout", "cost_limit", "exception"}
    BY DEF RunInit, EmptyRun
  <2>3. free \in Nat /\ total \in Nat /\ exceeded \in BOOLEAN /\ providers \in ProviderPairs
    BY DEF RunInit
  <2> QED
    BY <2>1, <2>2, <2>3 DEF RunInit, RunTypeOK, Places, Outcomes
<1>2. Holding = {} /\ Waiting = {}
  BY DEF RunInit, Holding, Waiting
<1>3. NoSlotLost
  BY <1>2, FS_EmptySet DEF RunInit, NoSlotLost
<1>4. \A q \in Questions : Loop(q) /\ Ended(q)
  BY DEF RunInit, Loop, Ended
<1>5. exceeded <=> total >= Cap
  BY DEF RunInit
<1>6. Returned
  BY DEF RunInit, Returned, Running, EmptyRun, CapIsReported, OneResultPerQuestion, SpendIsReported
<1>7. total = Usage
  <2>1. Charged = [q \in Questions |-> 0]
    BY DEF RunInit, Charged
  <2> QED
    BY <2>1, NothingAdded DEF RunInit, Usage
<1> QED
  BY <1>1, <1>3, <1>4, <1>5, <1>6, <1>7 DEF RunIInv

-----------------------------------------------------------------------------
(* The steps of a coroutine. *)

\* A coroutine only moves before the run is returned, and does not touch it.
LEMMA StepRuns ==
  ASSUME RunIInv, NEW q \in Questions, Step(q)
  PROVE  Running /\ run' = run /\ providers' = providers
<1>1. at[q] \notin {"done", "cancelled"}
  BY DEF Step, Enter, Resume, TryProvider, Healthy, Unhealthy, Answers, AnswersNothing,
         RefusedForGood, FailsForNow, BackoffEnds, IsFirst
<1>2. Running
  BY <1>1 DEF RunIInv, Returned
<1>3. run' = run /\ providers' = providers
  BY DEF Step, Enter, Resume, TryProvider, Healthy, Unhealthy, Answers, AnswersNothing,
         RefusedForGood, FailsForNow, BackoffEnds
<1> QED
  BY <1>2, <1>3

\* A coroutine that ends keeps the type of the places.
LEMMA PassSlotType ==
  ASSUME RunTypeOK, NEW q \in Questions, PassSlot(q)
  PROVE  at' \in [Questions -> Places]
BY DEF PassSlot, RunTypeOK, Places, Waiting

\* What a coroutine charges keeps the types of the accounts.
LEMMA ChargeType ==
  ASSUME RunTypeOK, NEW q \in Questions, NEW c \in Nat, Charge(q, c)
  PROVE  /\ outcome' \in [Questions -> Outcomes] /\ cost' \in [Questions -> Nat]
         /\ total' \in Nat /\ exceeded' \in BOOLEAN
BY DEF Charge, RunTypeOK, Outcomes

\* Every step of a coroutine keeps the types.
LEMMA StepType ==
  ASSUME RunIInv, NEW q \in Questions, Step(q)
  PROVE  RunTypeOK'
<1> USE SizeAssumption, CostAssumption DEF Places, Outcomes
<1>1. RunTypeOK
  BY DEF RunIInv
<1>2. providers' \in ProviderPairs /\ run' = run
  BY <1>1, StepRuns DEF RunTypeOK
<1>3. CASE Enter(q)
  <2>1. free' \in Nat
    BY <1>1, <1>3 DEF Enter, RunTypeOK
  <2> QED
    BY <1>1, <1>2, <1>3, <2>1 DEF Enter, RunTypeOK
<1>4. CASE Resume(q)
  BY <1>1, <1>2, <1>4 DEF Resume, RunTypeOK
<1>5. CASE TryProvider(q)
  <2>1. CASE turn[q] = 3 /\ GiveUp(q) /\ PassSlot(q) /\ UNCHANGED calls
    <3>1. at' \in [Questions -> Places] /\ free' \in Nat
      BY <1>1, <1>5, <2>1, PassSlotType DEF PassSlot, RunTypeOK
    <3> QED
      BY <1>1, <1>2, <1>5, <2>1, <3>1 DEF TryProvider, GiveUp, RunTypeOK
  <2>2. CASE /\ turn[q] < 3 /\ Charge(q, MockCost) /\ PassSlot(q)
             /\ calls' = [calls EXCEPT ![q][turn[q]] = @ + 1]
    <3>1. at' \in [Questions -> Places] /\ free' \in Nat
      BY <1>1, <1>5, <2>2, PassSlotType DEF PassSlot, RunTypeOK
    <3>2. turn[q] \in 1..2 /\ calls' \in [Questions -> [1..2 -> Nat]]
      BY <1>1, <2>2 DEF RunTypeOK
    <3>3. /\ outcome' \in [Questions -> Outcomes] /\ cost' \in [Questions -> Nat]
          /\ total' \in Nat /\ exceeded' \in BOOLEAN
      BY <1>1, <2>2, ChargeType
    <3> QED
      BY <1>1, <1>2, <1>5, <3>1, <3>2, <3>3 DEF TryProvider, RunTypeOK
  <2>3. CASE /\ at' = [at EXCEPT ![q] = "checking"]
             /\ UNCHANGED <<calls, outcome, cost, free, total, exceeded>>
    BY <1>1, <1>2, <1>5, <2>3 DEF TryProvider, RunTypeOK
  <2> QED
    BY <1>5, <2>1, <2>2, <2>3 DEF TryProvider
<1>6. CASE Healthy(q) \/ BackoffEnds(q)
  <2>1. turn[q] \in 1..2
    BY <1>1, <1>6 DEF RunIInv, Loop, RunTypeOK, Healthy, BackoffEnds
  <2>2. calls' \in [Questions -> [1..2 -> Nat]]
    BY <1>1, <1>6, <2>1 DEF Healthy, BackoffEnds, RunTypeOK
  <2> QED
    BY <1>1, <1>2, <1>6, <2>2 DEF Healthy, BackoffEnds, RunTypeOK
<1>7. CASE Unhealthy(q) \/ RefusedForGood(q) \/ FailsForNow(q)
  <2>1. turn[q] \in 1..2
    BY <1>1, <1>7 DEF RunIInv, Loop, RunTypeOK, Unhealthy, RefusedForGood, FailsForNow
  <2>2. at' \in [Questions -> Places]
    BY <1>1, <1>7 DEF Unhealthy, RefusedForGood, FailsForNow, NextProvider, RunTypeOK
  <2>3. turn' = turn \/ turn' = [turn EXCEPT ![q] = turn[q] + 1]
    BY <1>7 DEF Unhealthy, RefusedForGood, FailsForNow, NextProvider
  <2>4. turn' \in [Questions -> 1..3]
    BY <1>1, <2>1, <2>3 DEF RunTypeOK
  <2> QED
    BY <1>1, <1>2, <1>7, <2>2, <2>4 DEF Unhealthy, RefusedForGood, FailsForNow, RunTypeOK
<1>8. CASE Answers(q)
  <2>1. PICK c \in Costs : Charge(q, c)
    BY <1>8 DEF Answers
  <2>2. /\ outcome' \in [Questions -> Outcomes] /\ cost' \in [Questions -> Nat]
        /\ total' \in Nat /\ exceeded' \in BOOLEAN
    BY <1>1, <2>1, ChargeType
  <2>3. at' \in [Questions -> Places] /\ free' \in Nat
    BY <1>1, <1>8, PassSlotType DEF Answers, PassSlot, RunTypeOK
  <2> QED
    BY <1>1, <1>2, <1>8, <2>2, <2>3 DEF Answers, RunTypeOK
<1>9. CASE AnswersNothing(q)
  <2>1. at' \in [Questions -> Places] /\ free' \in Nat
    BY <1>1, <1>9, PassSlotType DEF AnswersNothing, PassSlot, RunTypeOK
  <2> QED
    BY <1>1, <1>2, <1>9, <2>1 DEF AnswersNothing, RunTypeOK
<1> QED
  BY <1>3, <1>4, <1>5, <1>6, <1>7, <1>8, <1>9 DEF Step

\* Every step of a coroutine keeps the account of the slots.
LEMMA StepSlots ==
  ASSUME RunIInv, NEW q \in Questions, Step(q)
  PROVE  NoSlotLost'
<1>1. RunTypeOK /\ NoSlotLost
  BY DEF RunIInv
<1>2. CASE Enter(q)
  <2>1. at[q] = "created"
    BY <1>2 DEF Enter, IsFirst
  <2>2. CASE exceeded
    <3>1. Holding' = Holding /\ Waiting' = Waiting /\ free' = free
      BY <1>1, <1>2, <2>1, <2>2 DEF Enter, Holding, Waiting, RunTypeOK
    <3> QED
      BY <1>1, <3>1 DEF NoSlotLost
  <2>3. CASE ~exceeded /\ free > 0
    <3>1. free' = free - 1
      BY <1>2, <2>3 DEF Enter
    <3>2. Holding' = Holding \cup {q} /\ Waiting' = Waiting /\ q \notin Holding
      BY <1>1, <1>2, <2>1, <2>3 DEF Enter, Holding, Waiting, RunTypeOK
    <3>3. Cardinality(Holding') = Cardinality(Holding) + 1
      BY <3>2, HoldingFinite, FS_AddElement
    <3>4. Waiting' = {}
      BY <1>1, <2>3, <3>2 DEF NoSlotLost, RunTypeOK
    <3>5. free' + Cardinality(Holding') = Slots
      BY <1>1, <3>1, <3>3, HoldingFinite DEF NoSlotLost, RunTypeOK
    <3> QED
      BY <3>4, <3>5 DEF NoSlotLost
  <2>4. CASE ~exceeded /\ ~(free > 0)
    <3>1. Holding' = Holding /\ free' = free
      BY <1>1, <1>2, <2>1, <2>4 DEF Enter, Holding, RunTypeOK
    <3>2. free' = 0
      BY <1>1, <2>4, <3>1 DEF RunTypeOK
    <3> QED
      BY <1>1, <3>1, <3>2 DEF NoSlotLost
  <2> QED
    BY <2>2, <2>3, <2>4
<1>3. CASE Resume(q) \/ Healthy(q) \/ BackoffEnds(q) \/ Unhealthy(q) \/ RefusedForGood(q) \/ FailsForNow(q)
  <2>1. q \in Holding
    BY <1>3 DEF Holding, Resume, Healthy, BackoffEnds, Unhealthy, RefusedForGood, FailsForNow
  <2>2. /\ free' = free
        /\ \/ at' = [at EXCEPT ![q] = "trying"] \/ at' = [at EXCEPT ![q] = "checking"]
           \/ at' = [at EXCEPT ![q] = "asking"] \/ at' = [at EXCEPT ![q] = "backoff"]
    BY <1>3 DEF Resume, Healthy, BackoffEnds, Unhealthy, RefusedForGood, FailsForNow, NextProvider
  <2> QED
    BY <1>1, <2>1, <2>2, SlotKept
<1>4. CASE TryProvider(q)
  <2>1. q \in Holding
    BY <1>4 DEF Holding, TryProvider
  <2>2. CASE at' = [at EXCEPT ![q] = "checking"] /\ free' = free
    BY <1>1, <2>1, <2>2, SlotKept
  <2>3. CASE PassSlot(q)
    BY <1>1, <2>1, <2>3, SlotPassed
  <2> QED
    BY <1>4, <2>2, <2>3 DEF TryProvider
<1>5. CASE Answers(q) \/ AnswersNothing(q)
  <2>1. q \in Holding /\ PassSlot(q)
    BY <1>5 DEF Holding, Answers, AnswersNothing
  <2> QED
    BY <1>1, <2>1, SlotPassed
<1> QED
  BY <1>2, <1>3, <1>4, <1>5 DEF Step

\* What a coroutine that ends does to the places: its own is "done", and one
\* that waited may hold the slot.
LEMMA PassSlotPlaces ==
  ASSUME RunTypeOK, NEW q \in Questions, at[q] # "waiting", PassSlot(q)
  PROVE  /\ at'[q] = "done"
         /\ \A p \in Questions \ {q} : at'[p] = at[p] \/ (at[p] = "waiting" /\ at'[p] = "granted")
BY DEF PassSlot, RunTypeOK, Waiting

\* The loop and the end of every other coroutine are as before.
LEMMA OthersKept ==
  ASSUME RunIInv, NEW q \in Questions, NEW p \in Questions, p # q,
         at'[p] = at[p] \/ (at[p] = "waiting" /\ at'[p] = "granted"),
         turn'[p] = turn[p], calls'[p] = calls[p], outcome'[p] = outcome[p]
  PROVE  Loop(p)' /\ Ended(p)'
<1>1. Loop(p) /\ Ended(p)
  BY DEF RunIInv
<1>2. CASE at'[p] = at[p]
  BY <1>1, <1>2 DEF Loop, Ended
<1>3. CASE at[p] = "waiting" /\ at'[p] = "granted"
  BY <1>1, <1>3 DEF Loop, Ended
<1> QED
  BY <1>2, <1>3

\* A step of a coroutine leaves the others as they are, but for the one that
\* is given the slot.
LEMMA StepOthers ==
  ASSUME RunIInv, NEW q \in Questions, Step(q), NEW p \in Questions, p # q
  PROVE  Loop(p)' /\ Ended(p)'
<1>1. RunTypeOK
  BY DEF RunIInv
<1>2. at'[p] = at[p] \/ (at[p] = "waiting" /\ at'[p] = "granted")
  <2>1. CASE Enter(q) \/ Resume(q) \/ Healthy(q) \/ Unhealthy(q) \/ RefusedForGood(q)
               \/ FailsForNow(q) \/ BackoffEnds(q)
    BY <1>1, <2>1 DEF Enter, Resume, Healthy, Unhealthy, RefusedForGood, FailsForNow, BackoffEnds,
                      NextProvider, RunTypeOK
  <2>2. CASE TryProvider(q) \/ Answers(q) \/ AnswersNothing(q)
    <3>1. at[q] # "waiting"
      BY <2>2 DEF TryProvider, Answers, AnswersNothing
    <3>2. PassSlot(q) \/ at' = [at EXCEPT ![q] = "checking"]
      BY <2>2 DEF TryProvider, Answers, AnswersNothing
    <3> QED
      BY <1>1, <3>1, <3>2, PassSlotPlaces DEF RunTypeOK
  <2> QED
    BY <2>1, <2>2 DEF Step
<1>3. turn'[p] = turn[p]
  BY <1>1 DEF Step, Enter, Resume, TryProvider, Healthy, Unhealthy, Answers, AnswersNothing,
              RefusedForGood, FailsForNow, BackoffEnds, NextProvider, RunTypeOK
<1>4. calls'[p] = calls[p]
  BY <1>1 DEF Step, Enter, Resume, TryProvider, Healthy, Unhealthy, Answers, AnswersNothing,
              RefusedForGood, FailsForNow, BackoffEnds, RunTypeOK
<1>5. outcome'[p] = outcome[p]
  BY <1>1 DEF Step, Enter, Resume, TryProvider, Healthy, Unhealthy, Answers, AnswersNothing,
              RefusedForGood, FailsForNow, BackoffEnds, GiveUp, Charge, RunTypeOK
<1> QED
  BY <1>2, <1>3, <1>4, <1>5, OthersKept

\* One more call to the provider that is being used.
LEMMA OneMoreCall ==
  ASSUME RunTypeOK, NEW q \in Questions, turn[q] < 3, calls' = [calls EXCEPT ![q][turn[q]] = @ + 1]
  PROVE  /\ turn[q] \in 1..2 /\ calls[q][turn[q]] \in Nat
         /\ calls'[q][turn[q]] = calls[q][turn[q]] + 1
         /\ \A i \in 1..2 : i # turn[q] => calls'[q][i] = calls[q][i]
<1>1. turn[q] \in 1..2
  BY DEF RunTypeOK
<1> QED
  BY <1>1 DEF RunTypeOK

\* Every step of a coroutine keeps what is known of its own loop.
LEMMA StepOwn ==
  ASSUME RunIInv, NEW q \in Questions, Step(q)
  PROVE  Loop(q)' /\ Ended(q)'
<1> USE SizeAssumption
<1>1. RunTypeOK /\ Loop(q) /\ Ended(q)
  BY DEF RunIInv
<1>2. turn[q] \in 1..3 /\ calls[q][1] \in Nat /\ calls[q][2] \in Nat
  BY <1>1 DEF RunTypeOK
<1>3. CASE Enter(q)
  <2>1. at[q] = "created" /\ turn' = turn /\ calls' = calls
    BY <1>3 DEF Enter, IsFirst
  <2>2. \/ at'[q] \in {"trying", "waiting"} /\ outcome' = outcome
        \/ at'[q] = "done" /\ outcome'[q] = "skipped"
    BY <1>1, <1>3 DEF Enter, RunTypeOK
  <2> QED
    BY <1>1, <1>2, <2>1, <2>2 DEF Loop, Ended
<1>4. CASE Resume(q)
  <2>1. at[q] = "granted" /\ at'[q] = "trying" /\ turn' = turn /\ calls' = calls /\ outcome' = outcome
    BY <1>1, <1>4 DEF Resume, RunTypeOK
  <2> QED
    BY <1>1, <1>2, <2>1 DEF Loop, Ended
<1>5. CASE TryProvider(q)
  <2>1. at[q] = "trying" /\ turn' = turn
    BY <1>5 DEF TryProvider
  <2>2. CASE turn[q] = 3 /\ GiveUp(q) /\ PassSlot(q) /\ UNCHANGED calls
    <3>1. at'[q] = "done"
      BY <1>1, <2>1, <2>2, PassSlotPlaces
    <3>2. outcome'[q] = "failed"
      BY <1>1, <2>2 DEF GiveUp, RunTypeOK
    <3> QED
      BY <1>1, <1>2, <2>1, <2>2, <3>1, <3>2 DEF Loop, Ended
  <2>3. CASE /\ turn[q] < 3 /\ Charge(q, MockCost) /\ PassSlot(q)
             /\ calls' = [calls EXCEPT ![q][turn[q]] = @ + 1]
    <3>1. at'[q] = "done"
      BY <1>1, <2>1, <2>3, PassSlotPlaces
    <3>2. outcome'[q] = "answered"
      BY <1>1, <2>3 DEF Charge, RunTypeOK
    <3>3. calls[q][turn[q]] = 0
      BY <1>1, <2>1, <2>3 DEF Loop
    <3>4. /\ turn[q] \in 1..2
          /\ calls'[q][turn[q]] = calls[q][turn[q]] + 1
          /\ \A i \in 1..2 : i # turn[q] => calls'[q][i] = calls[q][i]
      BY <1>1, <2>3, OneMoreCall
    <3> QED
      BY <1>1, <1>2, <2>1, <3>1, <3>2, <3>3, <3>4 DEF Loop, Ended
  <2>4. CASE /\ turn[q] < 3 /\ at' = [at EXCEPT ![q] = "checking"]
             /\ UNCHANGED <<calls, outcome, cost, free, total, exceeded>>
    <3>1. at'[q] = "checking"
      BY <1>1, <2>4 DEF RunTypeOK
    <3> QED
      BY <1>1, <1>2, <2>1, <2>4, <3>1 DEF Loop, Ended
  <2> QED
    BY <1>5, <2>2, <2>3, <2>4 DEF TryProvider
<1>6. CASE Healthy(q) \/ BackoffEnds(q)
  <2>1. /\ at[q] \in {"checking", "backoff"} /\ at'[q] = "asking"
        /\ turn' = turn /\ outcome' = outcome /\ calls' = [calls EXCEPT ![q][turn[q]] = @ + 1]
    BY <1>1, <1>6 DEF Healthy, BackoffEnds, RunTypeOK
  <2>2. turn[q] < 3 /\ calls[q][turn[q]] < MaxRetries
    BY <1>1, <1>2, <2>1 DEF Loop
  <2>3. /\ turn[q] \in 1..2 /\ calls[q][turn[q]] \in Nat
        /\ calls'[q][turn[q]] = calls[q][turn[q]] + 1
        /\ \A i \in 1..2 : i # turn[q] => calls'[q][i] = calls[q][i]
    BY <1>1, <2>1, <2>2, OneMoreCall
  <2> QED
    BY <1>1, <1>2, <2>1, <2>2, <2>3 DEF Loop, Ended
<1>7. CASE Unhealthy(q) \/ RefusedForGood(q) \/ FailsForNow(q)
  <2>1. at[q] \in {"checking", "asking"} /\ turn[q] \in 1..2 /\ calls' = calls /\ outcome' = outcome
    BY <1>1, <1>2, <1>7 DEF Loop, Unhealthy, RefusedForGood, FailsForNow
  <2>2. CASE NextProvider(q)
    <3>1. at'[q] = "trying" /\ turn'[q] = turn[q] + 1
      BY <1>1, <2>2 DEF NextProvider, RunTypeOK
    <3> QED
      BY <1>1, <1>2, <2>1, <3>1 DEF Loop, Ended
  <2>3. CASE FailsForNow(q) /\ calls[q][turn[q]] < MaxRetries
    <3>1. at[q] = "asking" /\ at'[q] = "backoff" /\ turn' = turn
      BY <1>1, <2>3 DEF FailsForNow, RunTypeOK
    <3> QED
      BY <1>1, <1>2, <2>1, <2>3, <3>1 DEF Loop, Ended
  <2> QED
    BY <1>7, <2>2, <2>3 DEF Unhealthy, RefusedForGood, FailsForNow
<1>8. CASE Answers(q) \/ AnswersNothing(q)
  <2>1. at[q] = "asking" /\ turn' = turn /\ calls' = calls /\ PassSlot(q)
    BY <1>8 DEF Answers, AnswersNothing
  <2>2. outcome'[q] \in {"answered", "raised"}
    BY <1>1, <1>8 DEF Answers, AnswersNothing, Charge, RunTypeOK
  <2>3. at'[q] = "done"
    BY <1>1, <2>1, PassSlotPlaces
  <2> QED
    BY <1>1, <1>2, <2>1, <2>2, <2>3 DEF Loop, Ended
<1> QED
  BY <1>3, <1>4, <1>5, <1>6, <1>7, <1>8 DEF Step

\* The cap is noticed with the answer that reaches it.
LEMMA StepCost ==
  ASSUME RunIInv, NEW q \in Questions, Step(q)
  PROVE  exceeded' <=> total' >= Cap
<1>1. total \in Nat /\ exceeded \in BOOLEAN /\ (exceeded <=> total >= Cap)
  BY DEF RunIInv, RunTypeOK
<1>2. CASE total' = total /\ exceeded' = exceeded
  BY <1>1, <1>2
<1>3. ASSUME NEW c \in Nat, Charge(q, c)
      PROVE  exceeded' <=> total' >= Cap
  <2>1. total' = total + c /\ (exceeded' <=> exceeded \/ total' >= Cap)
    BY <1>3 DEF Charge
  <2>2. total >= Cap => total' >= Cap
    BY <1>1, <2>1, CostAssumption
  <2> QED
    BY <1>1, <2>1, <2>2, Zenon
<1>4. \/ total' = total /\ exceeded' = exceeded
      \/ \E c \in Nat : Charge(q, c)
  BY CostAssumption DEF Step, Enter, Resume, TryProvider, Healthy, Unhealthy, Answers, AnswersNothing,
         RefusedForGood, FailsForNow, BackoffEnds, GiveUp
<1> QED
  BY <1>2, <1>3, <1>4

\* What a coroutine charges is what its answered result carries.
LEMMA StepSpend ==
  ASSUME RunIInv, NEW q \in Questions, Step(q)
  PROVE  total' = Usage'
<1>1. RunTypeOK /\ Ended(q) /\ total = Usage
  BY DEF RunIInv
<1>2. Charged \in [Questions -> Int]
  BY <1>1 DEF RunTypeOK, Charged
<1>3. at[q] # "done"
  BY DEF Step, Enter, Resume, TryProvider, Healthy, Unhealthy, Answers, AnswersNothing,
         RefusedForGood, FailsForNow, BackoffEnds, IsFirst
<1>4. outcome[q] = "none" /\ Charged[q] = 0
  BY <1>1, <1>3 DEF Ended, Charged
<1>5. ASSUME NEW c \in Nat, Charge(q, c)
      PROVE  total' = Usage'
  <2>1. \A p \in Questions : Charged'[p] = IF p = q THEN c ELSE Charged[p]
    BY <1>1, <1>5 DEF Charge, Charged, RunTypeOK
  <2>2. Charged' = [Charged EXCEPT ![q] = Charged[q] + c]
    <3>1. Charged' = [p \in Questions |-> Charged'[p]]
      BY DEF Charged
    <3> QED
      BY <1>2, <1>4, <2>1, <3>1
  <2>3. Added([Charged EXCEPT ![q] = Charged[q] + c]) = Added(Charged) + c
    <3>1. c \in Int
      OBVIOUS
    <3> HIDE DEF Charged
    <3> QED
      BY <1>2, <3>1, AddedChange, Zenon
  <2>4. Usage' = Usage + c
    BY <2>2, <2>3 DEF Usage
  <2> QED
    BY <1>1, <1>5, <2>4 DEF Charge
<1>6. ASSUME cost' = cost, total' = total,
             \A p \in Questions : outcome'[p] = outcome[p]
               \/ (outcome[p] # "answered" /\ outcome'[p] # "answered")
      PROVE  total' = Usage'
  <2>1. Charged' = Charged
    BY <1>6 DEF Charged
  <2> QED
    BY <1>1, <1>6, <2>1 DEF Usage
<1>7. CASE \E c \in Nat : Charge(q, c)
  BY <1>5, <1>7
<1>8. CASE /\ cost' = cost /\ total' = total
           /\ \/ outcome' = outcome
              \/ \E o \in {"failed", "raised", "skipped"} : outcome' = [outcome EXCEPT ![q] = o]
  <2>1. \A p \in Questions : outcome'[p] = outcome[p]
          \/ (outcome[p] # "answered" /\ outcome'[p] # "answered")
    BY <1>1, <1>4, <1>8 DEF RunTypeOK
  <2> QED
    BY <1>6, <1>8, <2>1
<1>9. \/ \E c \in Nat : Charge(q, c)
      \/ /\ cost' = cost /\ total' = total
         /\ \/ outcome' = outcome
            \/ \E o \in {"failed", "raised", "skipped"} : outcome' = [outcome EXCEPT ![q] = o]
  BY CostAssumption DEF Step, Enter, Resume, TryProvider, Healthy, Unhealthy, Answers, AnswersNothing,
         RefusedForGood, FailsForNow, BackoffEnds, GiveUp
<1> QED
  BY <1>7, <1>8, <1>9

\* Every step of a coroutine keeps the invariant.
LEMMA StepIInv ==
  ASSUME RunIInv, NEW q \in Questions, Step(q)
  PROVE  RunIInv'
<1>1. \A p \in Questions : Loop(p)' /\ Ended(p)'
  BY StepOwn, StepOthers
<1>2. Running'
  BY StepRuns DEF Running
<1>3. Returned'
  BY <1>2 DEF Returned, CapIsReported, OneResultPerQuestion, SpendIsReported
<1> QED
  BY <1>1, <1>3, StepType, StepSlots, StepCost, StepSpend DEF RunIInv

-----------------------------------------------------------------------------
(* The end of the run. *)

\* What a run is after the cap was applied to it.
LEMMA CapAppliedFacts ==
  ASSUME NEW status \in {"completed", "partial", "failed"}, NEW results, NEW answered, NEW failed,
         NEW usage, NEW errors \in SUBSET {"timeout", "exception"},
         NEW r, r = CapApplied([status |-> status, results |-> results, answered |-> answered,
                                failed |-> failed, usage |-> usage, errors |-> errors])
  PROVE  /\ r.results = results /\ r.usage = usage
         /\ r.errors = errors \cup (IF exceeded THEN {"cost_limit"} ELSE {})
         /\ r.status = IF exceeded /\ status # "failed" THEN "partial" ELSE status
<1>1. CASE exceeded
  BY <1>1 DEF CapApplied
<1>2. CASE ~exceeded
  BY <1>2 DEF CapApplied
<1> QED
  BY <1>1, <1>2

\* The gather has ended: its results become those of the run.
LEMMA CollectIInv ==
  ASSUME RunIInv, Collect
  PROVE  RunIInv'
<1> DEFINE answered == Cardinality(Having("answered"))
           failed == Cardinality(Having("refused"))
           errors == IF Having("raised") = {} THEN {} ELSE {"exception"}
           status == StatusByCounts(answered, failed)
<1>1. /\ RunTypeOK /\ AllDone /\ (exceeded <=> total >= Cap)
      /\ \A q \in Questions : Loop(q) /\ Ended(q)
  BY DEF RunIInv, Collect
<1>2. UNCHANGED <<providers, at, turn, calls, outcome, cost, free, total, exceeded>>
  BY DEF Collect
<1>3. failed = 0
  <2>1. Having("refused") = {}
    BY <1>1 DEF Having, Ended, AllDone
  <2> QED
    BY <2>1, FS_EmptySet
<1>4. status = "completed"
  BY <1>3 DEF StatusByCounts
<1>5. errors \in SUBSET {"timeout", "exception"}
  OBVIOUS
<1>6. run' = CapApplied([status |-> status, results |-> Results, answered |-> answered,
                         failed |-> failed, usage |-> Usage, errors |-> errors])
  BY DEF Collect
<1>7. /\ run'.results = Results /\ run'.usage = Usage
      /\ run'.errors = errors \cup (IF exceeded THEN {"cost_limit"} ELSE {})
      /\ run'.status = IF exceeded THEN "partial" ELSE "completed"
  BY <1>4, <1>5, <1>6, CapAppliedFacts
<1> HIDE DEF answered, failed, errors, status
<1>8. RunTypeOK'
  BY <1>1, <1>2, <1>5, <1>7 DEF RunTypeOK
<1>9. NoSlotLost'
  <2>1. Holding' = Holding /\ Waiting' = Waiting
    BY <1>2 DEF Holding, Waiting
  <2> QED
    BY <1>2, <2>1 DEF RunIInv, NoSlotLost
<1>10. \A q \in Questions : Loop(q)' /\ Ended(q)'
  BY <1>1, <1>2 DEF Loop, Ended
<1>11. CapIsReported'
  BY <1>1, <1>2, <1>5, <1>7 DEF CapIsReported
<1>12. OneResultPerQuestion'
  BY <1>1, <1>7 DEF OneResultPerQuestion, Results, Ended, AllDone
<1>13. \A q \in Questions : at'[q] \in {"done", "cancelled"}
  BY <1>1, <1>2 DEF AllDone
<1>14. total' = Usage' /\ SpendIsReported'
  <2>1. total = Usage /\ Usage' = Usage
    BY <1>2 DEF RunIInv, Usage, Charged
  <2> QED
    BY <1>2, <1>7, <2>1 DEF SpendIsReported
<1> QED
  BY <1>1, <1>2, <1>8, <1>9, <1>10, <1>11, <1>12, <1>13, <1>14 DEF RunIInv, Returned

\* The total timeout: every coroutine is cancelled and its slot is free.
LEMMA TimeoutIInv ==
  ASSUME RunIInv, Timeout
  PROVE  RunIInv'
<1>1. /\ RunTypeOK /\ (exceeded <=> total >= Cap)
      /\ \A q \in Questions : Loop(q) /\ Ended(q)
  BY DEF RunIInv
<1>2. UNCHANGED <<providers, turn, calls, outcome, cost, total, exceeded>>
  BY DEF Timeout
<1>3. \A q \in Questions : at'[q] = IF at[q] = "done" THEN "done" ELSE "cancelled"
  BY DEF Timeout
<1>4. run' = CapApplied([status |-> "partial", results |-> <<>>, answered |-> 0, failed |-> 0,
                         usage |-> 0, errors |-> {"timeout"}])
  BY DEF Timeout, EmptyRun
<1>5. /\ run'.errors = {"timeout"} \cup (IF exceeded THEN {"cost_limit"} ELSE {})
      /\ run'.status = "partial"
  BY <1>4, CapAppliedFacts
<1>6. RunTypeOK'
  <2>1. at' \in [Questions -> Places] /\ free' \in Nat
    BY <1>1, SizeAssumption DEF Timeout, Places
  <2>2. run'.errors \subseteq {"timeout", "cost_limit", "exception"}
    BY <1>5
  <2> QED
    BY <1>1, <1>2, <1>5, <2>1, <2>2 DEF RunTypeOK
<1>7. NoSlotLost'
  <2>1. Holding' = {} /\ Waiting' = {}
    BY <1>3 DEF Holding, Waiting
  <2> QED
    BY <2>1, FS_EmptySet, SizeAssumption DEF Timeout, NoSlotLost
<1>8. ASSUME NEW q \in Questions PROVE Loop(q)' /\ Ended(q)'
  BY <1>1, <1>2, <1>3 DEF Loop, Ended
<1>9. CapIsReported'
  BY <1>1, <1>2, <1>5 DEF CapIsReported
<1>10. OneResultPerQuestion'
  BY <1>5 DEF OneResultPerQuestion
<1>11. \A q \in Questions : at'[q] \in {"done", "cancelled"}
  BY <1>3
<1>12. total' = Usage'
  BY <1>2 DEF RunIInv, Usage, Charged
<1>13. SpendIsReported'
  BY <1>5 DEF SpendIsReported
<1> QED
  BY <1>1, <1>2, <1>6, <1>7, <1>8, <1>9, <1>10, <1>11, <1>12, <1>13 DEF RunIInv, Returned

\* A step that changes nothing keeps the invariant.
LEMMA StutterIInv == RunIInv /\ UNCHANGED runVars => RunIInv'
<1> SUFFICES ASSUME RunIInv, UNCHANGED runVars PROVE RunIInv'
  OBVIOUS
<1>1. RunTypeOK'
  BY DEF RunIInv, runVars, RunTypeOK
<1>2. NoSlotLost'
  BY DEF RunIInv, runVars, NoSlotLost, Holding, Waiting
<1>3. \A q \in Questions : Loop(q)' /\ Ended(q)'
  BY DEF RunIInv, runVars, Loop, Ended
<1>4. (exceeded <=> total >= Cap)' /\ total' = Usage'
  BY DEF RunIInv, runVars, Usage, Charged
<1>5. Returned'
  BY DEF RunIInv, runVars, Returned, Running, CapIsReported, OneResultPerQuestion, SpendIsReported
<1> QED
  BY <1>1, <1>2, <1>3, <1>4, <1>5 DEF RunIInv

\* The invariant holds in every state of every run.
LEMMA RunInvariance == RunSpec => []RunIInv
<1>1. RunIInv /\ [RunNext]_runVars => RunIInv'
  BY StepIInv, CollectIInv, TimeoutIInv, StutterIInv DEF RunNext
<1> QED
  BY InitRunIInv, <1>1, PTL DEF RunSpec

-----------------------------------------------------------------------------
(* The theorems. *)

\* Type correctness.
THEOREM ObservationTypeCorrect == RunSpec => []RunTypeOK
BY RunInvariance, PTL DEF RunIInv

\* No slot of the semaphore is lost or doubled, and nobody waits beside a free
\* slot, whatever the providers do (process_request).
THEOREM SlotsConserved == RunSpec => []NoSlotLost
BY RunInvariance, PTL DEF RunIInv

\* The retries of each question are bounded and go to the fallback last.
THEOREM RetriesBounded == RunSpec => []RetriesThenFailover
<1>1. RunIInv => RetriesThenFailover
  <2> SUFFICES ASSUME RunIInv, NEW q \in Questions
               PROVE  /\ \A p \in 1..2 : calls[q][p] <= MaxRetries
                      /\ calls[q][2] > 0 => turn[q] >= 2
                      /\ outcome[q] = "failed" => turn[q] = 3
                      /\ outcome[q] \in {"answered", "raised"} => turn[q] < 3 /\ calls[q][turn[q]] > 0
    BY DEF RetriesThenFailover
  <2>1. Loop(q) /\ Ended(q) /\ turn[q] \in 1..3
    BY DEF RunIInv, RunTypeOK
  <2> QED
    BY <2>1 DEF Loop, Ended
<1> QED
  BY RunInvariance, <1>1, PTL

\* A run that did not time out has one result per question, in their order.
THEOREM ResultsComplete == RunSpec => []OneResultPerQuestion
BY RunInvariance, PTL DEF RunIInv, Returned

\* The returned run tells that the cap was reached, exactly if it was.
THEOREM CapReported == RunSpec => []CapIsReported
BY RunInvariance, PTL DEF RunIInv, Returned

\* The usage a run reports is the sum that the cap was checked with, although
\* one is added up at the answers and the other over the results.
THEOREM SpendReported == RunSpec => []SpendIsReported
BY RunInvariance, PTL DEF RunIInv, Returned

\* After the return of the run nothing that belongs to it goes on.
THEOREM ReturnIsFinal == RunSpec => NothingAfterReturn
<1>1. RunIInv /\ [RunNext]_runVars => (~Running => UNCHANGED runVars)
  BY StepRuns DEF RunNext, Collect, Timeout
<1> QED
  BY RunInvariance, <1>1, PTL DEF RunSpec, NothingAfterReturn

-----------------------------------------------------------------------------
(* Billing. *)

-----------------------------------------------------------------------------
(* The invariant. *)

\* A request that has inserted the row and not committed.
HoldsInsert(p) == proc[p].pc \in {"usage", "checkout"} /\ ~proc[p].seen.exists

\* At most one request has, and until it commits there is no row.
RequestsSound ==
  /\ \A c \in Clients : proc[c].event = 0 /\ proc[c].pc # "webhook"
  /\ \A h \in Handlers : proc[h].pc \in {"idle", "webhook"}
  /\ \A p \in Procs :
       /\ proc[p].pc # "webhook" => proc[p].event = 0
       /\ HoldsInsert(p) => inserting
       /\ proc[p].pc \in {"usageInsert", "checkoutInsert"} => ~proc[p].seen.exists
  /\ inserting => ~row.exists
  /\ \A p, q \in Procs : HoldsInsert(p) /\ HoldsInsert(q) => p = q

\* What a request or a webhook has read of the row stays true of it.
SeenSound ==
  \A p \in Procs :
    /\ proc[p].seen.exists => row.exists
    /\ proc[p].seen.sub # "none" => row.sub # "none"
    /\ proc[p].seen.customer # 0 => row.customer # 0
    /\ proc[p].pc = "webhook" =>
         /\ proc[p].event \in 1..Len(events)
         /\ proc[p].found => Matches(events[proc[p].event], proc[p].seen)

\* Where the row comes from.
RowSound ==
  /\ log # {} => row.exists /\ row.sub # "none"
  /\ ~row.exists => row.plan = Starter /\ row.sub = "none" /\ row.status = "active"
  /\ SubTold /\ StatusTold /\ PlanTold
  /\ row.customer <= customers
  /\ customers # 0 => row.exists /\ row.customer # 0
  /\ row.sub # "none" => stripe[row.sub].state # "none"
  /\ log \subseteq acked

\* What an event says, and when it can be sent.
LastOf(s, i) == events[i].sub = s /\ \A j \in i + 1..Len(events) : events[j].sub # s
EventSays(i) ==
  /\ events[i].customer <= customers
  /\ stripe[events[i].sub].state # "none"
  /\ events[i].kind \in {"created", "paid"} => events[i].status = "active"
  /\ events[i].kind = "failed" => events[i].status = "past_due"
  /\ events[i].kind = "updated" => events[i].status # "canceled"
  /\ events[i].kind = "deleted" => events[i].status = "canceled"
EventFollows(i, j) ==
  /\ events[i].kind # "deleted"
  /\ events[j].kind # "created"
  /\ events[j].kind \in {"paid", "failed"}
       /\ (\A k \in i + 1..j - 1 : events[k].sub # events[j].sub)
     => events[i].plan = events[j].plan
StripeTold(s) ==
  stripe[s].state # "none" =>
    /\ stripe[s].customer \in 1..customers /\ stripe[s].plan \in Plans
    /\ \E i \in 1..Len(events) :
         LastOf(s, i) /\ events[i].status = stripe[s].state /\ events[i].plan = stripe[s].plan
EventsSound ==
  /\ \A i \in 1..Len(events) : EventSays(i)
  /\ \A i, j \in 1..Len(events) : i < j /\ events[i].sub = events[j].sub => EventFollows(i, j)
  /\ \A s \in Subs : StripeTold(s)
  /\ Len(events) > 0 => events[1].kind = "created"

\* The row is as the i-th event left it.
ShowsEvent(i) ==
  /\ row.sub = events[i].sub
  /\ row.status = events[i].status
  /\ row.plan = IF events[i].kind = "deleted" THEN Starter ELSE events[i].plan

\* The row after the first k events: as the last event of the subscription
\* created last has left it.
RowAfter(k) ==
  \/ k = 0
  \/ \E j, i \in 1..k :
       /\ events[j].kind = "created" /\ events[i].sub = events[j].sub
       /\ \A l \in j + 1..k : events[l].kind # "created"
       /\ \A l \in i + 1..k : events[l].sub # events[i].sub
       /\ ShowsEvent(i)

\* What a webhook in flight knows when the first k events were answered: it
\* handles the next one on the row as it is, or one that changes nothing.
HandlesInOrder(p, k) ==
  LET e == proc[p].event IN
  proc[p].pc = "webhook" =>
    /\ e <= k + 1
    /\ e = k + 1 =>
         /\ \A column \in {"sub", "status", "plan"} : proc[p].seen[column] = row[column]
         /\ proc[p].found <=> Matches(events[e], row)
    /\ e <= k /\ e \notin log => ~proc[p].found

\* As long as the events come in order, for a user with one customer.
InOrder ==
  orderly /\ customers <= 1 =>
    \E k \in 0..Len(events) :
      /\ acked = 1..k
      /\ RowAfter(k)
      /\ \A e \in 1..k : e \notin log => events[e].kind # "created" /\ events[e].sub # row.sub
      /\ \A p \in Procs : HandlesInOrder(p, k)

\* The inductive invariant.
IInv == TypeOK /\ RequestsSound /\ SeenSound /\ RowSound /\ EventsSound /\ InOrder

-----------------------------------------------------------------------------
(* The columns of a row. *)

\* What an UPDATE of the changed columns leaves in each of them.
LEMMA ChangedColumns ==
  ASSUME NEW now \in Rows, NEW seen \in Rows, NEW new \in Rows
  PROVE  LET after == Changed(now, seen, new) IN
         /\ after \in Rows
         /\ after.exists = IF new.exists # seen.exists THEN new.exists ELSE now.exists
         /\ after.customer = IF new.customer # seen.customer THEN new.customer ELSE now.customer
         /\ after.sub = IF new.sub # seen.sub THEN new.sub ELSE now.sub
         /\ after.status = IF new.status # seen.status THEN new.status ELSE now.status
         /\ after.plan = IF new.plan # seen.plan THEN new.plan ELSE now.plan
<1> DEFINE after == Changed(now, seen, new)
<1>1. DOMAIN now = {"exists", "customer", "sub", "status", "plan"}
  BY DEF Rows
<1>2. after = [exists |-> after.exists, customer |-> after.customer, sub |-> after.sub,
               status |-> after.status, plan |-> after.plan]
  BY <1>1 DEF Changed
<1>3. /\ after.exists = IF new.exists # seen.exists THEN new.exists ELSE now.exists
      /\ after.customer = IF new.customer # seen.customer THEN new.customer ELSE now.customer
      /\ after.sub = IF new.sub # seen.sub THEN new.sub ELSE now.sub
      /\ after.status = IF new.status # seen.status THEN new.status ELSE now.status
      /\ after.plan = IF new.plan # seen.plan THEN new.plan ELSE now.plan
  BY <1>1 DEF Changed
<1> HIDE DEF after
<1>4. after \in Rows
  BY <1>2, <1>3 DEF Rows
<1> QED
  BY <1>3, <1>4 DEF after

\* The type of the events, which the type invariant states.
EventSet == [kind : Kinds, sub : Subs, customer : 1..MaxCustomers, status : Statuses, plan : Plans]

LEMMA EventType ==
  ASSUME TypeOK
  PROVE  Len(events) \in Nat /\ \A i \in 1..Len(events) : events[i] \in EventSet
<1>1. events \in Seq(EventSet)
  BY DEF TypeOK, EventSet
<1> QED
  BY <1>1

\* What a handler makes of the row it loaded, column by column.
LEMMA HandledColumns ==
  ASSUME NEW e \in EventSet, NEW seen \in Rows
  PROVE  LET new == Handled(e, seen) IN
         /\ new \in Rows
         /\ new.exists = seen.exists /\ new.customer = seen.customer
         /\ new.sub = IF e.kind = "created" THEN e.sub ELSE seen.sub
         /\ e.kind \in {"created", "updated"} => new.status = e.status /\ new.plan = e.plan
         /\ e.kind = "deleted" => new.status = "canceled" /\ new.plan = Starter
         /\ e.kind = "paid" =>
              new.status = (IF seen.status = "past_due" THEN "active" ELSE seen.status) /\ new.plan = seen.plan
         /\ e.kind = "failed" => new.status = "past_due" /\ new.plan = seen.plan
<1> USE DEF EventSet, Rows, AllPlans, Statuses, Kinds
<1>1. CASE e.kind = "created"
  BY <1>1 DEF Handled, Created
<1>2. CASE e.kind = "updated"
  BY <1>2 DEF Handled, Updated
<1>3. CASE e.kind = "deleted"
  BY <1>3 DEF Handled, Deleted
<1>4. CASE e.kind = "paid"
  BY <1>4 DEF Handled, InvoicePaid
<1>5. CASE e.kind = "failed"
  BY <1>5 DEF Handled, InvoiceFailed
<1> QED
  BY <1>1, <1>2, <1>3, <1>4, <1>5

-----------------------------------------------------------------------------
(* The initial state. *)

\* The type of what a coroutine is in the middle of.
ProcSet == [pc : {"idle", "usage", "usageInsert", "checkout", "checkoutInsert", "webhook"},
            event : 0..MaxEvents, seen : Rows, found : BOOLEAN]

\* No row, and nobody in the middle of anything, are of their types.
LEMMA IdleType == NoRow \in Rows /\ NewRow \in Rows /\ Idle \in ProcSet
<1>1. MaxCustomers \in Nat /\ MaxEvents \in Nat
  BY BillingAssumption
<1>2. NoRow \in Rows /\ NewRow \in Rows
  BY <1>1 DEF NoRow, NewRow, EmptyRow, Rows, Statuses, AllPlans
<1> QED
  BY <1>1, <1>2 DEF Idle, ProcSet

\* The user has no row and nothing was sent.
LEMMA InitIInv == Init => IInv
<1> SUFFICES ASSUME Init PROVE IInv
  OBVIOUS
<1>0. MaxCustomers \in Nat /\ MaxEvents \in Nat /\ MaxDeliveries \in Nat /\ MaxFailures \in Nat
  BY BillingAssumption
<1>1. TypeOK
  <2>1. row \in Rows /\ proc \in [Procs -> ProcSet]
    BY IdleType DEF Init
  <2>2. stripe \in [Subs -> [state : Statuses \cup {"none"}, customer : 0..MaxCustomers, plan : AllPlans]]
    BY <1>0 DEF Init, NoSub, AllPlans
  <2>3. events \in Seq(EventSet) /\ Len(events) = 0
    BY DEF Init
  <2>4. delivered \in [Events -> 0..MaxDeliveries]
    BY <1>0 DEF Init
  <2>5. inserting \in BOOLEAN /\ orderly \in BOOLEAN
    BY DEF Init
  <2>6. /\ log \subseteq Events /\ acked \subseteq 1..Len(events)
        /\ customers \in 0..MaxCustomers /\ failures \in 0..MaxFailures
    BY <1>0 DEF Init
  <2> QED
    BY <1>0, <2>1, <2>2, <2>3, <2>4, <2>5, <2>6 DEF TypeOK, ProcSet, EventSet
<1>2. RequestsSound
  BY DEF Init, RequestsSound, HoldsInsert, Procs, Idle, NoRow, EmptyRow
<1>3. SeenSound
  BY DEF Init, SeenSound, Idle, NoRow, EmptyRow
<1>4. RowSound
  BY DEF Init, RowSound, NoRow, EmptyRow, SubTold, StatusTold, PlanTold
<1>5. EventsSound
  BY DEF Init, EventsSound, StripeTold, NoSub
<1>6. InOrder
  <2>1. acked = 1..0 /\ 0 \in 0..Len(events)
    BY DEF Init
  <2>2. RowAfter(0) /\ \A p \in Procs : HandlesInOrder(p, 0)
    BY DEF Init, RowAfter, HandlesInOrder, Idle
  <2> QED
    BY <2>1, <2>2 DEF InOrder
<1> QED
  BY <1>1, <1>2, <1>3, <1>4, <1>5, <1>6 DEF IInv

-----------------------------------------------------------------------------
(* Checkouts and usage requests. *)

\* The user's requests.
Asks(c) == Answer(c) \/ \E goal \in {"checkout", "usage"} : Request(c, goal)

\* What a request does to the row and to the customers: nothing, or it makes
\* the row, or it gives the row its first or another customer.
LEMMA AskRow ==
  ASSUME IInv, NEW c \in Clients, Asks(c)
  PROVE  /\ UNCHANGED <<log, stripe, events, delivered, acked, failures, orderly>>
         /\ \A p \in Procs \ {c} : proc'[p] = proc[p]
         /\ proc'[c] \in ProcSet /\ proc'[c].event = 0 /\ proc'[c].pc # "webhook"
         /\ proc' \in [Procs -> ProcSet] /\ inserting' \in BOOLEAN
         /\ \/ row' = row /\ customers' = customers
            \/ ~row.exists /\ row' = NewRow /\ customers' = customers
            \/ /\ customers < MaxCustomers /\ customers' = customers + 1
               /\ row' = [(IF row.exists THEN row ELSE NewRow) EXCEPT !.customer = customers + 1]
<1>0. c \in Procs /\ proc \in [Procs -> ProcSet] /\ row \in Rows
  BY DEF IInv, TypeOK, ProcSet, Procs
<1>1. CASE \E goal \in {"checkout", "usage"} : Request(c, goal)
  <2>1. PICK goal \in {"checkout", "usage"} : Request(c, goal)
    BY <1>1
  <2>2. proc'[c] = [Idle EXCEPT !.pc = IF row.exists THEN goal ELSE InsertFor(goal), !.seen = row]
    BY <1>0, <2>1 DEF Request
  <2>3. proc'[c] \in ProcSet /\ proc'[c].event = 0 /\ proc'[c].pc # "webhook"
    BY <1>0, <2>2, IdleType DEF ProcSet, Idle, InsertFor
  <2>4. proc' \in [Procs -> ProcSet] /\ inserting' \in BOOLEAN
    BY <1>0, <2>1, <2>3 DEF Request, IInv, TypeOK
  <2> QED
    BY <1>0, <2>1, <2>3, <2>4 DEF Request, AtStripe, Delivery
<1>2. ASSUME NEW goal \in {"checkout", "usage"}, Insert(c, goal)
      PROVE  /\ UNCHANGED <<row, customers>>
             /\ UNCHANGED <<log, stripe, events, delivered, acked, failures, orderly>>
             /\ \A p \in Procs \ {c} : proc'[p] = proc[p]
             /\ proc'[c] \in ProcSet /\ proc'[c].event = 0 /\ proc'[c].pc # "webhook"
             /\ proc' \in [Procs -> ProcSet] /\ inserting' \in BOOLEAN
  <2>1. proc'[c] = Idle \/ proc'[c] = [proc[c] EXCEPT !.pc = goal]
    BY <1>0, <1>2 DEF Insert, Done
  <2>2. proc[c].event = 0 /\ proc[c] \in ProcSet
    BY <1>0 DEF IInv, RequestsSound
  <2>3. proc'[c] \in ProcSet /\ proc'[c].event = 0 /\ proc'[c].pc # "webhook"
    <3>1. CASE proc'[c] = Idle
      BY <3>1, IdleType DEF Idle
    <3>2. CASE proc'[c] = [proc[c] EXCEPT !.pc = goal]
      BY <2>2, <3>2 DEF ProcSet
    <3> QED
      BY <2>1, <3>1, <3>2
  <2>4. proc' \in [Procs -> ProcSet]
    BY <1>0, <1>2, <2>3 DEF Insert, Done
  <2>5. inserting' \in BOOLEAN
    BY <1>2 DEF Insert, IInv, TypeOK
  <2> QED
    BY <1>0, <1>2, <2>3, <2>4, <2>5 DEF Insert, Done, AtStripe, Delivery
<1>3. ASSUME UsageCommit(c) \/ CheckoutCommit(c) \/ CheckoutFails(c)
      PROVE  /\ UNCHANGED <<log, stripe, events, delivered, acked, failures, orderly>>
             /\ \A p \in Procs \ {c} : proc'[p] = proc[p]
             /\ proc'[c] \in ProcSet /\ proc'[c].event = 0 /\ proc'[c].pc # "webhook"
             /\ proc' \in [Procs -> ProcSet] /\ inserting' \in BOOLEAN
  <2>1. proc' = [proc EXCEPT ![c] = Idle]
    BY <1>3 DEF UsageCommit, CheckoutCommit, CheckoutFails, Done
  <2>2. proc'[c] = Idle
    BY <1>0, <2>1
  <2>3. proc' \in [Procs -> ProcSet]
    BY <1>0, <2>1, IdleType
  <2>4. inserting' \in BOOLEAN
    BY <1>3 DEF UsageCommit, CheckoutCommit, CheckoutFails, IInv, TypeOK
  <2> QED
    BY <1>0, <1>3, <2>1, <2>2, <2>3, <2>4, IdleType
    DEF UsageCommit, CheckoutCommit, CheckoutFails, Idle, AtStripe, Delivery
<1>4. (UsageCommit(c) \/ CheckoutCommit(c)) => (Inserts(c) <=> ~row.exists)
  <2> SUFFICES ASSUME UsageCommit(c) \/ CheckoutCommit(c) PROVE Inserts(c) <=> ~row.exists
    OBVIOUS
  <2>1. proc[c].pc \in {"usage", "checkout"}
    BY DEF UsageCommit, CheckoutCommit, At
  <2> QED
    BY <1>0, <2>1 DEF IInv, RequestsSound, HoldsInsert, SeenSound, Inserts
<1>5. CASE UsageCommit(c)
  <2>1. \/ row' = row /\ customers' = customers
        \/ ~row.exists /\ row' = NewRow /\ customers' = customers
    BY <1>4, <1>5 DEF UsageCommit
  <2> QED
    BY <1>3, <1>5, <2>1
<1>6. CASE CheckoutCommit(c)
  <2>1. \/ row' = row /\ customers' = customers
        \/ /\ customers < MaxCustomers /\ customers' = customers + 1
           /\ row' = [(IF row.exists THEN row ELSE NewRow) EXCEPT !.customer = customers + 1]
    BY <1>4, <1>6 DEF CheckoutCommit
  <2> QED
    BY <1>3, <1>6, <2>1
<1>7. CASE CheckoutFails(c)
  BY <1>3, <1>7 DEF CheckoutFails
<1> QED
  BY <1>1, <1>2, <1>5, <1>6, <1>7 DEF Asks, Answer

\* A request remembers the row it has read, or nothing.
LEMMA AskSeen ==
  ASSUME IInv, NEW c \in Clients, Asks(c)
  PROVE  proc'[c].seen \in {row, proc[c].seen, NoRow}
<1>0. c \in Procs /\ proc \in [Procs -> ProcSet]
  BY DEF IInv, TypeOK, ProcSet, Procs
<1>1. ASSUME NEW goal \in {"checkout", "usage"}, Request(c, goal)
      PROVE  proc'[c].seen = row
  <2>1. proc'[c] = [Idle EXCEPT !.pc = IF row.exists THEN goal ELSE InsertFor(goal), !.seen = row]
    BY <1>0, <1>1 DEF Request
  <2> QED
    BY <2>1 DEF Idle
<1>2. ASSUME NEW goal \in {"checkout", "usage"}, Insert(c, goal)
      PROVE  proc'[c].seen \in {proc[c].seen, NoRow}
  <2>1. proc'[c] = Idle \/ proc'[c] = [proc[c] EXCEPT !.pc = goal]
    BY <1>0, <1>2 DEF Insert, Done
  <2>2. proc[c] \in ProcSet
    BY <1>0
  <2> QED
    BY <2>1, <2>2 DEF Idle, ProcSet
<1>3. ASSUME UsageCommit(c) \/ CheckoutCommit(c) \/ CheckoutFails(c)
      PROVE  proc'[c].seen = NoRow
  BY <1>0, <1>3 DEF UsageCommit, CheckoutCommit, CheckoutFails, Done, Idle
<1> QED
  BY <1>1, <1>2, <1>3 DEF Asks, Answer

\* The row of a request is inserted once, and only when there is none.
LEMMA AskRequests ==
  ASSUME IInv, NEW c \in Clients, Asks(c)
  PROVE  RequestsSound'
<1>0. c \in Procs /\ proc \in [Procs -> ProcSet] /\ row \in Rows /\ RequestsSound
  BY DEF IInv, TypeOK, ProcSet, Procs
<1>1. /\ \A p \in Procs \ {c} : proc'[p] = proc[p]
      /\ proc'[c].event = 0 /\ proc'[c].pc # "webhook"
  BY AskRow
<1>2. /\ \A d \in Clients : proc'[d].event = 0 /\ proc'[d].pc # "webhook"
      /\ \A h \in Handlers : proc'[h].pc \in {"idle", "webhook"}
      /\ \A p \in Procs : proc'[p].pc # "webhook" => proc'[p].event = 0
  BY <1>0, <1>1, BillingAssumption DEF RequestsSound, Procs
<1>3. ASSUME NEW goal \in {"checkout", "usage"}, Request(c, goal)
      PROVE  RequestsSound'
  <2>1. proc'[c] = [Idle EXCEPT !.pc = IF row.exists THEN goal ELSE InsertFor(goal), !.seen = row]
    BY <1>0, <1>3 DEF Request
  <2>2. ~HoldsInsert(c)' /\ (proc'[c].pc \in {"usageInsert", "checkoutInsert"} => ~proc'[c].seen.exists)
    BY <2>1 DEF HoldsInsert, Idle, InsertFor
  <2>3. row' = row /\ inserting' = inserting
    BY <1>3 DEF Request
  <2> QED
    BY <1>0, <1>1, <1>2, <2>2, <2>3 DEF RequestsSound, HoldsInsert
<1>4. ASSUME NEW goal \in {"checkout", "usage"}, Insert(c, goal)
      PROVE  RequestsSound'
  <2>1. CASE row.exists
    <3>1. proc'[c] = Idle /\ inserting' = inserting /\ row' = row
      BY <1>0, <1>4, <2>1 DEF Insert, Done
    <3> QED
      BY <1>0, <1>1, <1>2, <3>1 DEF RequestsSound, HoldsInsert, Idle
  <2>2. CASE ~row.exists
    <3>1. proc'[c] = [proc[c] EXCEPT !.pc = goal] /\ inserting' = TRUE /\ row' = row /\ ~inserting
      BY <1>0, <1>4, <2>2 DEF Insert
    <3>2. \A p \in Procs : ~HoldsInsert(p)
      BY <1>0, <3>1 DEF RequestsSound
    <3>3. \A p \in Procs \ {c} : ~HoldsInsert(p)'
      BY <1>1, <3>2 DEF HoldsInsert
    <3>4. proc'[c].pc = goal
      BY <1>0, <3>1 DEF ProcSet
    <3> QED
      BY <1>0, <1>1, <1>2, <2>2, <3>1, <3>3, <3>4 DEF RequestsSound, HoldsInsert
  <2> QED
    BY <2>1, <2>2
<1>5. ASSUME UsageCommit(c) \/ CheckoutCommit(c) \/ CheckoutFails(c)
      PROVE  RequestsSound'
  <2>1. proc'[c] = Idle /\ (inserting' <=> inserting /\ ~Inserts(c))
    BY <1>0, <1>5 DEF UsageCommit, CheckoutCommit, CheckoutFails, Done
  <2>2. proc[c].pc \in {"usage", "checkout"}
    BY <1>5 DEF UsageCommit, CheckoutCommit, CheckoutFails, At
  <2>3. Inserts(c) <=> HoldsInsert(c)
    BY <2>2 DEF Inserts, HoldsInsert
  <2>4. \A p \in Procs \ {c} : HoldsInsert(p)' <=> HoldsInsert(p)
    BY <1>1 DEF HoldsInsert
  <2>5. ~HoldsInsert(c)' /\ proc'[c].pc = "idle"
    BY <2>1 DEF HoldsInsert, Idle
  <2>6. inserting' => ~row'.exists
    <3>1. CASE Inserts(c)
      BY <2>1, <3>1
    <3>2. CASE ~Inserts(c)
      <4>1. row.exists
        BY <1>0, <2>2, <3>2 DEF Inserts, IInv, SeenSound
      <4> QED
        BY <1>0, <2>1, <4>1 DEF RequestsSound
    <3> QED
      BY <3>1, <3>2
  <2>7. \A p \in Procs : HoldsInsert(p)' => inserting'
    BY <1>0, <2>1, <2>3, <2>4, <2>5 DEF RequestsSound
  <2> QED
    BY <1>0, <1>1, <1>2, <2>4, <2>5, <2>6, <2>7 DEF RequestsSound
<1> QED
  BY <1>3, <1>4, <1>5 DEF Asks, Answer

\* Once an event was sent, there is a customer, and the requests of a user with
\* one customer leave the row alone.
LEMMA AskLeavesRow ==
  ASSUME IInv, NEW c \in Clients, Asks(c), customers' <= 1, Len(events) > 0
  PROVE  row' = row
<1>1. 1 \in 1..Len(events) /\ events[1] \in EventSet
  <2>1. Len(events) \in Nat
    BY DEF IInv, TypeOK
  <2> QED
    BY <2>1, EventType DEF IInv
<1>2. customers # 0 /\ customers \in Nat
  BY <1>1, BillingAssumption DEF IInv, TypeOK, EventsSound, EventSays, EventSet
<1>3. row.exists
  BY <1>2 DEF IInv, RowSound
<1> QED
  BY <1>2, <1>3, AskRow

\* The requests of the user keep the invariant.
LEMMA AskIInv ==
  ASSUME IInv, NEW c \in Clients, Asks(c)
  PROVE  IInv'
<1> USE BillingAssumption
<1>0. /\ row \in Rows /\ proc \in [Procs -> ProcSet] /\ customers \in Nat /\ customers <= MaxCustomers
      /\ c \in Procs
  BY DEF IInv, TypeOK, ProcSet, Procs
<1>1. /\ UNCHANGED <<log, stripe, events, delivered, acked, failures, orderly>>
      /\ \A p \in Procs \ {c} : proc'[p] = proc[p]
      /\ proc'[c] \in ProcSet /\ proc'[c].event = 0 /\ proc'[c].pc # "webhook"
      /\ proc' \in [Procs -> ProcSet] /\ inserting' \in BOOLEAN
  BY AskRow
<1>2. \/ row' = row /\ customers' = customers
      \/ ~row.exists /\ row' = NewRow /\ customers' = customers
      \/ /\ customers < MaxCustomers /\ customers' = customers + 1
         /\ row' = [(IF row.exists THEN row ELSE NewRow) EXCEPT !.customer = customers + 1]
  BY AskRow
<1>3. /\ row' \in Rows /\ customers' \in 0..MaxCustomers /\ customers <= customers'
      /\ row.exists => /\ row'.exists /\ row'.sub = row.sub /\ row'.status = row.status /\ row'.plan = row.plan
                       /\ (row'.customer # 0 \/ row.customer = 0)
      /\ ~row.exists =>
           \/ row' = row
           \/ row'.sub = "none" /\ row'.status = "active" /\ row'.plan = Starter
      /\ (row'.customer <= customers' \/ row' = row)
      /\ customers' # customers => row'.exists /\ row'.customer # 0
  <2>1. CASE row' = row /\ customers' = customers
    BY <1>0, <2>1
  <2>2. CASE ~row.exists /\ row' = NewRow /\ customers' = customers
    BY <1>0, <2>2, IdleType DEF NewRow, EmptyRow
  <2>3. CASE /\ customers < MaxCustomers /\ customers' = customers + 1
             /\ row' = [(IF row.exists THEN row ELSE NewRow) EXCEPT !.customer = customers + 1]
    <3>1. customers' \in 0..MaxCustomers /\ customers' # 0 /\ customers <= customers'
      BY <1>0, <2>3
    <3> DEFINE base == IF row.exists THEN row ELSE NewRow
    <3>2. base \in Rows /\ base.exists
      BY <1>0, IdleType DEF NewRow, EmptyRow
    <3>4. row' = [base EXCEPT !.customer = customers + 1]
      BY <2>3
    <3> HIDE DEF base
    <3>5. /\ row' \in Rows /\ row'.exists = base.exists /\ row'.sub = base.sub
          /\ row'.status = base.status /\ row'.plan = base.plan /\ row'.customer = customers'
      BY <2>3, <3>1, <3>2, <3>4 DEF Rows
    <3>6. CASE row.exists
      BY <2>3, <3>1, <3>2, <3>5, <3>6 DEF base
    <3>7. CASE ~row.exists
      <4>1. base.sub = "none" /\ base.status = "active" /\ base.plan = Starter
        BY <3>7 DEF base, NewRow, EmptyRow
      <4>2. row'.exists /\ row'.sub = "none" /\ row'.status = "active" /\ row'.plan = Starter
        BY <3>2, <3>5, <4>1
      <4> QED
        BY <1>0, <2>3, <3>1, <3>5, <3>7, <4>2
    <3> QED
      BY <3>6, <3>7
  <2> QED
    BY <1>2, <2>1, <2>2, <2>3
<1>4. TypeOK'
  BY <1>1, <1>3 DEF IInv, TypeOK, ProcSet
<1>5. RequestsSound'
  BY AskRequests
<1>6. RowSound'
  <2>1. row.customer \in Nat /\ row'.customer \in Nat /\ customers' \in Nat
    BY <1>0, <1>3 DEF Rows
  <2>2. RowSound
    BY DEF IInv
  <2>3. row'.customer <= customers'
    BY <1>0, <1>3, <2>1, <2>2 DEF RowSound
  <2>4. CASE row.exists
    BY <1>0, <1>1, <1>3, <2>1, <2>2, <2>3, <2>4 DEF RowSound, SubTold, StatusTold, PlanTold
  <2>5. CASE ~row.exists
    <3>1. log = {} /\ customers = 0
      BY <2>2, <2>5 DEF RowSound
    <3>2. row'.sub = "none" /\ row'.status = "active" /\ row'.plan = Starter
      BY <1>3, <2>2, <2>5 DEF RowSound
    <3> QED
      BY <1>0, <1>1, <1>3, <2>1, <2>2, <2>3, <2>5, <3>1, <3>2 DEF RowSound, SubTold, StatusTold, PlanTold
  <2> QED
    BY <2>4, <2>5
<1>7. row.exists \/ \A p \in Procs : /\ ~proc[p].seen.exists /\ proc[p].seen.sub = "none"
                                    /\ proc[p].seen.customer = 0
  <2>1. row.customer \in Nat
    BY <1>0 DEF Rows
  <2> QED
    BY <1>0, <2>1 DEF IInv, SeenSound, RowSound
<1>8. SeenSound'
  <2>1. Len(events') = Len(events) /\ events' = events
    BY <1>1
  <2>2. ASSUME NEW p \in Procs \ {c}
        PROVE  /\ proc'[p].seen.exists => row'.exists
               /\ proc'[p].seen.sub # "none" => row'.sub # "none"
               /\ proc'[p].seen.customer # 0 => row'.customer # 0
               /\ proc'[p].pc = "webhook" =>
                    /\ proc'[p].event \in 1..Len(events')
                    /\ proc'[p].found => Matches(events'[proc'[p].event], proc'[p].seen)
    BY <1>1, <1>3, <1>7, <2>1 DEF IInv, SeenSound
  <2>3. /\ proc'[c].seen.exists => row'.exists
        /\ proc'[c].seen.sub # "none" => row'.sub # "none"
        /\ proc'[c].seen.customer # 0 => row'.customer # 0
    <3>1. /\ proc[c].seen.exists => row.exists
          /\ proc[c].seen.sub # "none" => row.sub # "none"
          /\ proc[c].seen.customer # 0 => row.customer # 0
      BY <1>0 DEF IInv, SeenSound
    <3>2. row.exists \/ (row.sub = "none" /\ row.customer = 0)
      <4>1. row.customer \in Nat
        BY <1>0 DEF Rows
      <4> QED
        BY <1>0, <4>1 DEF IInv, RowSound
    <3>3. ~NoRow.exists /\ NoRow.sub = "none" /\ NoRow.customer = 0
      BY DEF NoRow, EmptyRow
    <3> QED
      BY <1>3, <3>1, <3>2, <3>3, AskSeen
  <2> QED
    BY <1>1, <2>2, <2>3 DEF SeenSound, Matches
<1>9. EventsSound'
  <2>1. \A i \in 1..Len(events) : events[i].customer \in Nat
    BY EventType, <1>0 DEF IInv, EventSet
  <2>2. \A s \in Subs : stripe[s].customer \in Nat
    BY <1>0 DEF IInv, TypeOK
  <2> QED
    BY <1>0, <1>1, <1>3, <2>1, <2>2 DEF IInv, EventsSound, EventSays, EventFollows, StripeTold, LastOf
<1>10. InOrder'
  <2> SUFFICES ASSUME orderly, customers' <= 1
               PROVE  InOrder'
    BY <1>1 DEF InOrder
  <2>1. customers <= 1
    BY <1>0, <1>3
  <2>2. PICK k \in 0..Len(events) :
          /\ acked = 1..k
          /\ RowAfter(k)
          /\ \A e \in 1..k : e \notin log => events[e].kind # "created" /\ events[e].sub # row.sub
          /\ \A p \in Procs : HandlesInOrder(p, k)
    BY <2>1 DEF IInv, InOrder
  <2>3. Len(events) \in Nat
    BY EventType DEF IInv
  <2>4. CASE Len(events) = 0
    <3>1. k = 0
      BY <2>4
    <3>2. RowAfter(k)'
      BY <3>1 DEF RowAfter
    <3>3. \A p \in Procs : proc'[p].pc # "webhook"
      BY <1>1, <2>4 DEF IInv, SeenSound
    <3> QED
      BY <1>1, <2>2, <3>1, <3>2, <3>3 DEF InOrder, HandlesInOrder
  <2>5. CASE Len(events) > 0
    <3>1. row' = row
      BY <2>5, AskLeavesRow
    <3>2. RowAfter(k)'
      BY <1>1, <2>2, <3>1 DEF RowAfter, ShowsEvent
    <3>3. \A p \in Procs : HandlesInOrder(p, k)'
      BY <1>1, <2>2, <3>1 DEF HandlesInOrder, Matches
    <3> QED
      BY <1>1, <2>2, <3>1, <3>2, <3>3 DEF InOrder
  <2> QED
    BY <2>3, <2>4, <2>5
<1> QED
  BY <1>4, <1>5, <1>6, <1>8, <1>9, <1>10 DEF IInv

-----------------------------------------------------------------------------
(* Stripe. *)

SubSet == [state : Statuses \cup {"none"}, customer : 0..MaxCustomers, plan : AllPlans]

\* What a change of subscription s at Stripe sends, and what it tells.
Sends(s, ev) ==
  /\ Len(events) < MaxEvents /\ events' = Append(events, ev)
  /\ ev \in EventSet /\ ev.sub = s
  /\ stripe' \in [Subs -> SubSet] /\ \A t \in Subs \ {s} : stripe'[t] = stripe[t]
  /\ stripe'[s].state = ev.status /\ stripe'[s].plan = ev.plan /\ stripe'[s].customer = ev.customer
  /\ ev.customer <= customers
  /\ \/ ev.kind = "created" /\ stripe[s].state = "none" /\ ev.status = "active"
     \/ ev.kind = "updated" /\ stripe[s].state \in {"active", "past_due"} /\ ev.status # "canceled"
     \/ ev.kind = "deleted" /\ stripe[s].state \in {"active", "past_due"} /\ ev.status = "canceled"
     \/ /\ ev.kind = "paid" /\ stripe[s].state \in {"active", "past_due"}
        /\ ev.status = "active" /\ ev.plan = stripe[s].plan
     \/ /\ ev.kind = "failed" /\ stripe[s].state \in {"active", "past_due"}
        /\ ev.status = "past_due" /\ ev.plan = stripe[s].plan

\* Every step of Stripe is such a change.
LEMMA StripeSends ==
  ASSUME IInv, Stripe
  PROVE  /\ \E s \in Subs : \E ev : Sends(s, ev)
         /\ UNCHANGED <<row, inserting, log, proc, delivered, acked, customers, failures, orderly>>
<1> USE DEF EventSet, SubSet, Kinds, Statuses, AllPlans
<1>0. stripe \in [Subs -> SubSet] /\ customers \in Nat /\ customers <= MaxCustomers /\ MaxCustomers \in Nat
  BY BillingAssumption DEF IInv, TypeOK
<1>1. PICK s \in Subs :
        \/ \E c \in 1..MaxCustomers, plan \in Plans : Subscribe(s, c, plan)
        \/ \E plan \in Plans : SwitchPlan(s, plan)
        \/ PaymentFails(s) \/ PaymentSucceeds(s) \/ Renew(s) \/ EndSubscription(s)
  BY DEF Stripe
<1>2. stripe[s].state # "none" =>
        /\ stripe[s].customer \in 1..customers /\ stripe[s].plan \in Plans
        /\ stripe[s].customer \in 1..MaxCustomers
  BY <1>0 DEF IInv, EventsSound, StripeTold
<1>3. UNCHANGED <<row, inserting, log, proc, delivered, acked, customers, failures, orderly>>
  BY <1>1 DEF Subscribe, SwitchPlan, PaymentFails, PaymentSucceeds, Renew, EndSubscription, StripeStep, Delivery
<1>4. ASSUME NEW c \in 1..MaxCustomers, NEW plan \in Plans, Subscribe(s, c, plan)
      PROVE  Sends(s, Event("created", s, c, "active", plan))
  BY <1>0, <1>4 DEF Subscribe, Send, Sends, Event
<1>5. ASSUME NEW plan \in Plans, SwitchPlan(s, plan)
      PROVE  Sends(s, Carry("updated", s, stripe[s].state, plan))
  BY <1>0, <1>2, <1>5 DEF SwitchPlan, Send, Sends, Carry, Event
<1>6. CASE PaymentFails(s)
  <2>1. Sends(s, Carry("failed", s, "past_due", stripe[s].plan))
    BY <1>0, <1>2, <1>6 DEF PaymentFails, Send, Sends, Carry, Event
  <2> QED
    BY <1>3, <2>1
<1>7. CASE PaymentSucceeds(s)
  <2>1. Sends(s, Carry("paid", s, "active", stripe[s].plan))
    BY <1>0, <1>2, <1>7 DEF PaymentSucceeds, Send, Sends, Carry, Event
  <2> QED
    BY <1>3, <2>1
<1>8. CASE Renew(s)
  <2>1. Sends(s, Carry("updated", s, stripe[s].state, stripe[s].plan))
    BY <1>0, <1>2, <1>8 DEF Renew, Send, Sends, Carry, Event
  <2> QED
    BY <1>3, <2>1
<1>9. CASE EndSubscription(s)
  <2>1. Sends(s, Carry("deleted", s, "canceled", stripe[s].plan))
    BY <1>0, <1>2, <1>9 DEF EndSubscription, Send, Sends, Carry, Event
  <2> QED
    BY <1>3, <2>1
<1> QED
  BY <1>1, <1>3, <1>4, <1>5, <1>6, <1>7, <1>8, <1>9

\* An event more at the end of what was sent.
LEMMA OneMoreEvent ==
  ASSUME TypeOK, NEW ev \in EventSet, events' = Append(events, ev)
  PROVE  /\ events' \in Seq(EventSet) /\ Len(events') = Len(events) + 1
         /\ events'[Len(events) + 1] = ev
         /\ \A i \in 1..Len(events) : events'[i] = events[i]
<1>1. events \in Seq(EventSet)
  BY DEF TypeOK, EventSet
<1> QED
  BY <1>1

\* Stripe sends what the subscription has become.
LEMMA StripeEventsSound ==
  ASSUME IInv, NEW s \in Subs, NEW ev, Sends(s, ev), customers' = customers
  PROVE  EventsSound'
<1> DEFINE n == Len(events)
<1>1. /\ n \in Nat /\ Len(events') = n + 1 /\ events'[n + 1] = ev
      /\ \A i \in 1..n : events'[i] = events[i]
  BY OneMoreEvent, EventType DEF IInv, Sends
<1>2. \A i \in 1..n + 1 : i \in 1..n \/ i = n + 1
  BY <1>1
<1>3. EventsSound /\ ev.sub = s
  BY DEF IInv, Sends
<1>4. \A i \in 1..n : events[i].sub = s => stripe[s].state # "none"
  BY <1>3 DEF EventsSound, EventSays
<1>5. stripe'[s].state # "none" /\ \A t \in Subs : stripe[t].state # "none" => stripe'[t].state # "none"
  BY DEF Sends, EventSet, Statuses
<1>6. /\ \A i \in 1..n : events[i] \in EventSet
      /\ customers \in Nat
  BY EventType DEF IInv, TypeOK
<1> HIDE DEF n
<1>7. ASSUME NEW i \in 1..n + 1
      PROVE  EventSays(i)'
  <2>1. CASE i \in 1..n
    <3>1. EventSays(i) /\ events'[i] = events[i] /\ events[i].sub \in Subs
      BY <1>1, <1>3, <1>6, <2>1 DEF EventsSound, EventSet, n
    <3> QED
      BY <1>5, <3>1 DEF EventSays
  <2>2. CASE i = n + 1
    BY <1>1, <1>3, <1>5, <2>2 DEF EventSays, Sends
  <2> QED
    BY <1>2, <2>1, <2>2
<1>8. ASSUME NEW i \in 1..n + 1, NEW j \in 1..n + 1, i < j, events'[i].sub = events'[j].sub
      PROVE  EventFollows(i, j)'
  <2>1. i \in 1..n /\ events'[i] = events[i]
    BY <1>1, <1>8
  <2>2. CASE j \in 1..n
    <3>1. EventFollows(i, j) /\ events'[j] = events[j]
      BY <1>1, <1>3, <1>8, <2>1, <2>2 DEF EventsSound, n
    <3>2. \A k \in i + 1..j - 1 : events'[k] = events[k]
      BY <1>1, <2>1, <2>2
    <3> QED
      BY <2>1, <3>1, <3>2 DEF EventFollows
  <2>3. CASE j = n + 1
    <3>1. events'[j] = ev /\ events[i].sub = s
      BY <1>1, <1>3, <1>8, <2>1, <2>3
    <3>2. stripe[s].state # "none"
      BY <1>4, <2>1, <3>1
    <3>3. PICK l \in 1..n : LastOf(s, l) /\ events[l].status = stripe[s].state /\ events[l].plan = stripe[s].plan
      BY <1>3, <3>2 DEF EventsSound, StripeTold, n
    <3>4. i <= l
      BY <1>1, <2>1, <3>1, <3>3 DEF LastOf, n
    <3>5. ev.kind # "created" /\ stripe[s].state # "canceled"
      BY <3>2 DEF Sends
    <3>6. events[i].kind # "deleted"
      <4>1. CASE i = l
        BY <1>3, <3>3, <3>5, <4>1 DEF EventsSound, EventSays, n
      <4>2. CASE i < l
        BY <1>3, <2>1, <3>1, <3>3, <4>2 DEF EventsSound, EventFollows, LastOf, n
      <4> QED
        BY <1>1, <2>1, <3>4, <4>1, <4>2
    <3>7. ASSUME ev.kind \in {"paid", "failed"}, \A k \in i + 1..j - 1 : events'[k].sub # ev.sub
          PROVE  events[i].plan = ev.plan
      <4>1. ~(i < l)
        <5> SUFFICES ASSUME i < l PROVE FALSE
          OBVIOUS
        <5>1. l \in i + 1..j - 1 /\ events'[l] = events[l]
          BY <1>1, <2>1, <2>3
        <5> QED
          BY <1>3, <3>3, <3>7, <5>1 DEF LastOf
      <4>2. i = l
        BY <1>1, <2>1, <3>4, <4>1
      <4>3. ev.plan = stripe[s].plan
        BY <3>7 DEF Sends
      <4> QED
        BY <3>3, <4>2, <4>3
    <3> QED
      BY <2>1, <3>1, <3>5, <3>6, <3>7 DEF EventFollows
  <2> QED
    BY <1>2, <2>2, <2>3
<1>9. ASSUME NEW t \in Subs
      PROVE  StripeTold(t)'
  <2>1. CASE t = s
    <3>1. ev.customer \in 1..customers /\ ev.plan \in Plans
      BY <1>6 DEF Sends, EventSet
    <3>2. PICK i \in 1..Len(events') : i = n + 1
      BY <1>1
    <3>3. \A j \in i + 1..Len(events') : FALSE
      BY <1>1, <3>2
    <3>4. LastOf(s, i)'
      BY <1>1, <1>3, <3>2, <3>3 DEF LastOf
    <3>5. events'[i].status = stripe'[s].state /\ events'[i].plan = stripe'[s].plan
      BY <1>1, <3>2 DEF Sends
    <3>6. stripe'[s].customer \in 1..customers' /\ stripe'[s].plan \in Plans
      BY <3>1 DEF Sends
    <3> QED
      BY <2>1, <3>4, <3>5, <3>6 DEF StripeTold
  <2>2. CASE t # s
    <3>1. stripe'[t] = stripe[t] /\ StripeTold(t)
      BY <1>3, <2>2 DEF Sends, EventsSound
    <3>2. ASSUME NEW i \in 1..n, LastOf(t, i)
          PROVE  LastOf(t, i)' /\ i \in 1..Len(events') /\ events'[i] = events[i]
      BY <1>1, <1>2, <1>3, <2>2, <3>2 DEF LastOf, n
    <3> QED
      BY <3>1, <3>2 DEF StripeTold, n
  <2> QED
    BY <2>1, <2>2
<1>10. events'[1].kind = "created"
  <2>1. CASE n = 0
    <3>1. stripe[s].state = "none"
      BY <1>3, <2>1 DEF EventsSound, StripeTold, n
    <3> QED
      BY <1>1, <2>1, <3>1 DEF Sends
  <2>2. CASE n > 0
    BY <1>1, <1>3, <2>2 DEF EventsSound, n
  <2> QED
    BY <1>1, <2>1, <2>2
<1> QED
  BY <1>1, <1>7, <1>8, <1>9, <1>10 DEF EventsSound

\* Whatever Stripe does keeps the invariant.
LEMMA StripeIInv ==
  ASSUME IInv, Stripe
  PROVE  IInv'
<1>1. PICK s \in Subs : \E ev : Sends(s, ev)
  BY StripeSends
<1>2. PICK ev : Sends(s, ev)
  BY <1>1
<1>3. UNCHANGED <<row, inserting, log, proc, delivered, acked, customers, failures, orderly>>
  BY StripeSends
<1>4. /\ Len(events) \in Nat /\ events' \in Seq(EventSet) /\ Len(events') = Len(events) + 1
      /\ events'[Len(events) + 1] = ev
      /\ \A i \in 1..Len(events) : events'[i] = events[i]
  BY <1>2, OneMoreEvent, EventType DEF IInv, Sends
<1>5. TypeOK'
  <2>1. Len(events') <= MaxEvents
    BY <1>2, <1>4, BillingAssumption DEF Sends
  <2>2. acked \subseteq 1..Len(events')
    BY <1>4 DEF IInv, TypeOK
  <2>3. stripe' \in [Subs -> SubSet]
    BY <1>2 DEF Sends
  <2> QED
    BY <1>3, <1>4, <2>1, <2>2, <2>3 DEF IInv, TypeOK, SubSet, EventSet
<1>6. RequestsSound'
  BY <1>3 DEF IInv, RequestsSound, HoldsInsert
<1>7. SeenSound'
  <2>1. ASSUME NEW p \in Procs, proc[p].pc = "webhook"
        PROVE  /\ proc[p].event \in 1..Len(events')
               /\ proc[p].found => Matches(events'[proc[p].event], proc[p].seen)
    BY <1>4, <2>1 DEF IInv, SeenSound
  <2> QED
    BY <1>3, <2>1 DEF IInv, SeenSound, Matches
<1>8. RowSound'
  <2>1. row.sub # "none" => stripe'[row.sub].state # "none"
    <3>1. row.sub \in Subs \cup {"none"}
      BY DEF IInv, TypeOK, Rows
    <3> QED
      BY <1>2, <3>1 DEF IInv, RowSound, Sends, EventSet, Statuses
  <2>2. \A e \in acked : events'[e] = events[e]
    BY <1>4 DEF IInv, TypeOK
  <2>3. (SubTold /\ StatusTold /\ PlanTold)'
    BY <1>3, <2>2 DEF IInv, RowSound, SubTold, StatusTold, PlanTold
  <2> QED
    BY <1>3, <2>1, <2>3 DEF IInv, RowSound
<1>9. EventsSound'
  BY <1>2, <1>3, StripeEventsSound
<1>10. InOrder'
  <2> SUFFICES ASSUME orderly, customers <= 1
               PROVE  InOrder'
    BY <1>3 DEF InOrder
  <2>1. PICK k \in 0..Len(events) :
          /\ acked = 1..k
          /\ RowAfter(k)
          /\ \A e \in 1..k : e \notin log => events[e].kind # "created" /\ events[e].sub # row.sub
          /\ \A p \in Procs : HandlesInOrder(p, k)
    BY DEF IInv, InOrder
  <2>2. k \in 0..Len(events') /\ \A i \in 1..k : i \in 1..Len(events)
    BY <1>4
  <2>3. RowAfter(k)'
    <3>1. CASE k = 0
      BY <3>1 DEF RowAfter
    <3>2. CASE k # 0
      <4>1. PICK j \in 1..k, i \in 1..k :
              /\ events[j].kind = "created" /\ events[i].sub = events[j].sub
              /\ \A l \in j + 1..k : events[l].kind # "created"
              /\ \A l \in i + 1..k : events[l].sub # events[i].sub
              /\ ShowsEvent(i)
        BY <2>1, <3>2 DEF RowAfter
      <4>2. /\ events'[j] = events[j] /\ events'[i] = events[i]
            /\ \A l \in j + 1..k : events'[l] = events[l]
            /\ \A l \in i + 1..k : events'[l] = events[l]
        BY <1>4
      <4>3. ShowsEvent(i)'
        BY <1>3, <4>1, <4>2 DEF ShowsEvent
      <4> QED
        BY <4>1, <4>2, <4>3 DEF RowAfter
    <3> QED
      BY <3>1, <3>2
  <2>4. \A e \in 1..k : e \notin log => events'[e].kind # "created" /\ events'[e].sub # row.sub
    BY <1>4, <2>1, <2>2
  <2>5. \A p \in Procs : HandlesInOrder(p, k)'
    <3> SUFFICES ASSUME NEW p \in Procs, proc[p].pc = "webhook"
                 PROVE  HandlesInOrder(p, k)'
      BY <1>3 DEF HandlesInOrder
    <3>1. events'[proc[p].event] = events[proc[p].event]
      BY <1>4 DEF IInv, SeenSound
    <3> QED
      BY <1>3, <2>1, <3>1 DEF HandlesInOrder, Matches
  <2> QED
    BY <1>3, <2>1, <2>2, <2>3, <2>4, <2>5 DEF InOrder
<1> QED
  BY <1>5, <1>6, <1>7, <1>8, <1>9, <1>10 DEF IInv

-----------------------------------------------------------------------------
(* Webhooks. *)

\* A webhook leaves the requests as they are.
LEMMA WebhookRequests ==
  ASSUME RequestsSound, NEW h \in Handlers,
         \A p \in Procs \ {h} : proc'[p] = proc[p],
         proc'[h].pc \in {"idle", "webhook"}, proc'[h].pc = "idle" => proc'[h].event = 0,
         inserting' = inserting, row'.exists = row.exists
  PROVE  RequestsSound'
<1>1. h \in Procs /\ Clients \subseteq Procs \ {h} /\ Handlers \subseteq Procs
  BY BillingAssumption DEF Procs
<1>2. \A c \in Clients : proc'[c].event = 0 /\ proc'[c].pc # "webhook"
  BY <1>1 DEF RequestsSound
<1>3. \A i \in Handlers : proc'[i].pc \in {"idle", "webhook"}
  BY <1>1 DEF RequestsSound
<1>4. \A p \in Procs : HoldsInsert(p)' => HoldsInsert(p) /\ p # h
  BY DEF HoldsInsert
<1>5. ASSUME NEW p \in Procs
      PROVE  /\ proc'[p].pc # "webhook" => proc'[p].event = 0
             /\ HoldsInsert(p)' => inserting'
             /\ proc'[p].pc \in {"usageInsert", "checkoutInsert"} => ~proc'[p].seen.exists
  BY <1>4 DEF RequestsSound
<1>6. \A p, q \in Procs : HoldsInsert(p)' /\ HoldsInsert(q)' => p = q
  BY <1>4 DEF RequestsSound
<1>7. inserting' => ~row'.exists
  BY DEF RequestsSound
<1> QED
  BY <1>2, <1>3, <1>5, <1>6, <1>7 DEF RequestsSound, HoldsInsert

\* A webhook that comes reads the row as it is.
LEMMA DeliverIInv ==
  ASSUME IInv, NEW h \in Handlers, NEW e \in Events, Deliver(h, e)
  PROVE  IInv'
<1>0. /\ h \in Procs /\ h \notin Clients /\ row \in Rows /\ proc \in [Procs -> ProcSet]
      /\ e \in 1..Len(events) /\ e \in 0..MaxEvents /\ Len(events) \in Nat
  BY BillingAssumption, EventType DEF IInv, TypeOK, ProcSet, Procs, Deliver, Events
<1>1. /\ proc'[h] = [pc |-> "webhook", event |-> e, seen |-> row, found |-> Matches(events[e], row)]
      /\ \A p \in Procs \ {h} : proc'[p] = proc[p]
  BY <1>0 DEF Deliver
<1>2. UNCHANGED <<row, inserting, log, stripe, events, acked, customers, failures>>
  BY DEF Deliver, AtStripe
<1>3. Matches(events[e], row) \in BOOLEAN
  BY DEF Matches
<1>4. TypeOK'
  <2>1. proc'[h] \in ProcSet
    BY <1>0, <1>1, <1>3 DEF ProcSet
  <2>2. proc' \in [Procs -> ProcSet]
    BY <1>0, <1>1, <2>1 DEF Deliver
  <2>3. delivered' \in [Events -> 0..MaxDeliveries]
    <3>1. delivered \in [Events -> 0..MaxDeliveries] /\ delivered[e] + 1 \in 0..MaxDeliveries
      BY BillingAssumption DEF Deliver, IInv, TypeOK
    <3> QED
      BY <3>1 DEF Deliver
  <2>4. orderly' \in BOOLEAN
    BY DEF Deliver, InTurn, IInv, TypeOK
  <2> QED
    BY <1>2, <2>2, <2>3, <2>4 DEF IInv, TypeOK, ProcSet
<1>5. RequestsSound'
  BY <1>1, <1>2, WebhookRequests DEF IInv
<1>6. SeenSound'
  <2>1. Matches(events[e], row)' <=> Matches(events[e], row)
    BY <1>2 DEF Matches
  <2> QED
    BY <1>0, <1>1, <1>2, <2>1 DEF IInv, SeenSound, Matches
<1>7. RowSound' /\ EventsSound'
  <2>1. RowSound'
    BY <1>2 DEF IInv, RowSound, SubTold, StatusTold, PlanTold
  <2> QED
    BY <1>2, <2>1 DEF IInv, EventsSound, EventSays, EventFollows, StripeTold, LastOf
<1>8. InOrder'
  <2> SUFFICES ASSUME orderly, InTurn(e), customers <= 1
               PROVE  InOrder'
    BY <1>2 DEF InOrder, Deliver
  <2>1. PICK k \in 0..Len(events) :
          /\ acked = 1..k
          /\ RowAfter(k)
          /\ \A i \in 1..k : i \notin log => events[i].kind # "created" /\ events[i].sub # row.sub
          /\ \A p \in Procs : HandlesInOrder(p, k)
    BY DEF IInv, InOrder
  <2>2. e <= k + 1
    <3>1. CASE e \in acked
      BY <1>0, <2>1, <3>1
    <3>2. CASE 1..(e - 1) \subseteq acked
      <4>1. CASE e = 1
        BY <1>0, <4>1
      <4>2. CASE e # 1
        <5>1. e - 1 \in 1..(e - 1)
          BY <1>0, <4>2
        <5> QED
          BY <1>0, <2>1, <3>2, <5>1
      <4> QED
        BY <4>1, <4>2
    <3> QED
      BY <3>1, <3>2 DEF InTurn
  <2>3. HandlesInOrder(h, k)'
    <3>1. e <= k /\ e \notin log => ~Matches(events[e], row)
      BY <1>0, <2>1 DEF Matches
    <3>2. Matches(events[e], row)' <=> Matches(events[e], row)
      BY <1>2 DEF Matches
    <3> QED
      BY <1>1, <1>2, <2>2, <3>1, <3>2 DEF HandlesInOrder, Matches
  <2>4. \A p \in Procs : HandlesInOrder(p, k)'
    BY <1>1, <1>2, <2>1, <2>3 DEF HandlesInOrder, Matches
  <2>5. RowAfter(k)'
    BY <1>2, <2>1 DEF RowAfter, ShowsEvent
  <2> QED
    BY <1>2, <2>1, <2>4, <2>5 DEF InOrder
<1> QED
  BY <1>4, <1>5, <1>6, <1>7, <1>8 DEF IInv

\* A webhook that is answered and leaves row and log alone keeps the parts of
\* the invariant that hold in any order.
LEMMA AnswerLeavesRow ==
  ASSUME IInv, NEW h \in Handlers, proc[h].pc = "webhook",
         Acknowledge(h), failures' \in 0..MaxFailures, orderly' \in BOOLEAN,
         UNCHANGED <<row, inserting, log, stripe, events, delivered, customers>>
  PROVE  TypeOK' /\ RequestsSound' /\ SeenSound' /\ RowSound' /\ EventsSound'
<1>0. h \in Procs /\ proc \in [Procs -> ProcSet] /\ proc[h].event \in 1..Len(events)
  BY DEF IInv, TypeOK, SeenSound, ProcSet, Procs
<1>1. proc'[h] = Idle /\ \A p \in Procs \ {h} : proc'[p] = proc[p]
  BY <1>0 DEF Acknowledge, Done
<1>2. Idle.pc = "idle" /\ Idle.event = 0 /\ ~Idle.seen.exists /\ Idle.seen.sub = "none" /\ Idle.seen.customer = 0
  BY DEF Idle, NoRow, EmptyRow
<1>3. TypeOK'
  <2>1. proc' \in [Procs -> ProcSet]
    BY <1>0, IdleType DEF Acknowledge, Done
  <2>2. acked' \subseteq 1..Len(events')
    BY <1>0 DEF Acknowledge, IInv, TypeOK
  <2> QED
    BY <2>1, <2>2 DEF IInv, TypeOK, ProcSet
<1>4. RequestsSound'
  BY <1>1, <1>2, WebhookRequests DEF IInv
<1>5. SeenSound'
  BY <1>1, <1>2 DEF IInv, SeenSound, Matches
<1>6. RowSound' /\ EventsSound'
  <2>1. RowSound'
    BY DEF IInv, RowSound, SubTold, StatusTold, PlanTold, Acknowledge
  <2> QED
    BY <2>1 DEF IInv, EventsSound, EventSays, EventFollows, StripeTold, LastOf
<1> QED
  BY <1>3, <1>4, <1>5, <1>6

\* With one customer, every creation finds the row.
LEMMA CreationMatches ==
  ASSUME IInv, customers <= 1, NEW e \in 1..Len(events)
  PROVE  row.exists /\ (events[e].kind = "created" => Matches(events[e], row))
<1>1. events[e] \in EventSet /\ events[e].customer <= customers
  BY EventType DEF IInv, EventsSound, EventSays
<1>2. customers \in Nat /\ row.customer \in Nat /\ events[e].customer \in Nat /\ events[e].customer >= 1
  BY <1>1, BillingAssumption DEF IInv, TypeOK, Rows, EventSet
<1>3. row.exists /\ row.customer # 0 /\ row.customer <= customers
  BY <1>1, <1>2 DEF IInv, RowSound
<1>4. row.customer = events[e].customer
  BY <1>1, <1>2, <1>3
<1> QED
  BY <1>3, <1>4 DEF Matches

\* An event that finds no row is answered, and only that.
LEMMA DropIInv ==
  ASSUME IInv, NEW h \in Handlers, DropEvent(h)
  PROVE  IInv'
<1> DEFINE e == proc[h].event
<1>0. /\ proc[h].pc = "webhook" /\ ~proc[h].found /\ Acknowledge(h)
      /\ UNCHANGED <<row, inserting, log, stripe, events, delivered, customers, failures, orderly>>
  BY DEF DropEvent, Webhook, At, AtStripe
<1>1. TypeOK' /\ RequestsSound' /\ SeenSound' /\ RowSound' /\ EventsSound'
  BY <1>0, AnswerLeavesRow DEF IInv, TypeOK
<1>2. h \in Procs /\ e \in 1..Len(events) /\ Len(events) \in Nat
  BY <1>0, EventType DEF IInv, SeenSound, Procs
<1>3. acked' = acked \cup {e} /\ proc'[h] = Idle /\ \A p \in Procs \ {h} : proc'[p] = proc[p]
  BY <1>0, <1>2 DEF Acknowledge, Done, IInv, TypeOK
<1>4. Idle.pc # "webhook"
  BY DEF Idle
<1>5. InOrder'
  <2> SUFFICES ASSUME orderly, customers <= 1
               PROVE  InOrder'
    BY <1>0 DEF InOrder
  <2>1. PICK k \in 0..Len(events) :
          /\ acked = 1..k
          /\ RowAfter(k)
          /\ \A i \in 1..k : i \notin log => events[i].kind # "created" /\ events[i].sub # row.sub
          /\ \A p \in Procs : HandlesInOrder(p, k)
    BY DEF IInv, InOrder
  <2>2. e <= k + 1
    BY <1>0, <1>2, <2>1 DEF HandlesInOrder
  <2>3. CASE e <= k
    <3>1. acked' = 1..k
      BY <1>2, <1>3, <2>1, <2>3
    <3>2. \A p \in Procs : HandlesInOrder(p, k)'
      BY <1>0, <1>3, <1>4, <2>1 DEF HandlesInOrder, Matches
    <3>3. RowAfter(k)'
      BY <1>0, <2>1 DEF RowAfter, ShowsEvent
    <3> QED
      BY <1>0, <2>1, <3>1, <3>2, <3>3 DEF InOrder
  <2>4. CASE e = k + 1
    <3>1. ~Matches(events[e], row)
      BY <1>0, <1>2, <2>1, <2>4 DEF HandlesInOrder
    <3>2. events[e].kind # "created" /\ events[e].sub # row.sub
      BY <1>2, <3>1, CreationMatches DEF Matches
    <3>3. k # 0
      BY <1>2, <2>4, <3>2 DEF IInv, EventsSound
    <3> HIDE DEF e
    <3>4. PICK m \in 0..Len(events) : m = k + 1
      BY <1>2, <2>1, <2>4
    <3>5. acked' = 1..m
      BY <1>2, <1>3, <2>1, <2>4, <3>4
    <3>6. RowAfter(m)'
      <4>1. PICK j \in 1..k, i \in 1..k :
              /\ events[j].kind = "created" /\ events[i].sub = events[j].sub
              /\ \A l \in j + 1..k : events[l].kind # "created"
              /\ \A l \in i + 1..k : events[l].sub # events[i].sub
              /\ ShowsEvent(i)
        BY <2>1, <3>3 DEF RowAfter
      <4>2. j \in 1..m /\ i \in 1..m /\ \A l \in 1..m : l \in 1..k \/ l = e
        BY <2>4, <3>4
      <4>3. \A l \in j + 1..m : events[l].kind # "created"
        BY <2>4, <3>2, <3>4, <4>1
      <4>4. \A l \in i + 1..m : events[l].sub # events[i].sub
        BY <2>4, <3>2, <3>4, <4>1 DEF ShowsEvent
      <4>5. ShowsEvent(i)'
        BY <1>0, <4>1 DEF ShowsEvent
      <4> QED
        BY <1>0, <4>1, <4>2, <4>3, <4>4, <4>5 DEF RowAfter
    <3>7. \A i \in 1..m : i \notin log => events[i].kind # "created" /\ events[i].sub # row.sub
      BY <2>1, <2>4, <3>2, <3>4
    <3>8. ASSUME NEW p \in Procs
          PROVE  HandlesInOrder(p, m)'
      <4>1. CASE p = h
        BY <1>3, <1>4, <4>1 DEF HandlesInOrder
      <4>2. CASE p # h
        <5>1. proc'[p] = proc[p] /\ HandlesInOrder(p, k)
          BY <1>3, <2>1, <4>2
        <5> SUFFICES ASSUME proc[p].pc = "webhook"
                     PROVE  HandlesInOrder(p, m)'
          BY <5>1 DEF HandlesInOrder
        <5>2. proc[p].event <= k + 1 /\ proc[p].event \in Nat
          BY <5>1 DEF HandlesInOrder, IInv, SeenSound
        <5>3. proc[p].event <= m + 1 /\ proc[p].event # m + 1
          BY <2>1, <3>4, <5>2
        <5>4. proc[p].event \notin log => ~proc[p].found
          <6>1. CASE proc[p].event = k + 1
            BY <2>4, <3>1, <5>1, <6>1 DEF HandlesInOrder
          <6>2. CASE proc[p].event # k + 1
            <7>1. proc[p].event <= k
              BY <2>1, <5>2, <6>2
            <7> QED
              BY <5>1, <7>1 DEF HandlesInOrder
          <6> QED
            BY <6>1, <6>2
        <5> QED
          BY <1>0, <5>1, <5>3, <5>4 DEF HandlesInOrder
      <4> QED
        BY <4>1, <4>2
    <3> QED
      BY <1>0, <3>4, <3>5, <3>6, <3>7, <3>8 DEF InOrder
  <2> QED
    BY <1>2, <2>1, <2>2, <2>3, <2>4
<1> QED
  BY <1>1, <1>5 DEF IInv

\* The INSERT of a known event undoes all: that event was answered before.
LEMMA RefuseIInv ==
  ASSUME IInv, NEW h \in Handlers, RefuseEvent(h)
  PROVE  IInv'
<1>0. /\ proc[h].pc = "webhook" /\ proc[h].event \in log /\ Acknowledge(h)
      /\ UNCHANGED <<row, inserting, log, stripe, events, delivered, customers, failures, orderly>>
  BY DEF RefuseEvent, Webhook, At, AtStripe
<1>1. TypeOK' /\ RequestsSound' /\ SeenSound' /\ RowSound' /\ EventsSound'
  BY <1>0, AnswerLeavesRow DEF IInv, TypeOK
<1>2. acked' = acked
  BY <1>0 DEF Acknowledge, IInv, RowSound
<1>3. \A p \in Procs : proc'[p].pc = "webhook" => proc'[p] = proc[p]
  BY <1>0 DEF Acknowledge, Done, Idle, IInv, TypeOK
<1>4. InOrder'
  <2> SUFFICES ASSUME orderly, customers <= 1
               PROVE  InOrder'
    BY <1>0 DEF InOrder
  <2>1. PICK k \in 0..Len(events) :
          /\ acked = 1..k
          /\ RowAfter(k)
          /\ \A i \in 1..k : i \notin log => events[i].kind # "created" /\ events[i].sub # row.sub
          /\ \A p \in Procs : HandlesInOrder(p, k)
    BY DEF IInv, InOrder
  <2>2. \A p \in Procs : HandlesInOrder(p, k)'
    BY <1>0, <1>3, <2>1 DEF HandlesInOrder, Matches
  <2>3. RowAfter(k)'
    BY <1>0, <2>1 DEF RowAfter, ShowsEvent
  <2> QED
    BY <1>0, <1>2, <2>1, <2>2, <2>3 DEF InOrder
<1> QED
  BY <1>1, <1>4 DEF IInv

\* What a handler may write: the columns as they were, or as its event says.
Writes(e, seen, new) ==
  /\ new.exists = seen.exists /\ new.customer = seen.customer
  /\ new.sub = IF e.kind = "created" THEN e.sub ELSE seen.sub
  /\ new.status \in {seen.status, e.status, "active"}
  /\ new.plan = seen.plan \/ new.plan = Starter
       \/ (e.kind \in {"created", "updated"} /\ new.plan = e.plan)

\* So does a handler that ends.
LEMMA HandledWrites ==
  ASSUME IInv, NEW e \in 1..Len(events), NEW seen \in Rows
  PROVE  LET new == Handled(events[e], seen) IN new \in Rows /\ Writes(events[e], seen, new)
<1> DEFINE new == Handled(events[e], seen)
<1>1. events[e] \in EventSet /\ EventSays(e)
  BY EventType DEF IInv, EventsSound
<1>2. /\ new \in Rows
      /\ new.exists = seen.exists /\ new.customer = seen.customer
      /\ new.sub = IF events[e].kind = "created" THEN events[e].sub ELSE seen.sub
      /\ events[e].kind \in {"created", "updated"} =>
           new.status = events[e].status /\ new.plan = events[e].plan
      /\ events[e].kind = "deleted" => new.status = "canceled" /\ new.plan = Starter
      /\ events[e].kind = "paid" =>
           new.status = (IF seen.status = "past_due" THEN "active" ELSE seen.status) /\ new.plan = seen.plan
      /\ events[e].kind = "failed" => new.status = "past_due" /\ new.plan = seen.plan
  BY <1>1, HandledColumns
<1> HIDE DEF new
<1>3. events[e].kind \in Kinds
  BY <1>1 DEF EventSet
<1> QED
  BY <1>1, <1>2, <1>3 DEF Writes, EventSays, Kinds, new

\* And so does one that raises half-way.
LEMMA AssignedWrites ==
  ASSUME NEW e \in EventSet, NEW seen \in Rows, NEW new \in Assigned(e, seen)
  PROVE  new \in Rows /\ Writes(e, seen, new)
<1>1. e.kind = "created" \/ e.kind = "updated"
  BY DEF Assigned
<1> USE DEF EventSet, Rows, AllPlans
<1>2. CASE e.kind = "created"
  <2>1. new = [seen EXCEPT !.sub = e.sub, !.status = e.status] \/ new = Created(e, seen)
    BY <1>2 DEF Assigned
  <2> QED
    BY <1>2, <2>1 DEF Created, Writes
<1>3. CASE e.kind = "updated"
  <2>1. new = [seen EXCEPT !.status = e.status] \/ new = Updated(e, seen)
    BY <1>3 DEF Assigned
  <2> QED
    BY <1>3, <2>1 DEF Updated, Writes
<1> QED
  BY <1>1, <1>2, <1>3

\* What the UPDATE of a handler leaves of the row, and that each column is told.
LEMMA WrittenRow ==
  ASSUME IInv, NEW h \in Handlers, proc[h].pc = "webhook", proc[h].found,
         NEW new \in Rows, Writes(events[proc[h].event], proc[h].seen, new),
         row' = Changed(row, proc[h].seen, new), Acknowledge(h), UNCHANGED <<events, stripe>>
  PROVE  LET e == proc[h].event  seen == proc[h].seen IN
         /\ e \in 1..Len(events) /\ events[e] \in EventSet /\ seen \in Rows
         /\ row' \in Rows /\ row'.exists = row.exists /\ row'.customer = row.customer
         /\ row'.sub = IF new.sub # seen.sub THEN new.sub ELSE row.sub
         /\ row'.status = IF new.status # seen.status THEN new.status ELSE row.status
         /\ row'.plan = IF new.plan # seen.plan THEN new.plan ELSE row.plan
         /\ row.exists /\ row'.sub \in Subs /\ stripe[row'.sub].state # "none"
         /\ (SubTold /\ StatusTold /\ PlanTold)'
<1> DEFINE e == proc[h].event
           seen == proc[h].seen
<1>1. h \in Procs
  BY DEF Procs
<1>2. e \in 1..Len(events) /\ Matches(events[e], seen)
  BY <1>1 DEF IInv, SeenSound
<1>3. events[e] \in EventSet /\ row \in Rows /\ seen \in Rows
  <2>1. proc[h] \in ProcSet
    BY <1>1 DEF IInv, TypeOK, ProcSet
  <2> QED
    BY <1>2, <2>1, EventType DEF IInv, TypeOK, ProcSet
<1>4. Writes(events[e], seen, new) /\ e \in acked' /\ acked \subseteq acked' /\ events' = events
  BY DEF Acknowledge
<1>5. row.exists
  BY <1>1, <1>2 DEF Matches, IInv, SeenSound
<1>6. /\ row' \in Rows /\ row'.exists = row.exists /\ row'.customer = row.customer
      /\ row'.sub = IF new.sub # seen.sub THEN new.sub ELSE row.sub
      /\ row'.status = IF new.status # seen.status THEN new.status ELSE row.status
      /\ row'.plan = IF new.plan # seen.plan THEN new.plan ELSE row.plan
  BY <1>3, <1>4, ChangedColumns DEF Writes
<1>7. events[e].sub \in Subs /\ stripe[events[e].sub].state # "none"
  BY <1>2, <1>3 DEF EventSet, IInv, EventsSound, EventSays
<1>8. row'.sub \in Subs /\ stripe[row'.sub].state # "none"
  <2>1. CASE new.sub # seen.sub
    BY <1>4, <1>6, <1>7, <2>1 DEF Writes
  <2>2. CASE new.sub = seen.sub
    <3>1. seen.sub = events[e].sub
      BY <1>2, <1>4, <2>2 DEF Matches, Writes
    <3>2. row.sub # "none"
      BY <1>1, <1>7, <3>1, BillingAssumption DEF IInv, SeenSound
    <3> QED
      BY <1>3, <1>6, <2>2, <3>2 DEF IInv, RowSound, Rows
  <2> QED
    BY <2>1, <2>2
<1> HIDE DEF e, seen
<1>9. SubTold'
  BY <1>4, <1>6 DEF Writes, IInv, RowSound, SubTold
<1>10. StatusTold'
  BY <1>4, <1>6 DEF Writes, IInv, RowSound, StatusTold
<1>11. PlanTold'
  BY <1>4, <1>6 DEF Writes, IInv, RowSound, PlanTold
<1> QED
  BY <1>2, <1>3, <1>5, <1>6, <1>8, <1>9, <1>10, <1>11 DEF e, seen

\* What the UPDATE of a handled event leaves of the row.
LEMMA CommitRow ==
  ASSUME IInv, NEW h \in Handlers, CommitEvent(h)
  PROVE  LET e == proc[h].event  seen == proc[h].seen  new == Handled(events[e], seen) IN
         /\ e \in 1..Len(events) /\ events[e] \in EventSet /\ seen \in Rows /\ new \in Rows
         /\ row' \in Rows /\ row'.exists = row.exists /\ row'.customer = row.customer
         /\ row'.sub = IF new.sub # seen.sub THEN new.sub ELSE row.sub
         /\ row'.status = IF new.status # seen.status THEN new.status ELSE row.status
         /\ row'.plan = IF new.plan # seen.plan THEN new.plan ELSE row.plan
         /\ row.exists /\ row'.sub \in Subs /\ stripe[row'.sub].state # "none"
         /\ (SubTold /\ StatusTold /\ PlanTold)'
<1> DEFINE e == proc[h].event
           seen == proc[h].seen
           new == Handled(events[e], seen)
<1>1. /\ h \in Procs /\ proc[h].pc = "webhook" /\ proc[h].found /\ row' = Changed(row, seen, new)
      /\ Acknowledge(h) /\ UNCHANGED <<events, stripe>>
  BY DEF CommitEvent, Webhook, At, Procs, AtStripe
<1>2. e \in 1..Len(events) /\ seen \in Rows
  <2>1. proc[h] \in ProcSet
    BY <1>1 DEF IInv, TypeOK, ProcSet
  <2> QED
    BY <1>1, <2>1 DEF IInv, SeenSound, ProcSet
<1>3. new \in Rows /\ Writes(events[e], seen, new)
  BY <1>2, HandledWrites
<1> HIDE DEF new
<1> QED
  BY <1>1, <1>3, WrittenRow DEF new

\* A swallowed exception leaves the row alone, or as it was assigned half-way.
LEMMA SwallowIInv ==
  ASSUME IInv, NEW h \in Handlers, SwallowException(h)
  PROVE  IInv'
<1> DEFINE e == proc[h].event
           seen == proc[h].seen
<1>0. /\ h \in Procs /\ proc[h].pc = "webhook" /\ Acknowledge(h)
      /\ orderly' = FALSE /\ failures' \in 0..MaxFailures
      /\ UNCHANGED <<inserting, log, stripe, events, delivered, customers>>
  BY BillingAssumption DEF SwallowException, Webhook, At, AtStripe, Procs, IInv, TypeOK
<1>1. InOrder'
  BY <1>0 DEF InOrder
<1>2. CASE UNCHANGED row
  <2>1. TypeOK' /\ RequestsSound' /\ SeenSound' /\ RowSound' /\ EventsSound'
    BY <1>0, <1>2, AnswerLeavesRow
  <2> QED
    BY <1>1, <2>1 DEF IInv
<1>3. ASSUME proc[h].found, NEW new \in Assigned(events[e], seen), row' = Changed(row, seen, new)
      PROVE  IInv'
  <2>1. e \in 1..Len(events) /\ events[e] \in EventSet /\ seen \in Rows
    <3>1. proc[h] \in ProcSet
      BY <1>0 DEF IInv, TypeOK, ProcSet
    <3> QED
      BY <1>0, <3>1, EventType DEF IInv, SeenSound, ProcSet
  <2>2. new \in Rows /\ Writes(events[e], seen, new)
    BY <2>1, AssignedWrites
  <2>3. /\ row' \in Rows /\ row'.exists = row.exists /\ row'.customer = row.customer
        /\ row.exists /\ row'.sub \in Subs /\ stripe[row'.sub].state # "none"
        /\ (SubTold /\ StatusTold /\ PlanTold)'
    BY <1>0, <1>3, <2>2, WrittenRow
  <2>4. proc'[h] = Idle /\ \A p \in Procs \ {h} : proc'[p] = proc[p]
    BY <1>0 DEF Acknowledge, Done, IInv, TypeOK
  <2>5. Idle.pc = "idle" /\ Idle.event = 0 /\ ~Idle.seen.exists /\ Idle.seen.sub = "none" /\ Idle.seen.customer = 0
    BY DEF Idle, NoRow, EmptyRow
  <2>6. row'.sub # "none"
    BY <2>3, BillingAssumption
  <2> HIDE DEF e, seen
  <2>7. TypeOK'
    <3>1. proc' \in [Procs -> ProcSet]
      BY <1>0, IdleType DEF Acknowledge, Done, IInv, TypeOK, ProcSet
    <3>2. acked' \subseteq 1..Len(events')
      BY <1>0, <2>1 DEF Acknowledge, IInv, TypeOK, e
    <3> QED
      BY <1>0, <2>3, <3>1, <3>2 DEF IInv, TypeOK, ProcSet
  <2>8. RequestsSound'
    BY <1>0, <2>3, <2>4, <2>5, WebhookRequests DEF IInv
  <2>9. SeenSound'
    BY <1>0, <2>3, <2>4, <2>5, <2>6 DEF IInv, SeenSound, Matches
  <2>10. RowSound'
    BY <1>0, <2>3, <2>6 DEF IInv, RowSound, Acknowledge
  <2>11. EventsSound'
    BY <1>0 DEF IInv, EventsSound, EventSays, EventFollows, StripeTold, LastOf
  <2> QED
    BY <1>1, <2>7, <2>8, <2>9, <2>10, <2>11 DEF IInv
<1> QED
  BY <1>2, <1>3 DEF SwallowException

\* Handled in its turn, an event is what the row shows.
LEMMA CommitShows ==
  ASSUME IInv, NEW h \in Handlers, CommitEvent(h), NEW k \in 0..Len(events),
         RowAfter(k), HandlesInOrder(h, k), NEW e \in Nat, e = k + 1, proc[h].event = e
  PROVE  /\ ShowsEvent(e)'
         /\ row'.sub = IF events[e].kind = "created" THEN events[e].sub ELSE row.sub
         /\ events[e].kind # "created" => k # 0 /\ events[e].sub = row.sub
<1> DEFINE seen == proc[h].seen
           new == Handled(events[e], seen)
<1>1. h \in Procs /\ proc[h].pc = "webhook" /\ proc[h].found /\ events' = events
  BY DEF CommitEvent, Webhook, At, AtStripe, Procs
<1>2. /\ e \in 1..Len(events) /\ events[e] \in EventSet /\ seen \in Rows
      /\ row'.sub = IF new.sub # seen.sub THEN new.sub ELSE row.sub
      /\ row'.status = IF new.status # seen.status THEN new.status ELSE row.status
      /\ row'.plan = IF new.plan # seen.plan THEN new.plan ELSE row.plan
  BY CommitRow
<1>3. seen.sub = row.sub /\ seen.status = row.status /\ seen.plan = row.plan /\ Matches(events[e], row)
  BY <1>1 DEF HandlesInOrder
<1>4. row'.sub = new.sub /\ row'.status = new.status /\ row'.plan = new.plan
  BY <1>2, <1>3
<1> HIDE DEF new, seen
<1>5. /\ new.sub = IF events[e].kind = "created" THEN events[e].sub ELSE row.sub
      /\ events[e].kind \in {"created", "updated"} => new.status = events[e].status /\ new.plan = events[e].plan
      /\ events[e].kind = "deleted" => new.status = "canceled" /\ new.plan = Starter
      /\ events[e].kind = "paid" =>
           new.status = (IF row.status = "past_due" THEN "active" ELSE row.status) /\ new.plan = row.plan
      /\ events[e].kind = "failed" => new.status = "past_due" /\ new.plan = row.plan
  BY <1>2, <1>3, HandledColumns DEF new
<1>6. events[e].kind # "created" => k # 0 /\ events[e].sub = row.sub
  BY <1>2, <1>3 DEF Matches, IInv, EventsSound
<1>7. EventSays(e)
  BY <1>2 DEF IInv, EventsSound
<1>8. row'.sub = events[e].sub
  BY <1>4, <1>5, <1>6
<1>9. CASE events[e].kind \in {"created", "updated", "deleted"}
  <2>1. row'.status = events[e].status
    BY <1>4, <1>5, <1>7, <1>9 DEF EventSays
  <2>2. row'.plan = IF events[e].kind = "deleted" THEN Starter ELSE events[e].plan
    BY <1>4, <1>5, <1>9
  <2> QED
    BY <1>1, <1>4, <1>5, <1>6, <1>8, <2>1, <2>2 DEF ShowsEvent
<1>10. CASE events[e].kind \in {"paid", "failed"}
  <2>1. k # 0 /\ events[e].sub = row.sub
    BY <1>6, <1>10
  <2>2. PICK i \in 1..k : (\A l \in i + 1..k : events[l].sub # events[i].sub) /\ ShowsEvent(i)
    BY <2>1 DEF RowAfter
  <2>3. /\ i < e /\ i \in 1..Len(events) /\ events[i].sub = events[e].sub
        /\ events[i] \in EventSet
    BY <2>1, <2>2, EventType DEF ShowsEvent, IInv
  <2>4. EventFollows(i, e) /\ EventSays(i)
    BY <1>2, <2>3 DEF IInv, EventsSound
  <2>5. \A l \in i + 1..e - 1 : events[l].sub # events[e].sub
    BY <2>2, <2>3
  <2>6. events[i].kind # "deleted" /\ events[i].plan = events[e].plan
    BY <1>10, <2>4, <2>5 DEF EventFollows
  <2>7. events[i].status \in {"active", "past_due"}
    BY <2>3, <2>4, <2>6 DEF EventSays, EventSet, Kinds, Statuses
  <2>8. row.status = events[i].status /\ row.plan = events[e].plan
    BY <2>2, <2>6 DEF ShowsEvent
  <2>9. row'.status = events[e].status
    BY <1>4, <1>5, <1>7, <1>10, <2>7, <2>8 DEF EventSays
  <2>10. row'.plan = events[e].plan
    BY <1>4, <1>5, <1>10, <2>8
  <2> QED
    BY <1>1, <1>4, <1>5, <1>6, <1>8, <1>10, <2>9, <2>10 DEF ShowsEvent
<1>11. events[e].kind \in {"created", "updated", "deleted"} \/ events[e].kind \in {"paid", "failed"}
  BY <1>2 DEF EventSet, Kinds
<1> QED
  BY <1>9, <1>10, <1>11

\* A handled event leaves its effect and its number together.
LEMMA CommitIInv ==
  ASSUME IInv, NEW h \in Handlers, CommitEvent(h)
  PROVE  IInv'
<1> DEFINE e == proc[h].event
<1>0. /\ h \in Procs /\ proc[h].pc = "webhook" /\ proc[h].found /\ Acknowledge(h)
      /\ e \notin log /\ log' = log \cup {e}
      /\ UNCHANGED <<inserting, stripe, events, delivered, customers, failures, orderly>>
  BY DEF CommitEvent, Webhook, At, AtStripe, Procs
<1>1. /\ e \in 1..Len(events) /\ events[e] \in EventSet
      /\ row' \in Rows /\ row'.exists = row.exists /\ row'.customer = row.customer
      /\ row.exists /\ row'.sub \in Subs /\ stripe[row'.sub].state # "none"
      /\ (SubTold /\ StatusTold /\ PlanTold)'
  BY CommitRow
<1>2. acked' = acked \cup {e} /\ proc'[h] = Idle /\ \A p \in Procs \ {h} : proc'[p] = proc[p]
  BY <1>0 DEF Acknowledge, Done, IInv, TypeOK
<1>3. Idle.pc = "idle" /\ Idle.event = 0 /\ ~Idle.seen.exists /\ Idle.seen.sub = "none" /\ Idle.seen.customer = 0
  BY DEF Idle, NoRow, EmptyRow
<1>4. Len(events) \in Nat /\ row'.sub # "none"
  BY <1>1, EventType, BillingAssumption DEF IInv
<1>5. TypeOK'
  <2>1. proc' \in [Procs -> ProcSet]
    BY <1>0, IdleType DEF Acknowledge, Done, IInv, TypeOK, ProcSet
  <2>2. acked' \subseteq 1..Len(events')
    BY <1>0, <1>1, <1>2 DEF IInv, TypeOK
  <2>3. log' \subseteq Events
    <3>1. log \subseteq Events /\ Len(events) <= MaxEvents
      BY DEF IInv, TypeOK
    <3>2. e \in Events
      BY <1>1, <1>4, <3>1, BillingAssumption DEF Events
    <3> QED
      BY <1>0, <3>1, <3>2
  <2> QED
    BY <1>0, <1>1, <2>1, <2>2, <2>3 DEF IInv, TypeOK, ProcSet
<1>6. RequestsSound'
  BY <1>0, <1>1, <1>2, <1>3, WebhookRequests DEF IInv
<1>7. SeenSound'
  BY <1>0, <1>1, <1>2, <1>3, <1>4 DEF IInv, SeenSound, Matches
<1>8. RowSound'
  BY <1>0, <1>1, <1>2, <1>4 DEF IInv, RowSound
<1>9. EventsSound'
  BY <1>0 DEF IInv, EventsSound, EventSays, EventFollows, StripeTold, LastOf
<1>10. InOrder'
  <2> SUFFICES ASSUME orderly, customers <= 1
               PROVE  InOrder'
    BY <1>0 DEF InOrder
  <2>1. PICK k \in 0..Len(events) :
          /\ acked = 1..k
          /\ RowAfter(k)
          /\ \A i \in 1..k : i \notin log => events[i].kind # "created" /\ events[i].sub # row.sub
          /\ \A p \in Procs : HandlesInOrder(p, k)
    BY DEF IInv, InOrder
  <2>2. e = k + 1
    <3>1. e <= k + 1 /\ (e <= k /\ e \notin log => ~proc[h].found)
      BY <1>0, <2>1 DEF HandlesInOrder
    <3> QED
      BY <1>0, <1>1, <2>1, <3>1
  <2>3. PICK m \in 0..Len(events) : m = k + 1
    BY <1>1, <1>4, <2>1, <2>2
  <2>4. /\ ShowsEvent(m)'
        /\ row'.sub = IF events[m].kind = "created" THEN events[m].sub ELSE row.sub
        /\ events[m].kind # "created" => k # 0 /\ events[m].sub = row.sub
    <3>1. m \in Nat /\ proc[h].event = m
      BY <2>2, <2>3
    <3>2. RowAfter(k) /\ HandlesInOrder(h, k) /\ m = k + 1
      BY <1>0, <2>1, <2>3
    <3> HIDE DEF e
    <3> QED
      BY <3>1, <3>2, CommitShows
  <2> HIDE DEF e
  <2>5. acked' = 1..m
    BY <1>2, <2>1, <2>2, <2>3
  <2>6. RowAfter(m)'
    <3>0. m \in 1..m /\ \A l \in m + 1..m : FALSE
      BY <2>1, <2>3
    <3>1. CASE events[m].kind = "created"
      BY <1>0, <2>4, <3>0, <3>1 DEF RowAfter
    <3>2. CASE events[m].kind # "created"
      <4>1. PICK j \in 1..k, i \in 1..k :
              /\ events[j].kind = "created" /\ events[i].sub = events[j].sub
              /\ \A l \in j + 1..k : events[l].kind # "created"
              /\ ShowsEvent(i)
        BY <2>1, <2>4, <3>2 DEF RowAfter
      <4>2. events[m].sub = events[j].sub
        BY <2>4, <3>2, <4>1 DEF ShowsEvent
      <4>3. j \in 1..m /\ \A l \in j + 1..m : events[l].kind # "created"
        BY <2>3, <3>2, <4>1
      <4> QED
        BY <1>0, <2>4, <3>0, <4>1, <4>2, <4>3 DEF RowAfter
    <3> QED
      BY <3>1, <3>2
  <2>7. ASSUME NEW i \in 1..m, i \notin log'
        PROVE  events[i].kind # "created" /\ events[i].sub # row'.sub
    <3>1. i \in 1..k /\ i < m /\ i \notin log
      BY <1>0, <2>2, <2>3, <2>7
    <3>2. events[i].kind # "created" /\ events[i].sub # row.sub
      BY <2>1, <3>1
    <3>3. CASE events[m].kind = "created"
      <4>1. events[i].sub = events[m].sub => EventFollows(i, m)
        BY <1>4, <2>3, <3>1 DEF IInv, EventsSound
      <4> QED
        BY <2>4, <3>2, <3>3, <4>1 DEF EventFollows
    <3>4. CASE events[m].kind # "created"
      BY <2>4, <3>2, <3>4
    <3> QED
      BY <3>3, <3>4
  <2>8. ASSUME NEW p \in Procs
        PROVE  HandlesInOrder(p, m)'
    <3>1. CASE p = h
      BY <1>2, <1>3, <3>1 DEF HandlesInOrder
    <3>2. CASE p # h
      <4>1. proc'[p] = proc[p] /\ HandlesInOrder(p, k)
        BY <1>2, <2>1, <3>2
      <4> SUFFICES ASSUME proc[p].pc = "webhook"
                   PROVE  HandlesInOrder(p, m)'
        BY <4>1 DEF HandlesInOrder
      <4>2. proc[p].event <= k + 1 /\ proc[p].event \in Nat
        BY <4>1 DEF HandlesInOrder, IInv, SeenSound
      <4>3. proc[p].event <= m + 1 /\ proc[p].event # m + 1
        BY <2>1, <2>3, <4>2
      <4>4. proc[p].event \notin log' => ~proc[p].found
        <5> SUFFICES ASSUME proc[p].event \notin log' PROVE ~proc[p].found
          OBVIOUS
        <5>1. proc[p].event <= k /\ proc[p].event \notin log
          BY <1>0, <2>1, <2>2, <4>2
        <5> QED
          BY <4>1, <5>1 DEF HandlesInOrder
      <4> QED
        BY <4>1, <4>3, <4>4 DEF HandlesInOrder
    <3> QED
      BY <3>1, <3>2
  <2> QED
    BY <1>0, <2>3, <2>5, <2>6, <2>7, <2>8 DEF InOrder
<1> QED
  BY <1>5, <1>6, <1>7, <1>8, <1>9, <1>10 DEF IInv

-----------------------------------------------------------------------------
(* The invariant holds in every state. *)

\* Every step is one of those above, or changes nothing.
LEMMA NextIInv == IInv /\ [Next]_vars => IInv'
<1> SUFFICES ASSUME IInv, [Next]_vars PROVE IInv'
  OBVIOUS
<1>1. CASE Stripe
  BY <1>1, StripeIInv
<1>2. ASSUME NEW c \in Clients, Answer(c) \/ \E goal \in {"checkout", "usage"} : Request(c, goal)
      PROVE  IInv'
  BY <1>2, AskIInv DEF Asks
<1>3. ASSUME NEW h \in Handlers, Handle(h) \/ SwallowException(h) \/ \E e \in Events : Deliver(h, e)
      PROVE  IInv'
  BY <1>3, DropIInv, CommitIInv, RefuseIInv, SwallowIInv, DeliverIInv DEF Handle
<1>4. CASE UNCHANGED vars
  <2>1. TypeOK'
    BY <1>4 DEF vars, IInv, TypeOK
  <2>2. RequestsSound' /\ SeenSound' /\ RowSound'
    BY <1>4 DEF vars, IInv, RequestsSound, HoldsInsert, SeenSound, RowSound, Matches,
                SubTold, StatusTold, PlanTold
  <2>3. EventsSound'
    BY <1>4 DEF vars, IInv, EventsSound, EventSays, EventFollows, StripeTold, LastOf
  <2>4. InOrder'
    BY <1>4 DEF vars, IInv, InOrder, RowAfter, ShowsEvent, HandlesInOrder, Matches
  <2> QED
    BY <2>1, <2>2, <2>3, <2>4 DEF IInv
<1> QED
  BY <1>1, <1>2, <1>3, <1>4 DEF Next

\* The invariant holds of every behaviour.
THEOREM Invariance == Spec => []IInv
<1> QED
  BY InitIInv, NextIInv, PTL DEF Spec

\* When events come in order none is dropped.
LEMMA InvariantNothingDropped == IInv => NothingDropped
<1> SUFFICES ASSUME IInv, orderly, customers <= 1, OneSubscription
             PROVE  acked = log
  BY DEF NothingDropped
<1>1. PICK k \in 0..Len(events) :
        /\ acked = 1..k
        /\ RowAfter(k)
        /\ \A e \in 1..k : e \notin log => events[e].kind # "created" /\ events[e].sub # row.sub
  BY DEF IInv, InOrder
<1>2. log \subseteq acked
  BY DEF IInv, RowSound
<1>3. ASSUME NEW e \in acked, e \notin log
      PROVE  FALSE
  <2>1. e \in 1..k /\ e \in 1..Len(events) /\ k # 0
    BY <1>1, <1>3 DEF IInv, TypeOK
  <2>2. events[e].sub \in Subs /\ stripe[events[e].sub].state # "none"
    BY <2>1, EventType DEF IInv, EventsSound, EventSays, EventSet
  <2>3. PICK i \in 1..k : ShowsEvent(i)
    BY <1>1, <2>1 DEF RowAfter
  <2>4. i \in 1..Len(events)
    BY EventType, <2>3 DEF IInv
  <2>5. row.sub \in Subs /\ stripe[row.sub].state # "none"
    BY <2>3, <2>4, EventType DEF ShowsEvent, IInv, EventsSound, EventSays, EventSet
  <2>6. events[e].sub = row.sub
    BY <2>2, <2>5 DEF OneSubscription
  <2> QED
    BY <1>1, <1>3, <2>1, <2>6
<1> QED
  BY <1>2, <1>3

\* When events come in order the settled row is as Stripe has the newest
\* subscription.
LEMMA InvariantRowFollows == IInv => RowFollowsStripe
<1> SUFFICES ASSUME IInv, orderly, Settled, customers <= 1, NEW s \in Subs, Newest(s)
             PROVE  /\ row.sub = s
                    /\ row.status = stripe[s].state
                    /\ row.plan = IF stripe[s].state = "canceled" THEN Starter ELSE stripe[s].plan
  BY DEF RowFollowsStripe
<1>1. PICK k \in 0..Len(events) : acked = 1..k /\ RowAfter(k)
  BY DEF IInv, InOrder
<1>2. Len(events) \in Nat /\ \A i \in 1..Len(events) : events[i] \in EventSet
  BY EventType DEF IInv
<1>3. PICK n \in 1..Len(events) : /\ events[n].kind = "created" /\ events[n].sub = s
                                 /\ \A i \in n + 1..Len(events) : events[i].kind # "created"
  BY DEF Newest
<1>4. k = Len(events)
  <2>1. 1..k = 1..Len(events)
    BY <1>1 DEF Settled
  <2>2. Len(events) \in 1..k
    BY <1>2, <1>3, <2>1
  <2> QED
    BY <1>2, <2>2
<1>5. PICK j \in 1..k, i \in 1..k :
        /\ events[j].kind = "created" /\ events[i].sub = events[j].sub
        /\ \A l \in j + 1..k : events[l].kind # "created"
        /\ \A l \in i + 1..k : events[l].sub # events[i].sub
        /\ ShowsEvent(i)
  BY <1>1, <1>3, <1>4 DEF RowAfter
<1>6. j = n
  <2>1. ~(j < n) /\ ~(n < j)
    BY <1>2, <1>3, <1>4, <1>5
  <2> QED
    BY <1>2, <1>4, <2>1
<1>7. LastOf(s, i) /\ events[i].sub = s
  BY <1>3, <1>4, <1>5, <1>6 DEF LastOf
<1>8. EventSays(i) /\ StripeTold(s) /\ stripe[s].state # "none"
  BY <1>4, <1>5, <1>7 DEF IInv, EventsSound, EventSays
<1>9. PICK l \in 1..Len(events) :
        LastOf(s, l) /\ events[l].status = stripe[s].state /\ events[l].plan = stripe[s].plan
  BY <1>8 DEF StripeTold
<1>10. l = i
  <2>1. ~(l < i) /\ ~(i < l)
    BY <1>2, <1>4, <1>5, <1>7, <1>9 DEF LastOf
  <2> QED
    BY <1>2, <1>4, <2>1
<1>11. events[i].kind = "deleted" <=> stripe[s].state = "canceled"
  <2>1. events[i].kind \in Kinds
    BY <1>2, <1>4 DEF EventSet
  <2> QED
    BY <1>8, <1>9, <1>10, <2>1 DEF EventSays, Kinds
<1> QED
  BY <1>5, <1>7, <1>9, <1>10, <1>11 DEF ShowsEvent

\* The unique stripe_event_id, the lock of the UPDATE and the transaction that
\* holds both make a change of the bill come with one new event, for any number
\* of webhooks in flight and of deliveries of one event; but for a creation or
\* an update whose handler raised half-way.
LEMMA StepEffect ==
  ASSUME IInv, [Next]_vars, row.exists,
         <<row'.sub, row'.status, row'.plan>> # <<row.sub, row.status, row.plan>>
  PROVE  Cardinality(log' \ log) = 1 \/ (log' = log /\ FailedHalfway)
<1>1. CASE Stripe
  BY <1>1, StripeSends
<1>2. ASSUME NEW c \in Clients, Asks(c)
      PROVE  FALSE
  <2>1. row \in Rows /\ customers \in Nat
    BY BillingAssumption DEF IInv, TypeOK
  <2>2. row' = row \/ row' = [row EXCEPT !.customer = customers + 1]
    BY <1>2, AskRow
  <2> QED
    BY <2>1, <2>2 DEF Rows
<1>3. ASSUME NEW h \in Handlers, CommitEvent(h)
      PROVE  Cardinality(log' \ log) = 1
  <2>1. log' \ log = {proc[h].event}
    BY <1>3 DEF CommitEvent
  <2> QED
    BY <2>1, FS_Singleton
<1>4. ASSUME NEW h \in Handlers,
             DropEvent(h) \/ RefuseEvent(h) \/ \E e \in Events : Deliver(h, e)
      PROVE  FALSE
  BY <1>4 DEF DropEvent, RefuseEvent, Deliver
<1>5. ASSUME NEW h \in Handlers, SwallowException(h)
      PROVE  log' = log /\ FailedHalfway
  <2>1. At(h, "webhook") /\ Acknowledge(h) /\ log' = log /\ failures' = failures + 1
    BY <1>5 DEF SwallowException, Webhook
  <2>2. Assigned(events[proc[h].event], proc[h].seen) # {}
    BY <1>5 DEF SwallowException
  <2>3. events[proc[h].event].kind \in {"created", "updated"}
    BY <2>2 DEF Assigned
  <2>4. ~At(h, "webhook")'
    BY <2>1 DEF Acknowledge, Done, At, Idle, Procs, IInv, TypeOK
  <2> QED
    BY <2>1, <2>3, <2>4 DEF FailedHalfway
<1>6. CASE UNCHANGED vars
  BY <1>6 DEF vars
<1> QED
  BY <1>1, <1>2, <1>3, <1>4, <1>5, <1>6 DEF Next, Asks, Handle

-----------------------------------------------------------------------------
(* What is proved of the run's properties. *)

\* No event that comes in its order is dropped.
THEOREM NoneDropped == Spec => []NothingDropped
<1> QED
  BY Invariance, InvariantNothingDropped, PTL

\* The row is that of the subscription at Stripe when the events come in order;
\* and in any order, with any exceptions, each of its columns was told.
THEOREM RowsSound == Spec => []RowIsSound
<1>1. IInv => RowIsExplained
  BY DEF IInv, RowSound, RowIsExplained
<1> QED
  BY <1>1, Invariance, InvariantRowFollows, PTL DEF RowIsSound

\* A bill changes with exactly one event that was not in the log, unless the
\* handler of a creation or an update has failed half-way.
THEOREM Effects == Spec => EffectWithItsEvent
<1>1. IInv /\ [Next]_vars =>
        [ <<row'.sub, row'.status, row'.plan>> # <<row.sub, row.status, row.plan>> /\ row.exists
            => Cardinality(log' \ log) = 1 \/ (log' = log /\ FailedHalfway) ]_vars
  BY StepEffect
<1> QED
  BY <1>1, Invariance, PTL DEF Spec, EffectWithItsEvent

=============================================================================
