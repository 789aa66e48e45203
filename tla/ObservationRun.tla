---------------------------- MODULE ObservationRun ----------------------------
(***************************************************************************)
(* One run of ObservationRunner: every question is a coroutine that asks a *)
(* primary provider and then a fallback provider, with retries, under a    *)
(* semaphore, a cost cap and a total timeout.                              *)
(*                                                                         *)
(* The coroutines share one event loop.  A coroutine that is "created" or  *)
(* "trying" is on the loop: until it awaits something that is not there    *)
(* yet, nobody else moves.                                                 *)
(***************************************************************************)
EXTENDS Integers, FiniteSets

CONSTANTS
  N,              \* questions of the run, after the cut at max_questions
  Slots,          \* concurrent_requests
  MaxRetries,     \* max_retries: calls to one provider for one question
  Cap,            \* max_cost_per_run
  Costs,          \* what one answer of a provider may cost
  MockCost,       \* what the mock provider says its answers cost
  ProviderPairs   \* the <<primary, fallback>> the settings may give

Questions == 1..N

ASSUME SizeAssumption ==
  N \in Nat /\ Slots \in Nat \ {0} /\ MaxRetries \in Nat \ {0}

ASSUME CostAssumption ==
  Cap \in Nat \ {0} /\ Costs \subseteq Nat /\ MockCost \in Nat

ASSUME ProviderAssumption ==
  ProviderPairs \subseteq [1..2 -> {"network", "mock"}]

VARIABLES
  providers,  \* providers_to_try: the primary and the fallback
  at,         \* where the coroutine of each question is
  turn,       \* index in providers of the one it is using; 3: none is left
  calls,      \* calls it made to each of the two
  outcome,    \* the result it returned
  cost,       \* estimated cost of the answer in that result
  free,       \* value of the semaphore
  total,      \* _total_cost
  exceeded,   \* _cost_exceeded
  run         \* the ObservationRun that is returned

runVars == <<providers, at, turn, calls, outcome, cost, free, total, exceeded, run>>

-----------------------------------------------------------------------------
Places == {"created", "waiting", "granted", "trying", "checking", "asking",
           "backoff", "done", "cancelled"}

\* Places between the acquisition and the release of the semaphore.
Holding == {q \in Questions : at[q] \in {"granted", "trying", "checking", "asking", "backoff"}}

Waiting == {q \in Questions : at[q] = "waiting"}

\* "refused" is a result that carries a response without success: add_result
\* provides for it.
Outcomes == {"none", "answered", "refused", "failed", "skipped", "raised"}

Having(o) == {q \in Questions : outcome[q] = o}

LoopIsFree == \A q \in Questions : at[q] \notin {"created", "trying"}

\* asyncio starts the tasks of a gather in order, and its semaphore serves
\* its waiters in the order they came, which is that of the questions.
IsFirst(q, S) == q \in S /\ \A p \in S : q <= p

\* A run without results: add_result is called after the gather.
EmptyRun(status, errors) ==
  [status |-> status, results |-> <<>>, answered |-> 0, failed |-> 0,
   usage |-> 0, errors |-> errors]

Running == run.status = "in_progress"

RunInit ==
  /\ providers \in ProviderPairs
  /\ at = [q \in Questions |-> "created"]
  /\ turn = [q \in Questions |-> 1]
  /\ calls = [q \in Questions |-> [p \in 1..2 |-> 0]]
  /\ outcome = [q \in Questions |-> "none"]
  /\ cost = [q \in Questions |-> 0]
  /\ free = Slots
  /\ total = 0
  /\ exceeded = FALSE
  /\ run = EmptyRun("in_progress", {})

-----------------------------------------------------------------------------
(* The semaphore. *)

\* The freed slot goes to nobody: the waiter is not woken.
PassSlotSilent(q) ==
  /\ free' = free + 1
  /\ at' = [at EXCEPT ![q] = "done"]

\* `release` hands the slot to the first waiter, if there is one.
PassSlot(q) ==
  \/ /\ Waiting = {}
     /\ at' = [at EXCEPT ![q] = "done"] /\ free' = free + 1
  \/ /\ \E w \in Waiting : IsFirst(w, Waiting) /\ at' = [at EXCEPT ![q] = "done", ![w] = "granted"]
     /\ UNCHANGED free

\* process_request up to the semaphore: the cost cap is read here only.
Enter(q) ==
  /\ IsFirst(q, {p \in Questions : at[p] = "created"})
  /\ \A p \in Questions : at[p] # "trying"
  /\ IF exceeded
     THEN /\ at' = [at EXCEPT ![q] = "done"]
          /\ outcome' = [outcome EXCEPT ![q] = "skipped"]
          /\ UNCHANGED free
     ELSE /\ IF free > 0
             THEN at' = [at EXCEPT ![q] = "trying"] /\ free' = free - 1
             ELSE at' = [at EXCEPT ![q] = "waiting"] /\ UNCHANGED free
          /\ UNCHANGED outcome
  /\ UNCHANGED <<providers, turn, calls, cost, total, exceeded, run>>

\* A waiter that was given the slot runs again.
Resume(q) ==
  /\ at[q] = "granted" /\ LoopIsFree
  /\ at' = [at EXCEPT ![q] = "trying"]
  /\ UNCHANGED <<providers, turn, calls, outcome, cost, free, total, exceeded, run>>

-----------------------------------------------------------------------------
(* The providers. *)

\* The coroutine returns an answered result and its cost is added up.
Charge(q, c) ==
  /\ outcome' = [outcome EXCEPT ![q] = "answered"]
  /\ cost' = [cost EXCEPT ![q] = c]
  /\ total' = total + c
  /\ exceeded' = (exceeded \/ total' >= Cap)

\* The retry loop ends without an answer.
GiveUp(q) ==
  /\ outcome' = [outcome EXCEPT ![q] = "failed"]
  /\ UNCHANGED <<cost, total, exceeded>>

\* The next provider of the loop of _observe_with_retry.
NextProvider(q) ==
  /\ turn' = [turn EXCEPT ![q] = @ + 1]
  /\ at' = [at EXCEPT ![q] = "trying"]

\* A network provider is asked for its health; the mock provider is healthy
\* and answers at once; after the last provider the question has failed.
TryProvider(q) ==
  /\ at[q] = "trying"
  /\ \/ /\ turn[q] = 3
        /\ GiveUp(q) /\ PassSlot(q)
        /\ UNCHANGED calls
     \/ /\ turn[q] < 3 /\ providers[turn[q]] = "mock"
        /\ calls' = [calls EXCEPT ![q][turn[q]] = @ + 1]
        /\ Charge(q, MockCost) /\ PassSlot(q)
     \/ /\ turn[q] < 3 /\ providers[turn[q]] = "network"
        /\ at' = [at EXCEPT ![q] = "checking"]
        /\ UNCHANGED <<calls, outcome, cost, free, total, exceeded>>
  /\ UNCHANGED <<providers, turn, run>>

\* The answer to health_check, its own timeout and errors included.
Healthy(q) ==
  /\ at[q] = "checking" /\ LoopIsFree
  /\ at' = [at EXCEPT ![q] = "asking"]
  /\ calls' = [calls EXCEPT ![q][turn[q]] = @ + 1]
  /\ UNCHANGED <<providers, turn, outcome, cost, free, total, exceeded, run>>

Unhealthy(q) ==
  /\ at[q] = "checking" /\ LoopIsFree
  /\ NextProvider(q)
  /\ UNCHANGED <<providers, calls, outcome, cost, free, total, exceeded, run>>

\* observe returns a response with success.
Answers(q) ==
  /\ at[q] = "asking" /\ LoopIsFree
  /\ \E c \in Costs : Charge(q, c)
  /\ PassSlot(q)
  /\ UNCHANGED <<providers, turn, calls, run>>

\* The cost is counted before the response is parsed.
AnswersNothingCharged(q) ==
  /\ at[q] = "asking" /\ LoopIsFree
  /\ outcome' = [outcome EXCEPT ![q] = "raised"]
  /\ \E c \in Costs : total' = total + c
  /\ exceeded' = (exceeded \/ total' >= Cap)
  /\ PassSlot(q)
  /\ UNCHANGED <<providers, turn, calls, cost, run>>

\* The response has no text: parsing it raises, after the provider answered
\* and before its cost is counted.
AnswersNothing(q) ==
  /\ at[q] = "asking" /\ LoopIsFree
  /\ outcome' = [outcome EXCEPT ![q] = "raised"]
  /\ PassSlot(q)
  /\ UNCHANGED <<providers, turn, calls, cost, total, exceeded, run>>

\* A refusal that a retry would not change.
RefusedForGood(q) ==
  /\ at[q] = "asking" /\ LoopIsFree
  /\ NextProvider(q)
  /\ UNCHANGED <<providers, calls, outcome, cost, free, total, exceeded, run>>

\* The comparison that is off by one.
FailsForNowOnceMore(q) ==
  /\ at[q] = "asking" /\ LoopIsFree
  /\ IF calls[q][turn[q]] <= MaxRetries
     THEN at' = [at EXCEPT ![q] = "backoff"] /\ UNCHANGED turn
     ELSE NextProvider(q)
  /\ UNCHANGED <<providers, calls, outcome, cost, free, total, exceeded, run>>

\* A failure of the provider, or its timeout: wait and retry, but not after
\* the last call.
FailsForNow(q) ==
  /\ at[q] = "asking" /\ LoopIsFree
  /\ IF calls[q][turn[q]] < MaxRetries
     THEN at' = [at EXCEPT ![q] = "backoff"] /\ UNCHANGED turn
     ELSE NextProvider(q)
  /\ UNCHANGED <<providers, calls, outcome, cost, free, total, exceeded, run>>

BackoffEnds(q) ==
  /\ at[q] = "backoff" /\ LoopIsFree
  /\ at' = [at EXCEPT ![q] = "asking"]
  /\ calls' = [calls EXCEPT ![q][turn[q]] = @ + 1]
  /\ UNCHANGED <<providers, turn, outcome, cost, free, total, exceeded, run>>

-----------------------------------------------------------------------------
(* The end of the run. *)

AllDone == \A q \in Questions : at[q] = "done"

\* The results in the order of the questions, as gather returns them.
Results == [i \in Questions |-> [question |-> i, outcome |-> outcome[i]]]

\* What the results add up to, one after the other.
Added(w) ==
  LET upTo[n \in 0..N] == IF n = 0 THEN 0 ELSE upTo[n - 1] + w[n]
  IN  upTo[N]

\* The usage add_result adds up: that of the answered results.
Charged == [q \in Questions |-> IF outcome[q] = "answered" THEN cost[q] ELSE 0]
Usage == Added(Charged)

\* The status by the two counters that add_result keeps.
StatusByCounts(answered, failed) ==
  IF failed = 0 THEN "completed" ELSE IF answered > 0 THEN "partial" ELSE "failed"

\* What the cost cap does to a run that is about to be returned.
CapApplied(r) ==
  IF exceeded
  THEN [r EXCEPT !.errors = @ \cup {"cost_limit"},
                 !.status = IF @ = "failed" THEN @ ELSE "partial"]
  ELSE r

\* gather returns and add_result is called for each result.
Collect ==
  /\ Running /\ AllDone
  /\ LET answered == Cardinality(Having("answered"))
         failed == Cardinality(Having("refused"))
     IN run' = CapApplied(
          [status |-> StatusByCounts(answered, failed), results |-> Results,
           answered |-> answered, failed |-> failed, usage |-> Usage,
           errors |-> IF Having("raised") = {} THEN {} ELSE {"exception"}])
  /\ UNCHANGED <<providers, at, turn, calls, outcome, cost, free, total, exceeded>>

\* wait_for cancels the gather, and with it every coroutine that has not
\* ended; the results of the others are not looked at.
Timeout ==
  /\ Running /\ ~AllDone /\ LoopIsFree
  /\ at' = [q \in Questions |-> IF at[q] = "done" THEN "done" ELSE "cancelled"]
  /\ free' = Slots
  /\ run' = CapApplied(EmptyRun("partial", {"timeout"}))
  /\ UNCHANGED <<providers, turn, calls, outcome, cost, total, exceeded>>

Step(q) ==
  \/ Enter(q) \/ Resume(q) \/ TryProvider(q)
  \/ Healthy(q) \/ Unhealthy(q)
  \/ Answers(q) \/ AnswersNothing(q) \/ RefusedForGood(q) \/ FailsForNow(q)
  \/ BackoffEnds(q)

RunNext == (\E q \in Questions : Step(q)) \/ Collect \/ Timeout

RunSpec == RunInit /\ [][RunNext]_runVars

\* The loop runs what is ready, a call to a provider ends by its own timeout
\* at the latest, and sleeps end.  Nothing is asked of the total timeout.
FairRunSpec == RunSpec /\ (\A q \in Questions : WF_runVars(Step(q))) /\ WF_runVars(Collect)

-----------------------------------------------------------------------------
(* Properties. *)

\* Type correctness.
RunTypeOK ==
  /\ providers \in ProviderPairs
  /\ at \in [Questions -> Places]
  /\ turn \in [Questions -> 1..3]
  /\ calls \in [Questions -> [1..2 -> Nat]]
  /\ outcome \in [Questions -> Outcomes]
  /\ cost \in [Questions -> Nat]
  /\ free \in Nat
  /\ total \in Nat
  /\ exceeded \in BOOLEAN
  /\ run.status \in {"in_progress", "completed", "partial", "failed"}
  /\ run.errors \subseteq {"timeout", "cost_limit", "exception"}

\* No slot of the semaphore is lost or doubled, however a question ends, and
\* nobody waits beside a free slot (process_request).
NoSlotLost ==
  /\ free + Cardinality(Holding) = Slots
  /\ Waiting # {} => free = 0

\* For one question a provider is called at most max_retries times, the
\* fallback only after the primary was given up, and a question is answered
\* by the provider it had reached (_observe_with_retry).
RetriesThenFailover ==
  \A q \in Questions :
    /\ \A p \in 1..2 : calls[q][p] <= MaxRetries
    /\ calls[q][2] > 0 => turn[q] >= 2
    /\ outcome[q] = "failed" => turn[q] = 3
    /\ outcome[q] \in {"answered", "raised"} => turn[q] < 3 /\ calls[q][turn[q]] > 0

\* Unless the run timed out, it has one result for each question, in the
\* order of the questions, and none without an outcome (run_observation).
OneResultPerQuestion ==
  ~Running /\ "timeout" \notin run.errors =>
    /\ DOMAIN run.results = Questions
    /\ \A i \in Questions :
         run.results[i].question = i /\ run.results[i].outcome \notin {"none", "refused"}

\* A run says that the cap was reached exactly if what was spent on its
\* answers reached it, whether it ended or timed out; then it is partial.
CapIsReported ==
  ~Running =>
    /\ "cost_limit" \in run.errors <=> total >= Cap
    /\ "cost_limit" \in run.errors => run.status = "partial"

\* Unless the run timed out, the usage in it is what the cap was checked with.
SpendIsReported ==
  ~Running /\ "timeout" \notin run.errors => run.usage = total

\* Once the run was returned no coroutine of it calls a provider or spends:
\* a late answer finds its coroutine cancelled (wait_for).
NothingAfterReturn == [][~Running => UNCHANGED runVars]_runVars

\* Every run is returned, even if the total timeout never fires: no failure
\* of a provider leaves a waiter behind.
RunReturns == <>(~Running)

=============================================================================
