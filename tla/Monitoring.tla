----------------------------- MODULE Monitoring -----------------------------
(***************************************************************************)
(* The monitoring chain of one site: users enable and disable monitoring   *)
(* and take manual snapshots (api/routers/monitoring.py), rq-scheduler      *)
(* releases due jobs, a worker runs the snapshot job, which audits the      *)
(* site, saves a snapshot and schedules its own successor                   *)
(* (worker/tasks/monitoring.py, worker/scheduler.py).                       *)
(*                                                                         *)
(* Every await of a handler that crosses a session or talks to Redis is a   *)
(* step of its own.  A database row is read in one step and written in a    *)
(* later one: an UPDATE of a row deleted in between matches no row and      *)
(* raises, an INSERT of a second schedule runs into the unique site_id.     *)
(*                                                                         *)
(* Time is relative.  A slot is a number of ticks from now, and TimePasses  *)
(* moves each one nearer, so the model needs no bound on time.  A job id is  *)
(* snapshot_{site}_{run_at}: two jobs for one slot are one job.             *)
(***************************************************************************)
EXTENDS Integers, FiniteSets

CONSTANTS
  Users,        \* the people whose requests reach the API
  Worker,       \* the worker of the low-priority queue
  Period,       \* ticks from a slot to the same slot of the next period
  Hours,        \* the slots of a period a user can choose from
  MaxUserRequests,  \* bound: requests the users make
  MaxFaults   \* bound: failures of Redis, of audits and of the worker

ASSUME MonitoringAssumption ==
  /\ Worker \notin Users
  /\ Period \in Nat \ {0}
  /\ Hours \subseteq 1..(Period - 1)
  /\ Hours # {}
  /\ MaxUserRequests \in Nat
  /\ MaxFaults \in Nat

VARIABLES
  frequency,  \* "weekly" or "monthly", by the plan of the site's owner
  phase,      \* how far the current period has gone
  enabled,    \* sites.monitoring_enabled
  sched,      \* the row of monitoring_schedules, or NoSchedule
  timers,     \* the slots with a job in rq-scheduler
  queue,      \* the number of snapshot jobs waiting in the low queue
  act,        \* what each user and the worker is in the middle of
  broken,     \* since monitoring was last scheduled something failed, or an
              \* enabling request was answered with an error (history)
  requests,   \* requests so far
  failures    \* failures so far

chainVars == <<frequency, phase, enabled, sched, timers, queue, act, broken, requests, failures>>

Frequencies == {"weekly", "monthly"}
NoSlot == 2 * Period + 1     \* no slot is that far away
Long == 0 - Period           \* a slot this far in the past is just past
Slots == Long..(2 * Period)

NoSchedule == [on |-> FALSE, hour |-> 0, next |-> NoSlot, job |-> NoSlot]
Row(hour, next, job) == [on |-> TRUE, hour |-> hour, next |-> next, job |-> job]

Actors == Users \cup {Worker}
EnableSteps == {"enRead", "enCommit", "enSchedule", "enJob"}
DisableSteps == {"disRead", "disCancel", "disCommit"}
SnapshotSteps == {"audit", "saveRead", "save", "plan", "job", "fail"}

\* row: what the actor knows of the schedule row; "gone" once it is deleted.
\* wrote: its UPDATE of the row would change something; wasOn: it read the
\* site as enabled.  ticked: it has seen a tick.
Idle == [pc |-> "idle", hour |-> 0, slot |-> NoSlot, old |-> NoSlot,
         row |-> "none", wrote |-> FALSE, wasOn |-> FALSE, ticked |-> FALSE]

\* calculate_next_run.  Weekly: the next time the chosen hour comes.  Monthly:
\* the chosen slot of the next period, even when this period's is yet to come.
NextRun(hour) ==
  IF frequency = "weekly" /\ phase < hour THEN hour - phase
                                          ELSE hour - phase + Period

Nearer(slot) == IF slot \in {NoSlot, Long} THEN slot ELSE slot - 1

ChainInit ==
  /\ frequency \in Frequencies
  /\ phase = 0
  /\ enabled = FALSE
  /\ sched = NoSchedule
  /\ timers = {}
  /\ queue = 0
  /\ act = [a \in Actors |-> Idle]
  /\ broken = FALSE
  /\ requests = 0
  /\ failures = 0

At(a, pc) == act[a].pc = pc
GoTo(a, pc) == act' = [act EXCEPT ![a].pc = pc]
Done(a) == act' = [act EXCEPT ![a] = Idle]
Request(u) == At(u, "idle") /\ requests < MaxUserRequests /\ requests' = requests + 1
RowNow == IF sched.on THEN "live" ELSE "none"

\* A fault: Redis refuses, the audit fails, the worker is killed.
Fault ==
  /\ failures < MaxFaults
  /\ failures' = failures + 1
  /\ broken' = TRUE
NoFault == UNCHANGED <<broken, failures>>

-----------------------------------------------------------------------------
\* enable_site_monitoring, enable_monitoring

\* The router checks the site in the session of the request.
EnableCheck(u, hour) ==
  /\ Request(u)
  /\ ~enabled
  /\ act' = [act EXCEPT ![u] = [Idle EXCEPT !.pc = "enRead", !.hour = hour]]
  /\ UNCHANGED <<frequency, phase, enabled, sched, timers, queue, broken, failures>>

\* enable_monitoring reads the site and the schedule in a session of its own.
\* Assigning the value a column already has makes no UPDATE.
EnableRead(u) ==
  /\ At(u, "enRead")
  /\ LET next == NextRun(act[u].hour) IN
     act' = [act EXCEPT ![u] =
               [@ EXCEPT !.pc = "enCommit", !.slot = next, !.row = RowNow, !.wasOn = enabled,
                         !.wrote = IF sched.hour = act[u].hour /\ sched.next = next
                                   THEN FALSE ELSE TRUE]]
  /\ UNCHANGED <<frequency, phase, enabled, sched, timers, queue, broken, requests, failures>>

\* The INSERT of a second row and the UPDATE of a deleted one raise, and the
\* whole transaction is rolled back.
CommitRefused(u) ==
  \/ act[u].row = "none" /\ sched.on
  \/ act[u].row = "gone" /\ act[u].wrote

EnableCommit(u) ==
  /\ At(u, "enCommit")
  /\ IF CommitRefused(u)
     THEN Done(u) /\ UNCHANGED <<enabled, sched>>
     ELSE /\ enabled' = (enabled \/ ~act[u].wasOn)
          /\ sched' = IF act[u].row = "gone" THEN sched
                      ELSE Row(act[u].hour, act[u].slot, sched.job)
          /\ act' = [act EXCEPT ![u].pc = "enSchedule",
                                ![u].row = IF @ = "gone" THEN @ ELSE "live"]
  /\ UNCHANGED <<frequency, phase, timers, queue, broken, requests, failures>>

\* The refresh of the row fails when the row is gone; then the job is put
\* into rq-scheduler, which Redis may refuse.
EnableSchedule(u) ==
  /\ At(u, "enSchedule")
  /\ \/ /\ act[u].row = "gone"
        /\ broken' = TRUE /\ UNCHANGED failures
        /\ Done(u) /\ UNCHANGED timers
     \/ /\ act[u].row = "live"
        /\ timers' = timers \cup {act[u].slot}
        /\ act' = [act EXCEPT ![u].pc = "enJob", ![u].old = sched.job]
        /\ broken' = FALSE
        /\ UNCHANGED failures
     \/ /\ act[u].row = "live"
        /\ Fault /\ Done(u) /\ UNCHANGED timers
  /\ UNCHANGED <<frequency, phase, enabled, sched, queue, requests>>

\* schedule.scheduler_job_id = job.id: no UPDATE when the id is the old one,
\* an error when the row is gone, otherwise the row names the new job.
StoreJob(a) ==
  sched' = IF sched.on /\ act[a].row = "live" /\ act[a].slot # act[a].old
           THEN [sched EXCEPT !.job = act[a].slot] ELSE sched

EnableJob(u) ==
  /\ At(u, "enJob")
  /\ StoreJob(u)
  /\ Done(u)
  /\ UNCHANGED <<frequency, phase, enabled, timers, queue, broken, requests, failures>>

-----------------------------------------------------------------------------
\* disable_site_monitoring, disable_monitoring

DisableCheck(u) ==
  /\ Request(u)
  /\ enabled
  /\ act' = [act EXCEPT ![u] = [Idle EXCEPT !.pc = "disRead"]]
  /\ UNCHANGED <<frequency, phase, enabled, sched, timers, queue, broken, failures>>

DisableRead(u) ==
  /\ At(u, "disRead")
  /\ act' = [act EXCEPT ![u] =
               [@ EXCEPT !.pc = IF sched.job = NoSlot THEN "disCommit" ELSE "disCancel",
                         !.row = RowNow, !.old = sched.job]]
  /\ UNCHANGED <<frequency, phase, enabled, sched, timers, queue, broken, requests, failures>>

\* cancel_scheduled_snapshot looks through the scheduled jobs only, not
\* through the queue, and swallows an error.
DisableCancel(u) ==
  /\ At(u, "disCancel")
  /\ GoTo(u, "disCommit")
  /\ \/ timers' = timers \ {act[u].old} /\ NoFault
     \/ Fault /\ UNCHANGED timers
  /\ UNCHANGED <<frequency, phase, enabled, sched, queue, requests>>

\* The DELETE takes the row the request read, if it is still there.  Whoever
\* read the row holds a row that is gone.
DisableCommit(u) ==
  /\ At(u, "disCommit")
  /\ enabled' = FALSE
  /\ IF act[u].row = "live"
     THEN /\ sched' = NoSchedule
          /\ act' = [a \in Actors |->
                       IF a = u THEN Idle
                       ELSE IF act[a].row = "live" THEN [act[a] EXCEPT !.row = "gone"]
                       ELSE act[a]]
     ELSE Done(u) /\ UNCHANGED sched
  /\ UNCHANGED <<frequency, phase, timers, queue, broken, requests, failures>>

-----------------------------------------------------------------------------
\* run_snapshot, by the worker for a job or by the API for a user

\* A job of a site whose monitoring is disabled is skipped, and so is a
\* manual snapshot.
Begin(a) ==
  act' = [act EXCEPT ![a] = IF enabled THEN [Idle EXCEPT !.pc = "audit"] ELSE Idle]

\* Mutant: the job of a disabled site goes back into the queue.
TakeJobRequeues ==
  /\ At(Worker, "idle")
  /\ queue > 0
  /\ queue' = IF enabled THEN queue - 1 ELSE queue
  /\ Begin(Worker)
  /\ UNCHANGED <<frequency, phase, enabled, sched, timers, broken, requests, failures>>

TakeJob ==
  /\ At(Worker, "idle")
  /\ queue > 0
  /\ queue' = queue - 1
  /\ Begin(Worker)
  /\ UNCHANGED <<frequency, phase, enabled, sched, timers, broken, requests, failures>>

ManualSnapshot(u) ==
  /\ Request(u)
  /\ enabled
  /\ Begin(u)
  /\ UNCHANGED <<frequency, phase, enabled, sched, timers, queue, broken, failures>>

Audit(a) ==
  /\ At(a, "audit")
  /\ \/ GoTo(a, "saveRead") /\ NoFault
     \/ GoTo(a, "fail") /\ Fault
  /\ UNCHANGED <<frequency, phase, enabled, sched, timers, queue, requests>>

\* The schedule is read and its next run computed.
SaveRead(a) ==
  /\ At(a, "saveRead")
  /\ act' = [act EXCEPT ![a] =
               [@ EXCEPT !.pc = "save", !.row = RowNow,
                         !.slot = IF sched.on THEN NextRun(sched.hour) ELSE NoSlot]]
  /\ UNCHANGED <<frequency, phase, enabled, sched, timers, queue, broken, requests, failures>>

\* The commit of the snapshot and of last_run_at, last_run_status, next_run_at.
SaveSnapshot(a) ==
  /\ At(a, "save")
  /\ GoTo(a, IF act[a].row = "gone" THEN "fail" ELSE "plan")
  /\ sched' = IF act[a].row = "live" THEN [sched EXCEPT !.next = act[a].slot] ELSE sched
  /\ UNCHANGED <<frequency, phase, enabled, timers, queue, broken, requests, failures>>

\* Mutant: nothing is scheduled when the row already names a job.
PlanOnce(a) ==
  /\ At(a, "plan")
  /\ IF enabled /\ sched.on /\ sched.job = NoSlot
     THEN /\ timers' = timers \cup {sched.next}
          /\ act' = [act EXCEPT ![a].pc = "job", ![a].row = "live",
                                ![a].slot = sched.next, ![a].old = sched.job]
     ELSE Done(a) /\ UNCHANGED timers
  /\ UNCHANGED <<frequency, phase, enabled, sched, queue, broken, requests, failures>>

\* The site and the schedule are read again, and the successor is scheduled
\* if both still ask for it.  What follows (alerts) does not touch the chain.
Plan(a) ==
  /\ At(a, "plan")
  /\ \/ /\ ~(enabled /\ sched.on)
        /\ Done(a) /\ NoFault /\ UNCHANGED timers
     \/ /\ enabled /\ sched.on
        /\ timers' = timers \cup {sched.next}
        /\ act' = [act EXCEPT ![a].pc = "job", ![a].row = "live",
                              ![a].slot = sched.next, ![a].old = sched.job]
        /\ NoFault
     \/ /\ enabled /\ sched.on
        /\ Fault /\ GoTo(a, "fail") /\ UNCHANGED timers
  /\ UNCHANGED <<frequency, phase, enabled, sched, queue, requests>>

PlanJob(a) ==
  /\ At(a, "job")
  /\ StoreJob(a)
  /\ IF act[a].row = "gone" /\ act[a].slot # act[a].old THEN GoTo(a, "fail") ELSE Done(a)
  /\ UNCHANGED <<frequency, phase, enabled, timers, queue, broken, requests, failures>>

\* The handler of an exception notes the failure and schedules nothing.
NoteFailure(a) ==
  /\ At(a, "fail")
  /\ Done(a)
  /\ UNCHANGED <<frequency, phase, enabled, sched, timers, queue, broken, requests, failures>>

\* The process of the job is killed, by its timeout or with the machine.
JobKilled ==
  /\ ~At(Worker, "idle")
  /\ Fault
  /\ Done(Worker)
  /\ UNCHANGED <<frequency, phase, enabled, sched, timers, queue, requests>>

-----------------------------------------------------------------------------
\* Mutant: a due job is taken from the scheduler and not queued.
ReleaseLoses(slot) ==
  /\ slot \in timers
  /\ slot <= 0
  /\ timers' = timers \ {slot}
  /\ UNCHANGED <<frequency, phase, enabled, sched, queue, act, broken, requests, failures>>

\* run_scheduler_tick: a due job goes into the queue.
Release(slot) ==
  /\ slot \in timers
  /\ slot <= 0
  /\ timers' = timers \ {slot}
  /\ queue' = queue + 1
  /\ UNCHANGED <<frequency, phase, enabled, sched, act, broken, requests, failures>>

\* Time passes.  The scheduler looks every minute and the worker takes a job
\* well within a tick, and no request or audit lasts longer than a tick.
TimePasses ==
  /\ \A slot \in timers : slot > 0
  /\ \A a \in Actors : ~act[a].ticked
  /\ queue = 0
  /\ phase' = IF phase = Period - 1 THEN 0 ELSE phase + 1
  /\ timers' = {Nearer(slot) : slot \in timers}
  /\ sched' = [sched EXCEPT !.next = Nearer(@), !.job = Nearer(@)]
  /\ act' = [a \in Actors |->
               IF act[a].pc = "idle" THEN Idle
               ELSE [act[a] EXCEPT !.slot = Nearer(@), !.old = Nearer(@), !.ticked = TRUE]]
  /\ UNCHANGED <<frequency, enabled, queue, broken, requests, failures>>

\* The owner changes plan (billing); nothing reschedules the site.
ChangePlan ==
  /\ frequency' \in Frequencies \ {frequency}
  /\ UNCHANGED <<phase, enabled, sched, timers, queue, act, broken, requests, failures>>

ChainStep(a) ==
  Audit(a) \/ SaveRead(a) \/ SaveSnapshot(a) \/ Plan(a) \/ PlanJob(a) \/ NoteFailure(a)

RequestStep(u) ==
  \/ EnableRead(u) \/ EnableCommit(u) \/ EnableSchedule(u) \/ EnableJob(u)
  \/ DisableRead(u) \/ DisableCancel(u) \/ DisableCommit(u)

ChainNext ==
  \/ \E u \in Users : \/ \E hour \in Hours : EnableCheck(u, hour)
                      \/ DisableCheck(u)
                      \/ ManualSnapshot(u)
                      \/ RequestStep(u)
  \/ \E a \in Actors : ChainStep(a)
  \/ TakeJob
  \/ JobKilled
  \/ \E slot \in Slots : Release(slot)
  \/ TimePasses
  \/ ChangePlan

ChainSpec == ChainInit /\ [][ChainNext]_chainVars

\* A request or audit that has begun goes on, the worker takes jobs, the
\* scheduler runs and time passes.  No user has to do anything.
Fairness ==
  /\ \A u \in Users : WF_chainVars(RequestStep(u))
  /\ \A a \in Actors : WF_chainVars(ChainStep(a))
  /\ WF_chainVars(TakeJob)
  /\ WF_chainVars(\E slot \in Slots : Release(slot))
  /\ WF_chainVars(TimePasses)

FairChainSpec == ChainSpec /\ Fairness

-----------------------------------------------------------------------------
ChainTypeOK ==
  /\ frequency \in Frequencies
  /\ phase \in 0..(Period - 1)
  /\ enabled \in BOOLEAN
  /\ sched \in [on : BOOLEAN, hour : Hours \cup {0}, next : Slots \cup {NoSlot},
                job : Slots \cup {NoSlot}]
  /\ timers \subseteq Slots
  /\ queue \in Nat
  /\ act \in [Actors -> [pc : {"idle"} \cup EnableSteps \cup DisableSteps \cup SnapshotSteps,
                         hour : Hours \cup {0}, slot : Slots \cup {NoSlot},
                         old : Slots \cup {NoSlot}, row : {"none", "live", "gone"},
                         wrote : BOOLEAN, wasOn : BOOLEAN, ticked : BOOLEAN]]
  /\ broken \in BOOLEAN
  /\ requests \in 0..MaxUserRequests
  /\ failures \in 0..MaxFaults

\* While monitoring is on and nothing has failed since it was scheduled, the
\* chain is never cut: a job is scheduled, waiting or being run by an actor that
\* has yet to schedule its successor, or a request in progress is about to
\* schedule one or to switch monitoring off.
Unplanned == {"audit", "saveRead", "save", "plan"}
ChainAlive ==
  enabled /\ ~broken =>
    \/ timers # {}
    \/ queue > 0
    \/ \E a \in Actors : act[a].pc \in Unplanned \cup {"enSchedule", "disCommit"}

\* Once monitoring stays off, jobs left behind by requests that crossed are
\* used up and none is scheduled again.
GoesQuiet == <>[](~enabled) => <>[](timers = {} /\ queue = 0)

\* Once monitoring stays on and nothing fails, snapshots are taken for ever.
KeepsMonitoring ==
  <>[](enabled /\ ~broken) => []<>(\E a \in Actors : act[a].pc = "plan")

=============================================================================
