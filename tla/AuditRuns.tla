------------------------------ MODULE AuditRuns ------------------------------
(***************************************************************************)
(* The life of an audit run: the API handlers that create and cancel runs, *)
(* the row in the `runs` table with its optimistic-lock version, the job   *)
(* in the RQ queue, and the workers that execute the audit pipeline and    *)
(* write their status to the row.                                          *)
(*                                                                         *)
(* A database transaction is one step at the point where its effect        *)
(* becomes visible (its COMMIT); what it read earlier is kept in `seen`.   *)
(* A call to Redis is a step of its own.  Between any two steps every      *)
(* other client and worker may move.                                       *)
(***************************************************************************)
EXTENDS Integers, FiniteSets

CONSTANTS
  Sites,             \* sites of the users
  PublicSite,        \* stands for the sites of the public user: nothing in the
                     \* code asks for the runs of one of them
  Runs,              \* primary keys available for rows of `runs`
  Clients,           \* API requests that can be in flight together
  Workers,           \* RQ workers
  NoSite, NoRun,     \* null values
  MaxCancels,        \* bound: requests that cancel a run
  MaxJobDeletes,     \* bound: requests that cancel a job behind its run
  MaxCrashes,        \* bound: workers killed in the middle of a job
  MaxApiFailures     \* bound: calls to Redis or COMMITs of the API that fail

ASSUME NullAssumption ==
  /\ NoSite \notin Sites /\ NoRun \notin Runs
  /\ PublicSite \notin Sites /\ PublicSite # NoSite

ASSUME BoundAssumption ==
  MaxCancels \in Nat /\ MaxJobDeletes \in Nat /\ MaxCrashes \in Nat /\ MaxApiFailures \in Nat

VARIABLES
  row,        \* the `runs` table: one record per primary key
  reports,    \* how many rows of `reports` the pipeline stored for a run
  job,        \* status in Redis of the job audit-<run id>
  req,        \* the API request each client has in flight
  wk,         \* what each worker is executing
  cancelled,  \* history: runs whose cancellation was committed
  crashed,    \* history: runs whose worker was killed
  executed,   \* history: runs a worker has taken up
  cancels, jobDeletes, crashes, apiFailures  \* counters against the bounds

history == <<cancelled, crashed, executed>>

counters == <<cancels, jobDeletes, crashes, apiFailures>>

vars == <<row, reports, job, req, wk, cancelled, crashed, executed,
          cancels, jobDeletes, crashes, apiFailures>>

-----------------------------------------------------------------------------
(* The pipeline: the status writes of run_audit, numbered in the order they *)
(* are made.  Before each of them there is work that may raise.             *)

Pipeline ==
  <<"technical_check", "technical_check",
    "crawling", "crawling",
    "extracting", "extracting",
    "structure_analysis", "structure_analysis",
    "schema_analysis", "schema_analysis",
    "authority_analysis", "authority_analysis",
    "entity_recognition", "entity_recognition",
    "chunking", "chunking",
    "embedding", "embedding",
    "generating_questions", "generating_questions",
    "simulating", "simulating",
    "observing", "observing",
    "scoring", "generating_fixes", "assembling",
    "complete", "failed">>

FirstObserving == 23
AfterObserving == 25
SaveStep == 28                \* the transaction that stores the report
FailStep == 29                \* the `except` handler of run_audit

Steps == 1..FailStep
StatusOf(k) == Pipeline[k]

\* The second write of the optional analyses is made inside their own `try`:
\* an exception there is logged and the audit goes on.
Guarded(k) == k \in {2, 8, 10, 12, 14, 24}

\* The writes that pass a non-empty progress dict.
ReportsProgress(k) == k \in 1..24 \ {19}

ActiveStatuses ==
  {"queued", "crawling", "extracting", "chunking", "embedding",
   "simulating", "observing", "assembling"}

TerminalStatuses == {"complete", "failed"}

PipelineStatuses ==
  {"technical_check", "crawling", "extracting", "structure_analysis",
   "schema_analysis", "authority_analysis", "entity_recognition", "chunking",
   "embedding", "generating_questions", "simulating", "observing", "scoring",
   "generating_fixes", "assembling"}

Statuses == {"queued"} \cup PipelineStatuses \cup TerminalStatuses

\* The progress column: NULL, the dict create_run stores, or the dict a
\* pipeline write stored, named by its step.
NoProgress == -1
InitialProgress == 0

AbsentRow ==
  [state |-> "absent", site |-> NoSite, origin |-> "api", status |-> "queued",
   version |-> 0, report |-> FALSE, progress |-> NoProgress]

\* A row as it is committed first; versions are counted from there.  Its
\* origin is the handler that made it: only "api" rows carry their job id.
NewRow(s, state, origin, progress) ==
  [state |-> state, site |-> s, origin |-> origin, status |-> "queued",
   version |-> 1, report |-> FALSE, progress |-> progress]

Visible(r) == row[r].state = "committed"

\* A primary key never used: uuid4 values are fresh.
Fresh(r) == row[r].state = "absent" /\ job[r] = "none"

\* What a session remembers of the row it loaded.
Snapshot(r) ==
  [status |-> row[r].status, version |-> row[r].version,
   progress |-> row[r].progress]

NothingSeen == [status |-> "queued", version |-> 0, progress |-> NoProgress]

IdleReq == [pc |-> "idle", run |-> NoRun, site |-> NoSite, seen |-> NothingSeen]
IdleWk  == [pc |-> "idle", run |-> NoRun, step |-> 1, attempt |-> 0,
            seen |-> NothingSeen]

Init ==
  /\ row = [r \in Runs |-> AbsentRow]
  /\ reports = [r \in Runs |-> 0]
  /\ job = [r \in Runs |-> "none"]
  /\ req = [c \in Clients |-> IdleReq]
  /\ wk = [w \in Workers |-> IdleWk]
  /\ cancelled = {}
  /\ crashed = {}
  /\ executed = {}
  /\ cancels = 0 /\ jobDeletes = 0 /\ crashes = 0 /\ apiFailures = 0

-----------------------------------------------------------------------------
(* POST /sites/{site}/runs, by the API or by the form of the web pages *)

ActiveRuns(s) ==
  {r \in Runs : Visible(r) /\ row[r].site = s /\ row[r].status \in ActiveStatuses}

\* get_active_run found nothing; any active run (409), or more than one
\* (MultipleResultsFound, 500), ends the request and changes nothing.
CreateCheck(c, s) ==
  /\ req[c].pc = "idle"
  /\ ActiveRuns(s) = {}
  /\ req' = [req EXCEPT ![c] = [IdleReq EXCEPT !.pc = "insert", !.site = s]]
  /\ UNCHANGED <<row, reports, job, wk, history, counters>>

\* The row is flushed, not committed, and the job is in the queue.
CreateEnqueue(c, r) ==
  /\ req[c].pc = "insert"
  /\ Fresh(r)
  /\ row' = [row EXCEPT
               ![r] = NewRow(req[c].site, "pending", "api", InitialProgress)]
  /\ job' = [job EXCEPT ![r] = "queued"]
  /\ req' = [req EXCEPT ![c].pc = "commit", ![c].run = r]
  /\ UNCHANGED <<reports, wk, history, counters>>

\* Redis refuses the job of an API request: the INSERT is rolled back.
CreateEnqueueFails(c) ==
  /\ req[c].pc = "insert"
  /\ apiFailures < MaxApiFailures
  /\ apiFailures' = apiFailures + 1
  /\ req' = [req EXCEPT ![c] = IdleReq]
  /\ UNCHANGED <<row, reports, job, wk, history, cancels, jobDeletes, crashes>>

\* Redis refuses the job of a web form: the handler catches the exception and
\* the row is committed as failed.
WebEnqueueFails(c, r) ==
  /\ req[c].pc = "insert"
  /\ Fresh(r)
  /\ apiFailures < MaxApiFailures
  /\ apiFailures' = apiFailures + 1
  /\ row' = [row EXCEPT ![r] =
       [NewRow(req[c].site, "committed", "api", InitialProgress)
          EXCEPT !.status = "failed"]]
  /\ req' = [req EXCEPT ![c] = IdleReq]
  /\ UNCHANGED <<reports, job, wk, history, cancels, jobDeletes, crashes>>

CreateCommit(c) ==
  /\ req[c].pc = "commit"
  /\ row' = [row EXCEPT ![req[c].run].state = "committed"]
  /\ req' = [req EXCEPT ![c] = IdleReq]
  /\ UNCHANGED <<reports, job, wk, history, counters>>

\* The COMMIT of get_db fails: the row is gone, the job is not.
CreateCommitFails(c) ==
  /\ req[c].pc = "commit"
  /\ apiFailures < MaxApiFailures
  /\ apiFailures' = apiFailures + 1
  /\ row' = [row EXCEPT ![req[c].run] = AbsentRow]
  /\ req' = [req EXCEPT ![c] = IdleReq]
  /\ UNCHANGED <<reports, job, wk, history, cancels, jobDeletes, crashes>>

-----------------------------------------------------------------------------
(* POST /public/audit and its form: the row is committed first, without a job *)
(* id or progress, and nobody looks for an active run of the domain.          *)

PublicCommit(c, r) ==
  /\ req[c].pc = "idle"
  /\ Fresh(r)
  /\ row' = [row EXCEPT ![r] = NewRow(PublicSite, "committed", "public", NoProgress)]
  /\ req' = [req EXCEPT ![c] = [IdleReq EXCEPT !.pc = "enqueue", !.run = r]]
  /\ UNCHANGED <<reports, job, wk, history, counters>>

PublicEnqueue(c) ==
  /\ req[c].pc = "enqueue"
  /\ job' = [job EXCEPT ![req[c].run] = "queued"]
  /\ req' = [req EXCEPT ![c] = IdleReq]
  /\ UNCHANGED <<row, reports, wk, history, counters>>

\* A 503, or for the form a page that waits for progress: the row stays.
PublicEnqueueFails(c) ==
  /\ req[c].pc = "enqueue"
  /\ apiFailures < MaxApiFailures
  /\ apiFailures' = apiFailures + 1
  /\ req' = [req EXCEPT ![c] = IdleReq]
  /\ UNCHANGED <<row, reports, job, wk, history, cancels, jobDeletes, crashes>>

-----------------------------------------------------------------------------
(* DELETE /sites/{site}/runs/{run} and DELETE /jobs/{job} *)

\* Mutant of Cancellable: a run that has ended can be cancelled again.
CancellableAlways(r) == TRUE

Cancellable(r) == row[r].status \notin TerminalStatuses

CancelRead(c, r) ==
  /\ req[c].pc = "idle"
  /\ cancels < MaxCancels
  /\ Visible(r) /\ row[r].origin # "public"     \* get_run: the user's own site
  /\ Cancellable(r)
  /\ cancels' = cancels + 1
  /\ req' = [req EXCEPT ![c] = [IdleReq EXCEPT
       !.pc = IF row[r].origin = "api" THEN "checkJob" ELSE "markFailed",
       !.run = r, !.seen = Snapshot(r)]]
  /\ UNCHANGED <<row, reports, job, wk, history, jobDeletes, crashes, apiFailures>>

\* DELETE /jobs goes through the queue alone: it never opens the run.
JobDeleteStart(c, r) ==
  /\ req[c].pc = "idle"
  /\ jobDeletes < MaxJobDeletes
  /\ job[r] # "none"
  /\ jobDeletes' = jobDeletes + 1
  /\ req' = [req EXCEPT ![c] = [IdleReq EXCEPT !.pc = "checkJobOnly", !.run = r]]
  /\ UNCHANGED <<row, reports, job, wk, history, cancels, crashes, apiFailures>>

\* JobQueue.cancel_job, first call: only a queued job is cancelled.
CheckJob(c) ==
  /\ req[c].pc = "checkJob"
  /\ req' = [req EXCEPT ![c].pc =
       IF job[req[c].run] = "queued" THEN "cancelJob" ELSE "markFailed"]
  /\ UNCHANGED <<row, reports, job, wk, history, counters>>

CheckJobOnly(c) ==
  /\ req[c].pc = "checkJobOnly"
  /\ req' = [req EXCEPT ![c] = IF job[req[c].run] = "queued"
                              THEN [@ EXCEPT !.pc = "cancelJobOnly"] ELSE IdleReq]
  /\ UNCHANGED <<row, reports, job, wk, history, counters>>

\* JobQueue.cancel_job, second call: by now a worker may have started it; RQ
\* then records the job as canceled and the worker goes on.
CancelJob(c) ==
  /\ req[c].pc = "cancelJob"
  /\ job' = [job EXCEPT ![req[c].run] = "canceled"]
  /\ req' = [req EXCEPT ![c].pc = "markFailed"]
  /\ UNCHANGED <<row, reports, wk, history, counters>>

CancelJobOnly(c) ==
  /\ req[c].pc = "cancelJobOnly"
  /\ job' = [job EXCEPT ![req[c].run] = "canceled"]
  /\ req' = [req EXCEPT ![c] = IdleReq]
  /\ UNCHANGED <<row, reports, wk, history, counters>>

\* Mutant of Stale: the model declares no version_id_col.
StaleNever(r, seen) == FALSE

\* UPDATE runs ... WHERE id = :id AND version = :seen matches no row.
Stale(r, seen) == row[r].version # seen.version

CancelCommit(c) ==
  LET r == req[c].run IN
  /\ req[c].pc = "markFailed"
  /\ ~Stale(r, req[c].seen)
  /\ row' = [row EXCEPT ![r].status = "failed", ![r].version = @ + 1]
  /\ cancelled' = cancelled \cup {r}
  /\ req' = [req EXCEPT ![c] = IdleReq]
  /\ UNCHANGED <<reports, job, wk, crashed, executed, counters>>

\* StaleDataError at the flush is answered with a 500: nothing is retried.
CancelStale(c) ==
  /\ req[c].pc = "markFailed"
  /\ Stale(req[c].run, req[c].seen)
  /\ req' = [req EXCEPT ![c] = IdleReq]
  /\ UNCHANGED <<row, reports, job, wk, history, counters>>

CancelCommitFails(c) ==
  /\ req[c].pc = "markFailed"
  /\ apiFailures < MaxApiFailures
  /\ apiFailures' = apiFailures + 1
  /\ req' = [req EXCEPT ![c] = IdleReq]
  /\ UNCHANGED <<row, reports, job, wk, history, cancels, jobDeletes, crashes>>

-----------------------------------------------------------------------------
(* The worker *)

\* RQ hands a queued job to one worker.
Takeable(r) == job[r] = "queued"

TakeJob(w, r) ==
  /\ wk[w].pc = "idle"
  /\ Takeable(r)
  /\ job' = [job EXCEPT ![r] = "started"]
  /\ wk' = [wk EXCEPT ![w] = [IdleWk EXCEPT !.pc = "work", !.run = r]]
  /\ executed' = executed \cup {r}
  /\ UNCHANGED <<row, reports, req, cancelled, crashed, counters>>

\* Mutant of StartSnapshot: a waiting run of the site is executed, if there is
\* one, instead of a run made for the snapshot.
StartSnapshotReuses(w, r, s) ==
  /\ wk[w].pc = "idle"
  /\ Visible(r) /\ row[r].site = s /\ row[r].status = "queued"
  /\ wk' = [wk EXCEPT ![w] = [IdleWk EXCEPT !.pc = "work", !.run = r]]
  /\ executed' = executed \cup {r}
  /\ UNCHANGED <<row, reports, job, req, cancelled, crashed, counters>>

\* run_snapshot commits a run of its own, with no progress and no job id, and
\* calls run_audit in the same job.  It does not look for an active run.
StartSnapshot(w, r, s) ==
  /\ wk[w].pc = "idle"
  /\ Fresh(r)
  /\ row' = [row EXCEPT ![r] = NewRow(s, "committed", "snapshot", NoProgress)]
  /\ wk' = [wk EXCEPT ![w] = [IdleWk EXCEPT !.pc = "work", !.run = r]]
  /\ executed' = executed \cup {r}
  /\ UNCHANGED <<reports, job, req, cancelled, crashed, counters>>

GoTo(w, k) ==
  wk' = [wk EXCEPT ![w] = [IdleWk EXCEPT !.pc = IF k = FailStep THEN "read" ELSE "work",
                                         !.run = wk[w].run, !.step = k]]

WorkDone(w) ==
  /\ wk[w].pc = "work"
  /\ wk' = [wk EXCEPT ![w].pc = "read"]
  /\ UNCHANGED <<row, reports, job, req, history, counters>>

\* The observation is configured per run; a run that is not visible has none.
SkipObserving(w) ==
  /\ wk[w].pc = "work"
  /\ wk[w].step = FirstObserving
  /\ GoTo(w, AfterObserving)
  /\ UNCHANGED <<row, reports, job, req, history, counters>>

\* An exception before the write of step k: swallowed where the code guards
\* the step, otherwise the audit fails.  One raised by the SELECT or the COMMIT
\* of the write itself leaves the same state behind.
AfterException(k) == IF Guarded(k) THEN k + 1 ELSE FailStep

WorkRaises(w) ==
  /\ wk[w].pc = "work"
  /\ GoTo(w, AfterException(wk[w].step))
  /\ UNCHANGED <<row, reports, job, req, history, counters>>

\* The worker lets go of the run; RQ files the job.
Release(w, outcome) ==
  /\ wk' = [wk EXCEPT ![w] = IdleWk]
  /\ job' = [job EXCEPT ![wk[w].run] = IF @ = "none" THEN @ ELSE outcome]

\* What follows update_run_status when it returns or raises.
AfterUpdate(w) ==
  IF wk[w].step = FailStep
  THEN Release(w, "failed")
  ELSE GoTo(w, wk[w].step + 1) /\ UNCHANGED job

AfterUpdateRaises(w) ==
  IF wk[w].step = FailStep
  THEN Release(w, "failed")
  ELSE GoTo(w, AfterException(wk[w].step)) /\ UNCHANGED job

\* SELECT of update_run_status.
ReadRow(w) ==
  /\ wk[w].pc = "read" /\ wk[w].step # SaveStep
  /\ Visible(wk[w].run)
  /\ wk' = [wk EXCEPT ![w].pc = "write", ![w].seen = Snapshot(wk[w].run)]
  /\ UNCHANGED <<row, reports, job, req, history, counters>>

\* "run_not_found" is logged and the update is skipped.
RowMissing(w) ==
  /\ wk[w].pc = "read" /\ wk[w].step # SaveStep
  /\ ~Visible(wk[w].run)
  /\ AfterUpdate(w)
  /\ UNCHANGED <<row, reports, req, history, counters>>

\* The progress the session writes: a dict loaded from the row is updated in
\* place and assigned to itself, which SQLAlchemy does not see as a change.
StoredProgress(k, seen) ==
  IF ReportsProgress(k) /\ seen.progress = NoProgress THEN k ELSE seen.progress

\* Mutant of Dirty: a failure is written only over a pipeline status.
DirtyNoFailure(k, seen) ==
  \/ StatusOf(k) # seen.status /\ k # FailStep
  \/ StoredProgress(k, seen) # seen.progress

\* Does the flush emit an UPDATE?  A failure always sets completed_at anew.
Dirty(k, seen) ==
  \/ StatusOf(k) # seen.status
  \/ StatusOf(k) = "failed"
  \/ StoredProgress(k, seen) # seen.progress

\* UPDATE and COMMIT of update_run_status.
WriteRow(w) ==
  LET r == wk[w].run
      k == wk[w].step
      seen == wk[w].seen IN
  /\ wk[w].pc = "write" /\ k # SaveStep
  /\ \/ /\ ~Dirty(k, seen)
        /\ UNCHANGED row
     \/ /\ Dirty(k, seen)
        /\ ~Stale(r, seen)
        /\ row' = [row EXCEPT ![r].status = StatusOf(k),
                              ![r].progress = StoredProgress(k, seen),
                              ![r].version = @ + 1]
  /\ AfterUpdate(w)
  /\ UNCHANGED <<reports, req, history, counters>>

MaxRetries == 3

\* StaleDataError: a new session and a new SELECT, or raise.
RetryWrite(w) ==
  /\ wk[w].pc = "write" /\ wk[w].step # SaveStep
  /\ Dirty(wk[w].step, wk[w].seen)
  /\ Stale(wk[w].run, wk[w].seen)
  /\ IF wk[w].attempt = MaxRetries - 1
     THEN AfterUpdateRaises(w)
     ELSE /\ wk' = [wk EXCEPT ![w].pc = "read", ![w].attempt = @ + 1,
                              ![w].seen = NothingSeen]
          /\ UNCHANGED job
  /\ UNCHANGED <<row, reports, req, history, counters>>

\* Step 11: the report is added and the run is loaded in one transaction.
SaveRead(w) ==
  /\ wk[w].pc = "read" /\ wk[w].step = SaveStep
  /\ IF Visible(wk[w].run)
     THEN wk' = [wk EXCEPT ![w].pc = "write", ![w].seen = Snapshot(wk[w].run)]
     ELSE GoTo(w, FailStep)                      \* scalar_one raises
  /\ UNCHANGED <<row, reports, job, req, history, counters>>

SaveWrite(w) ==
  LET r == wk[w].run IN
  /\ wk[w].pc = "write" /\ wk[w].step = SaveStep
  /\ ~Stale(r, wk[w].seen)
  /\ row' = [row EXCEPT ![r].status = StatusOf(SaveStep), ![r].report = TRUE,
                        ![r].version = @ + 1]
  /\ reports' = [reports EXCEPT ![r] = @ + 1]
  /\ Release(w, "finished")
  /\ UNCHANGED <<req, history, counters>>

\* Mutant of ReportsAfterRollback: the report is committed on its own.
ReportsKept(r) == reports[r] + 1

ReportsAfterRollback(r) == reports[r]

\* StaleDataError here has no retry: report and run roll back together and
\* the audit fails.
SaveStale(w) ==
  LET r == wk[w].run IN
  /\ wk[w].pc = "write" /\ wk[w].step = SaveStep
  /\ Stale(r, wk[w].seen)
  /\ reports' = [reports EXCEPT ![r] = ReportsAfterRollback(r)]
  /\ GoTo(w, FailStep)
  /\ UNCHANGED <<row, job, req, history, counters>>

\* The work horse is killed; RQ moves its job to the failed registry and
\* nothing touches the row.  An exception out of the write of the failure
\* handler itself ends the same way.
Crash(w) ==
  /\ wk[w].pc # "idle"
  /\ crashes < MaxCrashes
  /\ crashes' = crashes + 1
  /\ crashed' = crashed \cup {wk[w].run}
  /\ Release(w, "failed")
  /\ UNCHANGED <<row, reports, req, cancelled, executed, cancels, jobDeletes, apiFailures>>

-----------------------------------------------------------------------------
Request(c) ==
  \/ \E s \in Sites : CreateCheck(c, s)
  \/ \E r \in Runs : PublicCommit(c, r) \/ CancelRead(c, r) \/ JobDeleteStart(c, r)

Answer(c) ==
  \/ \E r \in Runs : CreateEnqueue(c, r)
  \/ CreateCommit(c) \/ PublicEnqueue(c)
  \/ CheckJob(c) \/ CheckJobOnly(c) \/ CancelJob(c) \/ CancelJobOnly(c)
  \/ CancelCommit(c) \/ CancelStale(c)

ApiFails(c) ==
  \/ CreateEnqueueFails(c) \/ CreateCommitFails(c)
  \/ \E r \in Runs : WebEnqueueFails(c, r)
  \/ PublicEnqueueFails(c) \/ CancelCommitFails(c)

Execute(w) ==
  \/ WorkDone(w) \/ SkipObserving(w) \/ WorkRaises(w)
  \/ ReadRow(w) \/ RowMissing(w) \/ WriteRow(w) \/ RetryWrite(w)
  \/ SaveRead(w) \/ SaveWrite(w) \/ SaveStale(w)

Next ==
  \/ \E c \in Clients : Request(c) \/ Answer(c) \/ ApiFails(c)
  \/ \E w \in Workers :
       \/ \E r \in Runs : TakeJob(w, r)
       \/ \E r \in Runs, s \in Sites : StartSnapshot(w, r, s)
       \/ Execute(w)
       \/ Crash(w)

Spec == Init /\ [][Next]_vars

\* Requests in flight are answered and workers keep working; nobody has to
\* send a request, and nothing has to fail.
Fairness ==
  /\ \A c \in Clients : WF_vars(Answer(c))
  /\ \A w \in Workers : /\ WF_vars(Execute(w))
                        /\ WF_vars(\E r \in Runs : TakeJob(w, r))

FairSpec == Spec /\ Fairness

-----------------------------------------------------------------------------
(* Properties *)

SeenRows == [status : Statuses, version : Nat,
             progress : NoProgress..FailStep]

ReqPcs == {"idle", "insert", "commit", "enqueue", "checkJob", "checkJobOnly", "cancelJob",
           "cancelJobOnly", "markFailed"}

JobStatuses == {"none", "queued", "started", "finished", "failed", "canceled"}

RowType ==
  [state : {"absent", "pending", "committed"}, site : Sites \cup {PublicSite, NoSite},
   origin : {"api", "public", "snapshot"}, status : Statuses, version : Nat,
   report : BOOLEAN, progress : NoProgress..FailStep]

ReqType ==
  [pc : ReqPcs, run : Runs \cup {NoRun}, site : Sites \cup {NoSite},
   seen : SeenRows]

WkType ==
  [pc : {"idle", "work", "read", "write"}, run : Runs \cup {NoRun},
   step : Steps, attempt : 0..(MaxRetries - 1), seen : SeenRows]

\* Every variable stays in the domain the code gives it, and a row belongs to
\* a site from the moment it is inserted.
TypeOK ==
  /\ row \in [Runs -> RowType]
  /\ \A r \in Runs : row[r].state # "absent" => row[r].site # NoSite
  /\ reports \in [Runs -> Nat]
  /\ job \in [Runs -> JobStatuses]
  /\ req \in [Clients -> ReqType]
  /\ wk \in [Workers -> WkType]
  /\ cancelled \subseteq Runs /\ crashed \subseteq Runs /\ executed \subseteq Runs
  /\ cancels \in Nat /\ jobDeletes \in Nat /\ crashes \in Nat /\ apiFailures \in Nat

Executes(w, r) == wk[w].run = r

\* A run never has two workers: its job is handed out once and a snapshot run
\* is executed only by the worker that created it.
SingleExecutor ==
  \A w1, w2 \in Workers :
    wk[w1].run # NoRun /\ wk[w1].run = wk[w2].run => w1 = w2

\* A stored report and a complete run exist together or not at all, whatever
\* the cancellations, conflicts and crashes around the final transaction: no
\* orphan report, no second report, no complete run without one.
ReportIffComplete ==
  \A r \in Runs :
    /\ row[r].report = (row[r].status = "complete")
    /\ reports[r] = IF row[r].status = "complete" THEN 1 ELSE 0

\* The three attempts of update_run_status are more than it ever needs: after
\* one conflict nobody else can change the row before the second attempt, so
\* the branch that gives up is dead.
RetryNeverExhausted == \A w \in Workers : wk[w].attempt <= 1

\* Unless its worker was killed, a run that no worker holds is not left in the
\* middle of the pipeline: it waits in the queue or has ended.
NoRunLeftMidway ==
  \A r \in Runs :
    row[r].status \in PipelineStatuses =>
      (\E w \in Workers : Executes(w, r)) \/ r \in crashed

\* A job RQ reports as finished has a complete run behind it.
FinishedJobHasReport ==
  \A r \in Runs : job[r] = "finished" => row[r].status = "complete"

\* The optimistic lock protects a result: once a run is complete no
\* cancellation that was already in flight, and no late write, changes its row.
CompleteIsFinal ==
  [][\A r \in Runs : row[r].status = "complete" => row'[r] = row[r]]_vars

\* A job that was cancelled before a worker took it is never executed.
CancelledJobNeverRuns ==
  [][\A r \in Runs :
       job[r] = "canceled" /\ ~(\E w \in Workers : Executes(w, r))
         => job'[r] = "canceled" /\ ~(\E w \in Workers : Executes(w, r))']_vars

\* A run whose row is visible while its job waits is taken up and ends for
\* good, however often it is cancelled on the way.
VisibleQueuedRunSettles ==
  \A r \in Runs :
    Visible(r) /\ job[r] = "queued" ~> [](row[r].status \in TerminalStatuses)

\* A cancellation that lands between the read and the write of the final
\* transaction wins: the report is rolled back and the run stays failed.
CancelInSaveWindowSticks ==
  \A w \in Workers, r \in Runs :
    (/\ Executes(w, r) /\ wk[w].step = SaveStep /\ wk[w].pc = "write"
     /\ wk[w].seen.status \notin TerminalStatuses
     /\ row[r].status = "failed")
      ~> [](row[r].status = "failed")

-----------------------------------------------------------------------------
(* The abstract lifecycle *)

LifecycleOf(status) ==
  IF status = "queued" THEN "waiting"
  ELSE IF status = "complete" THEN "done"
  ELSE IF status = "failed" THEN "failed" ELSE "running"

LifecycleState ==
  [r \in Runs |-> IF Visible(r) THEN LifecycleOf(row[r].status) ELSE "none"]

Held == {r \in Runs : \E w \in Workers : Executes(w, r)}

Lifecycle == INSTANCE RunLifecycle WITH state <- LifecycleState,
                                        taken <- executed, held <- Held

\* The service keeps the promise of the abstract lifecycle: in particular a run
\* is executed at most once, only its holder undoes a failure, and an end that
\* nobody holds is final.
LifecycleSpec == Lifecycle!Spec

-----------------------------------------------------------------------------
(* What the repository says and the code does not do *)

\* "Cancel a queued or running audit": a cancelled run stays failed.
CancelSticks == [][\A r \in cancelled : row'[r].status = "failed"]_vars

=============================================================================
