----------------------------- MODULE AuditProofs -----------------------------
(***************************************************************************)
(* The safety of an audit, from its request to its report.                   *)
(* AuditRuns, for any number of runs, sites, clients and workers and for     *)
(* every bound: the inductive invariant, the lemmas on the operators, the    *)
(* initial state and the types it rests on, its preservation, and the safety *)
(* properties that follow from it; and that AuditRuns implements             *)
(* RunLifecycle.                                                             *)
(* AuditReport: what the report says of an observation, for any number of    *)
(* questions and competitors, whatever the answers and the replies of the    *)
(* classifier; the lemmas count and add up over the lists of results.        *)
(***************************************************************************)
EXTENDS AuditRuns, AuditReport, Sums, SequenceTheorems, FiniteSetTheorems, TLAPS

-----------------------------------------------------------------------------
(* The runs. *)

CancelPcs == {"checkJob", "cancelJob", "markFailed"}

\* A worker is idle exactly when it holds no run; the failure handler does no
\* work before its write.
WkRun(w) ==
  /\ wk[w].pc = "idle" <=> wk[w].run = NoRun
  /\ wk[w].pc = "work" => wk[w].step # FailStep

\* A run that is executed has left the queue and has not completed; without a
\* job it is a committed snapshot run.
ExecutorJob(w) ==
  wk[w].run \in Runs =>
    /\ job[wk[w].run] # "queued"
    /\ row[wk[w].run].status # "complete"
    /\ job[wk[w].run] = "none" => Visible(wk[w].run)

\* What a worker loaded is an old version of a committed row; if it is stale, a
\* cancellation made it so, and the worker is in its first attempt.
WorkerSeen(w) ==
  /\ wk[w].pc = "write" =>
       /\ Visible(wk[w].run)
       /\ wk[w].seen.version <= row[wk[w].run].version
       /\ wk[w].seen.version # row[wk[w].run].version
            => row[wk[w].run].status = "failed" /\ wk[w].attempt = 0
  /\ wk[w].attempt # 0 =>
       /\ wk[w].attempt = 1 /\ wk[w].run \in Runs
       /\ row[wk[w].run].status = "failed"

WorkerInv(w) == WkRun(w) /\ ExecutorJob(w) /\ WorkerSeen(w)

ReportMatches(r) ==
  /\ row[r].report = (row[r].status = "complete")
  /\ reports[r] = IF row[r].status = "complete" THEN 1 ELSE 0

NotLeftMidway(r) ==
  row[r].status \in PipelineStatuses =>
    (\E w \in Workers : Executes(w, r)) \/ r \in crashed

\* A row that is not committed has had no status but the first one, and a job
\* that waits or has finished agrees with the row.
RowInv(r) ==
  /\ ~Visible(r) => row[r].status = "queued"
  /\ ReportMatches(r)
  /\ NotLeftMidway(r)
  /\ job[r] = "finished" => row[r].status = "complete"
  /\ job[r] = "queued" => row[r].status # "complete"

\* What holds of workers, rows and jobs.
RunInv ==
  /\ \A w \in Workers : WorkerInv(w)
  /\ \A r \in Runs : RowInv(r)
  /\ SingleExecutor

InsertShape(c) == req[c].pc = "insert" => req[c].site \in Sites

CommitShape(c) ==
  req[c].pc = "commit" => req[c].run \in Runs /\ row[req[c].run].state = "pending"

EnqueueShape(c) ==
  req[c].pc = "enqueue" =>
    /\ req[c].run \in Runs
    /\ job[req[c].run] = "none"
    /\ Visible(req[c].run) /\ row[req[c].run].status # "complete"
    /\ \A w \in Workers : wk[w].run # req[c].run

\* A cancellation in flight remembers a version of a row that had not ended.
CancelShape(c) ==
  req[c].pc \in CancelPcs =>
    /\ req[c].run \in Runs /\ Visible(req[c].run)
    /\ req[c].seen.version <= row[req[c].run].version
    /\ req[c].seen.status \notin TerminalStatuses
    /\ req[c].seen.version = row[req[c].run].version
         => req[c].seen.status = row[req[c].run].status

JobShape(c) ==
  /\ req[c].pc \in {"checkJobOnly", "cancelJobOnly"} => req[c].run \in Runs
  /\ req[c].pc \in {"cancelJob", "cancelJobOnly"} => job[req[c].run] # "none"

ClientInv(c) ==
  InsertShape(c) /\ CommitShape(c) /\ EnqueueShape(c) /\ CancelShape(c) /\ JobShape(c)

CreatePcs == {"commit", "enqueue"}

\* Two requests never create the same run.
CreatorUnique ==
  \A c1, c2 \in Clients :
    req[c1].pc \in CreatePcs /\ req[c2].pc \in CreatePcs /\ req[c1].run = req[c2].run
      => c1 = c2

\* What holds of requests in flight.
ReqInv == (\A c \in Clients : ClientInv(c)) /\ CreatorUnique

IInv == TypeOK /\ RunInv /\ ReqInv

-----------------------------------------------------------------------------
(* Lemmas about the operators of the model *)

\* What update_run_status writes: a pipeline status, or "failed" in the
\* handler of run_audit, and never "complete".
LEMMA StatusOfType ==
  ASSUME NEW k \in Steps
  PROVE  /\ StatusOf(k) \in Statuses
         /\ k \notin {SaveStep, FailStep} => StatusOf(k) \in PipelineStatuses
         /\ k = FailStep => StatusOf(k) = "failed"
         /\ k = SaveStep => StatusOf(k) = "complete"
BY DEF StatusOf, Pipeline, Steps, FailStep, SaveStep, Statuses,
       PipelineStatuses, TerminalStatuses

LEMMA StatusSets ==
  /\ PipelineStatuses \subseteq Statuses
  /\ TerminalStatuses \subseteq Statuses
  /\ "queued" \in Statuses
  /\ "queued" \notin PipelineStatuses /\ "queued" \notin TerminalStatuses
  /\ PipelineStatuses \cap TerminalStatuses = {}
  /\ TerminalStatuses = {"complete", "failed"}
BY DEF Statuses, PipelineStatuses, TerminalStatuses

\* The next step of a worker is a step.
LEMMA NextStep ==
  ASSUME NEW k \in Steps, k # FailStep
  PROVE  k + 1 \in Steps /\ AfterException(k) \in Steps
BY DEF Steps, FailStep, AfterException, Guarded

LEMMA ProgressType ==
  ASSUME NEW k \in Steps, NEW seen \in SeenRows
  PROVE  StoredProgress(k, seen) \in NoProgress..FailStep
BY DEF StoredProgress, ReportsProgress, Steps, SeenRows, NoProgress, FailStep

-----------------------------------------------------------------------------
(* The initial state *)

LEMMA InitIInv == Init => IInv
<1> SUFFICES ASSUME Init PROVE IInv
  OBVIOUS
<1> USE NullAssumption DEF Init, AbsentRow, IdleReq, IdleWk, NothingSeen
<1>1. TypeOK
  BY StatusSets DEF TypeOK, RowType, ReqType, WkType, SeenRows, NoProgress, FailStep, Steps, ReqPcs,
     JobStatuses, MaxRetries
<1>2. RunInv
  BY StatusSets DEF RunInv, WorkerInv, RowInv, WkRun, SingleExecutor, ExecutorJob, WorkerSeen,
     ReportMatches, NotLeftMidway, Visible
<1>3. ReqInv
  BY DEF ReqInv, ClientInv, InsertShape, CommitShape, EnqueueShape, CancelShape, JobShape,
     CreatorUnique, CancelPcs, CreatePcs
<1> QED BY <1>1, <1>2, <1>3 DEF IInv

-----------------------------------------------------------------------------
(* Type correctness: one lemma per process *)

LEMMA SnapshotType ==
  ASSUME TypeOK, NEW r \in Runs
  PROVE  Snapshot(r) \in SeenRows
BY DEF TypeOK, RowType, Snapshot, SeenRows

LEMMA IdleTypes ==
  /\ IdleReq \in ReqType
  /\ IdleWk \in WkType
  /\ AbsentRow \in RowType
  /\ NothingSeen \in SeenRows
BY StatusSets DEF IdleReq, IdleWk, AbsentRow, NothingSeen, SeenRows, ReqType,
   WkType, RowType, ReqPcs, NoProgress, FailStep, Steps, MaxRetries

LEMMA NewRowType ==
  ASSUME NEW s \in Sites \cup {PublicSite}, NEW state \in {"absent", "pending", "committed"},
         NEW origin \in {"api", "public", "snapshot"},
         NEW progress \in NoProgress..FailStep
  PROVE  NewRow(s, state, origin, progress) \in RowType
BY StatusSets DEF NewRow, RowType

LEMMA CreateType ==
  ASSUME TypeOK, ReqInv, NEW c \in Clients,
         \/ \E s \in Sites : CreateCheck(c, s)
         \/ \E r \in Runs : CreateEnqueue(c, r)
         \/ CreateEnqueueFails(c)
         \/ \E r \in Runs : WebEnqueueFails(c, r)
         \/ CreateCommit(c)
         \/ CreateCommitFails(c)
  PROVE  TypeOK'
<1> USE IdleTypes, StatusSets DEF TypeOK, counters, history
<1>1. ASSUME NEW s \in Sites, CreateCheck(c, s)
      PROVE  TypeOK'
  <2>1. [IdleReq EXCEPT !.pc = "insert", !.site = s] \in ReqType
    BY DEF ReqType, ReqPcs
  <2> QED BY <1>1, <2>1 DEF CreateCheck
<1>2. ASSUME NEW r \in Runs, CreateEnqueue(c, r)
      PROVE  TypeOK'
  <2>1. InitialProgress \in NoProgress..FailStep
    BY DEF InitialProgress, NoProgress, FailStep
  <2>2. req[c].site \in Sites
    BY <1>2 DEF CreateEnqueue, ReqInv, ClientInv, InsertShape
  <2>3. NewRow(req[c].site, "pending", "api", InitialProgress) \in RowType
    BY <2>1, <2>2, NewRowType
  <2>4. [[req[c] EXCEPT !.pc = "commit"] EXCEPT !.run = r] \in ReqType
    BY DEF ReqType, ReqPcs
  <2>5. NewRow(req[c].site, "pending", "api", InitialProgress).site # NoSite
    BY <2>2, NullAssumption DEF NewRow
  <2> QED BY <1>2, <2>3, <2>4, <2>5 DEF CreateEnqueue, JobStatuses
<1>3. CASE CreateEnqueueFails(c)
  BY <1>3 DEF CreateEnqueueFails
<1>4. ASSUME NEW r \in Runs, WebEnqueueFails(c, r)
      PROVE  TypeOK'
  <2>1. InitialProgress \in NoProgress..FailStep
    BY DEF InitialProgress, NoProgress, FailStep
  <2>2. req[c].site \in Sites
    BY <1>4 DEF WebEnqueueFails, ReqInv, ClientInv, InsertShape
  <2> DEFINE new == NewRow(req[c].site, "committed", "api", InitialProgress)
  <2>3. new \in RowType
    BY <2>1, <2>2, NewRowType
  <2>4. new.site # NoSite
    BY <2>2, NullAssumption DEF NewRow
  <2> HIDE DEF new
  <2>5. [new EXCEPT !.status = "failed"] \in RowType
    BY <2>3 DEF RowType
  <2>6. [new EXCEPT !.status = "failed"].site # NoSite
    BY <2>3, <2>4 DEF RowType
  <2> QED BY <1>4, <2>5, <2>6 DEF WebEnqueueFails, new
<1>5. CASE CreateCommit(c)
  <2> DEFINE r == req[c].run
  <2>1. r \in Runs /\ row[r].state = "pending"
    BY <1>5 DEF CreateCommit, ReqInv, ClientInv, CommitShape
  <2>2. [row[r] EXCEPT !.state = "committed"] \in RowType
    BY <2>1 DEF RowType
  <2>3. [row[r] EXCEPT !.state = "committed"].site # NoSite
    BY <2>1 DEF RowType
  <2> QED BY <1>5, <2>1, <2>2, <2>3 DEF CreateCommit
<1>6. CASE CreateCommitFails(c)
  <2>1. AbsentRow.state = "absent"
    BY DEF AbsentRow
  <2>2. row' \in [Runs -> RowType]
    BY <1>6 DEF CreateCommitFails
  <2>3. \A x \in Runs : row'[x].state # "absent" => row'[x].site # NoSite
    BY <1>6, <2>1 DEF CreateCommitFails
  <2>4. req' \in [Clients -> ReqType]
    BY <1>6 DEF CreateCommitFails
  <2> QED BY <1>6, <2>2, <2>3, <2>4 DEF CreateCommitFails
<1> QED BY <1>1, <1>2, <1>3, <1>4, <1>5, <1>6

LEMMA PublicType ==
  ASSUME TypeOK, ReqInv, NEW c \in Clients,
         \/ \E r \in Runs : PublicCommit(c, r)
         \/ PublicEnqueue(c)
         \/ PublicEnqueueFails(c)
  PROVE  TypeOK'
<1> USE IdleTypes DEF TypeOK, counters, history
<1>1. ASSUME NEW r \in Runs, PublicCommit(c, r)
      PROVE  TypeOK'
  <2>1. NewRow(PublicSite, "committed", "public", NoProgress) \in RowType
    BY NewRowType DEF NoProgress, FailStep
  <2>2. NewRow(PublicSite, "committed", "public", NoProgress).site # NoSite
    BY NullAssumption DEF NewRow
  <2>3. [IdleReq EXCEPT !.pc = "enqueue", !.run = r] \in ReqType
    BY DEF ReqType, ReqPcs
  <2> QED BY <1>1, <2>1, <2>2, <2>3 DEF PublicCommit
<1>2. CASE PublicEnqueue(c)
  BY <1>2 DEF PublicEnqueue, JobStatuses
<1>3. CASE PublicEnqueueFails(c)
  BY <1>3 DEF PublicEnqueueFails
<1> QED BY <1>1, <1>2, <1>3

LEMMA CancelType ==
  ASSUME TypeOK, ReqInv, NEW c \in Clients,
         \/ \E r \in Runs : CancelRead(c, r) \/ JobDeleteStart(c, r)
         \/ CheckJob(c) \/ CheckJobOnly(c)
         \/ CancelJob(c) \/ CancelJobOnly(c)
         \/ CancelCommit(c) \/ CancelStale(c) \/ CancelCommitFails(c)
  PROVE  TypeOK'
<1> USE IdleTypes, StatusSets DEF TypeOK, counters, history
<1>1. ASSUME NEW r \in Runs, CancelRead(c, r)
      PROVE  TypeOK'
  <2>1. PICK p \in {"checkJob", "markFailed"} :
          req' = [req EXCEPT ![c] = [IdleReq EXCEPT !.pc = p, !.run = r,
                                                    !.seen = Snapshot(r)]]
    BY <1>1 DEF CancelRead
  <2>2. [IdleReq EXCEPT !.pc = p, !.run = r, !.seen = Snapshot(r)] \in ReqType
    BY SnapshotType DEF ReqType, ReqPcs
  <2>3. req' \in [Clients -> ReqType]
    BY <2>1, <2>2
  <2>4. cancels' = cancels + 1 /\ cancels \in Nat
    BY <1>1 DEF CancelRead
  <2>5. UNCHANGED <<row, reports, job, wk, cancelled, crashed, executed,
                    jobDeletes, crashes, apiFailures>>
    BY <1>1 DEF CancelRead
  <2> QED BY <2>3, <2>4, <2>5
<1>2. ASSUME NEW r \in Runs, JobDeleteStart(c, r)
      PROVE  TypeOK'
  <2>1. [IdleReq EXCEPT !.pc = "checkJobOnly", !.run = r] \in ReqType
    BY DEF ReqType, ReqPcs
  <2>2. req' \in [Clients -> ReqType]
    BY <1>2, <2>1 DEF JobDeleteStart
  <2>3. jobDeletes' = jobDeletes + 1 /\ jobDeletes \in Nat
    BY <1>2 DEF JobDeleteStart
  <2>4. UNCHANGED <<row, reports, job, wk, cancelled, crashed, executed,
                    cancels, crashes, apiFailures>>
    BY <1>2 DEF JobDeleteStart
  <2> QED BY <2>2, <2>3, <2>4
<1>3. CASE CheckJob(c)
  <2>1. /\ [req[c] EXCEPT !.pc = "cancelJob"] \in ReqType
        /\ [req[c] EXCEPT !.pc = "markFailed"] \in ReqType
    BY DEF ReqType, ReqPcs
  <2> QED BY <1>3, <2>1 DEF CheckJob
<1>4. CASE CheckJobOnly(c)
  <2>1. [req[c] EXCEPT !.pc = "cancelJobOnly"] \in ReqType
    BY DEF ReqType, ReqPcs
  <2> QED BY <1>4, <2>1 DEF CheckJobOnly
<1>5. CASE CancelJob(c)
  <2>1. [req[c] EXCEPT !.pc = "markFailed"] \in ReqType
    BY DEF ReqType, ReqPcs
  <2> QED BY <1>5, <2>1 DEF CancelJob, JobStatuses
<1>6. CASE CancelJobOnly(c)
  BY <1>6 DEF CancelJobOnly, JobStatuses
<1>7. CASE CancelCommit(c)
  <2>1. req[c].run \in Runs /\ "failed" \in Statuses
    BY <1>7 DEF CancelCommit, ReqInv, ClientInv, CancelShape, CancelPcs, TerminalStatuses
  <2>2. row' = [row EXCEPT ![req[c].run].status = "failed",
                           ![req[c].run].version = @ + 1]
    BY <1>7 DEF CancelCommit
  <2>3. row' \in [Runs -> RowType]
    BY <2>1, <2>2 DEF RowType
  <2>4. \A x \in Runs : row'[x].state = row[x].state /\ row'[x].site = row[x].site
    BY <2>1, <2>2 DEF RowType
  <2> QED BY <1>7, <2>3, <2>4 DEF CancelCommit
<1>8. CASE CancelStale(c)
  BY <1>8 DEF CancelStale
<1>9. CASE CancelCommitFails(c)
  BY <1>9 DEF CancelCommitFails
<1> QED BY <1>1, <1>2, <1>3, <1>4, <1>5, <1>6, <1>7, <1>8, <1>9

LEMMA GoToType ==
  ASSUME TypeOK, NEW w \in Workers, NEW k \in Steps, GoTo(w, k)
  PROVE  wk' \in [Workers -> WkType]
<1>1. /\ [[[IdleWk EXCEPT !.pc = "read"] EXCEPT !.run = wk[w].run]
            EXCEPT !.step = k] \in WkType
      /\ [[[IdleWk EXCEPT !.pc = "work"] EXCEPT !.run = wk[w].run]
            EXCEPT !.step = k] \in WkType
  BY IdleTypes DEF TypeOK, WkType
<1> QED BY <1>1 DEF GoTo, TypeOK

LEMMA ReleaseType ==
  ASSUME TypeOK, NEW w \in Workers, NEW outcome \in {"finished", "failed"},
         Release(w, outcome)
  PROVE  wk' \in [Workers -> WkType] /\ job' \in [Runs -> JobStatuses]
BY IdleTypes DEF Release, TypeOK, JobStatuses

LEMMA WorkerType ==
  ASSUME TypeOK, RunInv, NEW w \in Workers,
         \/ \E r \in Runs : TakeJob(w, r)
         \/ \E r \in Runs, s \in Sites : StartSnapshot(w, r, s)
         \/ Execute(w) \/ Crash(w)
  PROVE  TypeOK'
<1> USE IdleTypes, StatusSets DEF TypeOK, counters, history
<1>w. /\ wk[w] \in WkType
      /\ wk[w].pc # "idle" => wk[w].run \in Runs
      /\ wk[w].pc = "work" => wk[w].step # FailStep
  BY DEF WkType, RunInv, WorkerInv, WkRun
<1>k. /\ wk[w].step \in Steps
      /\ wk[w].step # FailStep =>
           wk[w].step + 1 \in Steps /\ AfterException(wk[w].step) \in Steps
      /\ FailStep \in Steps /\ AfterObserving \in Steps /\ 1 \in Steps
  BY NextStep, <1>w DEF WkType, Steps, FailStep, AfterObserving
<1>1. ASSUME NEW r \in Runs, TakeJob(w, r)
      PROVE  TypeOK'
  <2>1. [[IdleWk EXCEPT !.pc = "work"] EXCEPT !.run = r] \in WkType
    BY DEF WkType
  <2> QED BY <1>1, <2>1 DEF TakeJob, JobStatuses
<1>2. ASSUME NEW r \in Runs, NEW s \in Sites, StartSnapshot(w, r, s)
      PROVE  TypeOK'
  <2>1. NewRow(s, "committed", "snapshot", NoProgress) \in RowType
    BY NewRowType DEF NoProgress, FailStep
  <2>2. NewRow(s, "committed", "snapshot", NoProgress).site # NoSite
    BY NullAssumption DEF NewRow
  <2>3. [[IdleWk EXCEPT !.pc = "work"] EXCEPT !.run = r] \in WkType
    BY DEF WkType
  <2> QED BY <1>2, <2>1, <2>2, <2>3 DEF StartSnapshot
<1>3. CASE WorkDone(w)
  <2>1. [wk[w] EXCEPT !.pc = "read"] \in WkType
    BY <1>w DEF WkType
  <2> QED BY <1>3, <2>1 DEF WorkDone
<1>4. CASE SkipObserving(w)
  BY <1>4, <1>k, GoToType DEF SkipObserving
<1>5. CASE WorkRaises(w)
  BY <1>5, <1>w, <1>k, GoToType DEF WorkRaises
<1>6. CASE ReadRow(w)
  <2>1. [[wk[w] EXCEPT !.pc = "write"] EXCEPT !.seen = Snapshot(wk[w].run)] \in WkType
    BY <1>6, <1>w, SnapshotType DEF WkType, ReadRow
  <2> QED BY <1>6, <2>1 DEF ReadRow
<1>a. ASSUME AfterUpdate(w)
      PROVE  wk' \in [Workers -> WkType] /\ job' \in [Runs -> JobStatuses]
  BY <1>a, <1>k, GoToType, ReleaseType DEF AfterUpdate
<1>7. CASE RowMissing(w)
  BY <1>7, <1>a DEF RowMissing
<1>8. CASE WriteRow(w)
  <2> DEFINE r == wk[w].run
             k == wk[w].step
             seen == wk[w].seen
  <2>1. r \in Runs /\ seen \in SeenRows
    BY <1>8, <1>w DEF WriteRow, WkType
  <2>2. /\ StatusOf(k) \in Statuses
        /\ StoredProgress(k, seen) \in NoProgress..FailStep
    BY <2>1, <1>k, StatusOfType, ProgressType
  <2>3. \/ row' = row
        \/ row' = [row EXCEPT ![r].status = StatusOf(k),
                              ![r].progress = StoredProgress(k, seen),
                              ![r].version = @ + 1]
    BY <1>8 DEF WriteRow
  <2>4. row' \in [Runs -> RowType]
    <3>1. ASSUME NEW s \in Statuses, NEW p \in NoProgress..FailStep,
                 row' = [row EXCEPT ![r].status = s, ![r].progress = p,
                                    ![r].version = @ + 1]
          PROVE  row' \in [Runs -> RowType]
      BY <2>1, <3>1 DEF RowType
    <3> QED BY <2>2, <2>3, <3>1
  <2>5. \A x \in Runs : row'[x].state = row[x].state /\ row'[x].site = row[x].site
    BY <2>1, <2>3 DEF RowType
  <2> QED BY <1>8, <1>a, <2>4, <2>5 DEF WriteRow
<1>9. CASE RetryWrite(w)
  <2>1. ASSUME AfterUpdateRaises(w)
        PROVE  wk' \in [Workers -> WkType] /\ job' \in [Runs -> JobStatuses]
    BY <2>1, <1>k, GoToType, ReleaseType DEF AfterUpdateRaises
  <2>2. ASSUME wk[w].attempt # MaxRetries - 1,
               wk' = [wk EXCEPT ![w].pc = "read", ![w].attempt = @ + 1,
                                ![w].seen = NothingSeen]
        PROVE  wk' \in [Workers -> WkType]
    BY <2>2 DEF WkType, MaxRetries
  <2> QED BY <1>9, <2>1, <2>2 DEF RetryWrite
<1>10. CASE SaveRead(w)
  <2>1. wk[w].run \in Runs
    BY <1>10, <1>w DEF SaveRead
  <2>2. [[wk[w] EXCEPT !.pc = "write"] EXCEPT !.seen = Snapshot(wk[w].run)] \in WkType
    BY <2>1, <1>w, SnapshotType DEF WkType
  <2> QED BY <1>10, <1>k, <2>2, GoToType DEF SaveRead
<1>11. CASE SaveWrite(w)
  <2>1. wk[w].run \in Runs
    BY <1>11, <1>w DEF SaveWrite
  <2>2. StatusOf(SaveStep) \in Statuses
    BY StatusOfType DEF Steps, SaveStep, FailStep
  <2>3. row' = [row EXCEPT ![wk[w].run].status = StatusOf(SaveStep),
                           ![wk[w].run].report = TRUE,
                           ![wk[w].run].version = @ + 1]
    BY <1>11 DEF SaveWrite
  <2>4. row' \in [Runs -> RowType]
    BY <2>1, <2>2, <2>3 DEF RowType
  <2>5. \A x \in Runs : row'[x].state = row[x].state /\ row'[x].site = row[x].site
    BY <2>1, <2>3 DEF RowType
  <2>6. reports' \in [Runs -> Nat]
    BY <1>11, <2>1 DEF SaveWrite
  <2>7. wk' \in [Workers -> WkType] /\ job' \in [Runs -> JobStatuses]
    BY <1>11, ReleaseType DEF SaveWrite
  <2> QED BY <1>11, <2>4, <2>5, <2>6, <2>7 DEF SaveWrite
<1>12. CASE SaveStale(w)
  BY <1>12, <1>k, GoToType DEF SaveStale, ReportsAfterRollback
<1>13. CASE Crash(w)
  BY <1>13, <1>w, ReleaseType DEF Crash
<1> QED BY <1>1, <1>2, <1>3, <1>4, <1>5, <1>6, <1>7, <1>8, <1>9, <1>10, <1>11,
           <1>12, <1>13 DEF Execute


-----------------------------------------------------------------------------
(* Frame lemmas: what a step that touches one run, one worker or one client *)
(* leaves true of the others                                                *)

\* A step that touches run x and the workers that hold it: the invariant has
\* to be shown for those alone.
LEMMA RunStep ==
  ASSUME TypeOK, RunInv, NEW x \in Runs,
         \A r \in Runs : r # x =>
           row'[r] = row[r] /\ job'[r] = job[r] /\ reports'[r] = reports[r],
         \A w \in Workers : wk'[w] # wk[w] => wk[w].run \in {x, NoRun},
         \A w \in Workers : wk'[w] # wk[w] \/ wk[w].run = x => WorkerInv(w)',
         crashed \subseteq crashed',
         RowInv(x)',
         SingleExecutor'
  PROVE  RunInv'
<1> USE NullAssumption
<1>1. ASSUME NEW w \in Workers, wk'[w] = wk[w], wk[w].run # x
      PROVE  WorkerInv(w)'
  <2>1. WorkerInv(w)
    BY DEF RunInv
  <2>2. WkRun(w)'
    BY <1>1, <2>1 DEF WorkerInv, WkRun
  <2>3. ExecutorJob(w)'
    BY <1>1, <2>1 DEF WorkerInv, ExecutorJob, Visible
  <2>4. wk[w].run \in Runs \/ wk[w].pc = "idle"
    BY <2>1 DEF WorkerInv, WkRun, TypeOK, WkType
  <2>5. WorkerSeen(w)'
    BY <1>1, <2>1, <2>4 DEF WorkerInv, WorkerSeen, Visible
  <2> QED BY <2>2, <2>3, <2>5 DEF WorkerInv
<1>2. ASSUME NEW r \in Runs, r # x
      PROVE  RowInv(r)'
  <2>1. RowInv(r)
    BY DEF RunInv
  <2>2. row'[r] = row[r] /\ job'[r] = job[r] /\ reports'[r] = reports[r]
    BY <1>2
  <2>3. \A w \in Workers : wk[w].run = r => wk'[w].run = r
    BY <1>2
  <2>4. NotLeftMidway(r)'
    BY <2>1, <2>2, <2>3 DEF RowInv, NotLeftMidway, Executes
  <2> QED BY <2>1, <2>2, <2>4 DEF RowInv, ReportMatches, Visible
<1> QED BY <1>1, <1>2 DEF RunInv

\* A step that touches no row, job or worker.
LEMMA RunStutter ==
  ASSUME RunInv, UNCHANGED <<row, reports, job, wk, crashed>>
  PROVE  RunInv'
BY DEF RunInv, WorkerInv, RowInv, SingleExecutor, WkRun, ExecutorJob, WorkerSeen,
   ReportMatches, NotLeftMidway, Executes, Visible

\* A step of a worker: no request moves, rows stay what they are to requests,
\* and no run becomes executed that a request is about to enqueue.
LEMMA ReqStable ==
  ASSUME TypeOK, TypeOK', ReqInv, UNCHANGED req,
         \A r \in Runs :
           /\ row[r].state = "pending" => row'[r].state = "pending"
           /\ Visible(r) =>
                /\ Visible(r)'
                /\ row[r].version <= row'[r].version
                /\ row'[r].version = row[r].version => row'[r].status = row[r].status
                /\ row'[r].status = "complete" =>
                     row[r].status = "complete" \/ \E w \in Workers : wk[w].run = r
           /\ job'[r] = "none" <=> job[r] = "none",
         \A w \in Workers, r \in Runs :
           wk'[w].run = r => wk[w].run = r \/ job[r] # "none" \/ ~Visible(r)
  PROVE  ReqInv'
<1>1. ASSUME NEW c \in Clients
      PROVE  ClientInv(c)'
  <2>1. ClientInv(c) /\ req'[c] = req[c]
    BY DEF ReqInv
  <2>2. InsertShape(c)' /\ CommitShape(c)'
    BY <2>1 DEF ClientInv, InsertShape, CommitShape
  <2>3. EnqueueShape(c)'
    BY <2>1 DEF ClientInv, EnqueueShape
  <2>4. CancelShape(c)'
    <3>1. ASSUME req[c].pc \in CancelPcs
          PROVE  /\ req[c].run \in Runs /\ Visible(req[c].run)
                 /\ req[c].seen.version <= row[req[c].run].version
                 /\ req[c].seen.status \notin TerminalStatuses
                 /\ req[c].seen.version = row[req[c].run].version
                      => req[c].seen.status = row[req[c].run].status
      BY <2>1, <3>1 DEF ClientInv, CancelShape
    <3>2. ASSUME req[c].pc \in CancelPcs
          PROVE  /\ req[c].seen.version \in Nat
                 /\ row[req[c].run].version \in Nat
                 /\ row'[req[c].run].version \in Nat
      BY <3>1, <3>2 DEF TypeOK, ReqType, SeenRows, RowType
    <3> QED BY <2>1, <3>1, <3>2 DEF CancelShape
  <2>5. JobShape(c)'
    <3>1. req[c].pc = "cancelJob" => req[c].run \in Runs
      BY <2>1 DEF ClientInv, CancelShape, CancelPcs
    <3> QED BY <2>1, <3>1 DEF ClientInv, JobShape
  <2> QED BY <2>2, <2>3, <2>4, <2>5 DEF ClientInv
<1>2. CreatorUnique'
  BY DEF ReqInv, CreatorUnique
<1> QED BY <1>1, <1>2 DEF ReqInv

\* A step of client c: the invariant has to be shown for its own request; what
\* it does to a row that it alone creates concerns no other client.
LEMMA RequestStep ==
  ASSUME TypeOK, TypeOK', ReqInv, NEW c \in Clients,
         UNCHANGED wk,
         \A c2 \in Clients : c2 # c => req'[c2] = req[c2],
         \A r \in Runs :
           LET own == req[c].pc \in CreatePcs /\ req[c].run = r IN
           /\ row[r].state = "pending" => row'[r].state = "pending" \/ own
           /\ Visible(r) =>
                /\ Visible(r)'
                /\ row[r].version <= row'[r].version
                /\ row'[r].version = row[r].version => row'[r].status = row[r].status
                /\ row'[r].status = "complete" => row[r].status = "complete"
           /\ job[r] # "none" => job'[r] # "none"
           /\ job[r] = "none" /\ Visible(r) => job'[r] = "none" \/ own,
         req'[c].pc \in CreatePcs => row[req'[c].run].state = "absent",
         ClientInv(c)'
  PROVE  ReqInv'
<1>1. ASSUME NEW c2 \in Clients, c2 # c
      PROVE  ClientInv(c2)'
  <2>1. ClientInv(c2) /\ req'[c2] = req[c2]
    BY <1>1 DEF ReqInv
  <2>2. req[c2].pc \in CreatePcs /\ req[c].pc \in CreatePcs => req[c].run # req[c2].run
    BY <1>1 DEF ReqInv, CreatorUnique
  <2>3. InsertShape(c2)'
    BY <2>1 DEF ClientInv, InsertShape
  <2>4. CommitShape(c2)'
    BY <2>1, <2>2 DEF ClientInv, CommitShape, CreatePcs
  <2>5. EnqueueShape(c2)'
    BY <2>1, <2>2 DEF ClientInv, EnqueueShape, CreatePcs
  <2>6. CancelShape(c2)'
    <3>1. ASSUME req[c2].pc \in CancelPcs
          PROVE  /\ req[c2].run \in Runs /\ Visible(req[c2].run)
                 /\ req[c2].seen.version <= row[req[c2].run].version
                 /\ req[c2].seen.status \notin TerminalStatuses
                 /\ req[c2].seen.version = row[req[c2].run].version
                      => req[c2].seen.status = row[req[c2].run].status
      BY <2>1, <3>1 DEF ClientInv, CancelShape
    <3>2. ASSUME req[c2].pc \in CancelPcs
          PROVE  /\ req[c2].seen.version \in Nat
                 /\ row[req[c2].run].version \in Nat
                 /\ row'[req[c2].run].version \in Nat
      BY <3>1, <3>2 DEF TypeOK, ReqType, SeenRows, RowType
    <3> QED BY <2>1, <3>1, <3>2 DEF CancelShape
  <2>7. JobShape(c2)'
    <3>1. req[c2].pc = "cancelJob" => req[c2].run \in Runs
      BY <2>1 DEF ClientInv, CancelShape, CancelPcs
    <3> QED BY <2>1, <3>1 DEF ClientInv, JobShape
  <2> QED BY <2>3, <2>4, <2>5, <2>6, <2>7 DEF ClientInv
<1>2. CreatorUnique'
  <2>1. ASSUME NEW c2 \in Clients, req[c2].pc \in CreatePcs
        PROVE  row[req[c2].run].state # "absent"
    BY <2>1 DEF ReqInv, ClientInv, CommitShape, EnqueueShape, CreatePcs, Visible
  <2>2. \A c2 \in Clients :
          c2 # c /\ req'[c2].pc \in CreatePcs /\ req'[c].pc \in CreatePcs
            => req'[c2].run # req'[c].run
    BY <2>1
  <2>3. \A c1, c2 \in Clients :
          /\ c1 # c /\ c2 # c
          /\ req'[c1].pc \in CreatePcs /\ req'[c2].pc \in CreatePcs
          /\ req'[c1].run = req'[c2].run
          => c1 = c2
    BY DEF ReqInv, CreatorUnique
  <2> QED BY <2>2, <2>3 DEF CreatorUnique
<1> QED BY <1>1, <1>2 DEF ReqInv

-----------------------------------------------------------------------------
(* Requests *)

\* Nobody executes a run that was never used, and nothing was stored for it.
LEMMA FreshRun ==
  ASSUME TypeOK, RunInv, NEW r \in Runs, Fresh(r)
  PROVE  /\ \A w \in Workers : wk[w].run # r
         /\ reports[r] = 0
BY DEF Fresh, Visible, RunInv, WorkerInv, ExecutorJob, RowInv, ReportMatches

\* A row that its request has not committed is still the row it inserted.
LEMMA PendingRun ==
  ASSUME TypeOK, RunInv, NEW r \in Runs, row[r].state = "pending"
  PROVE  /\ row[r].status = "queued" /\ row[r].report = FALSE /\ reports[r] = 0
         /\ job[r] # "finished"
BY DEF Visible, RunInv, RowInv, ReportMatches

LEMMA CreateRunInv ==
  ASSUME TypeOK, RunInv, ReqInv, NEW c \in Clients,
         \/ \E s \in Sites : CreateCheck(c, s)
         \/ \E r \in Runs : CreateEnqueue(c, r)
         \/ CreateEnqueueFails(c)
         \/ \E r \in Runs : WebEnqueueFails(c, r)
         \/ CreateCommit(c)
         \/ CreateCommitFails(c)
  PROVE  RunInv'
<1> USE DEF history, counters
<1>1. ASSUME NEW s \in Sites, CreateCheck(c, s)
      PROVE  RunInv'
  BY <1>1, RunStutter DEF CreateCheck
<1>2. ASSUME NEW r \in Runs, CreateEnqueue(c, r)
      PROVE  RunInv'
  <2>1. Fresh(r) /\ UNCHANGED <<reports, wk, crashed>>
    BY <1>2 DEF CreateEnqueue
  <2>2. /\ row'[r].status = "queued" /\ row'[r].report = FALSE
        /\ job'[r] = "queued"
        /\ \A x \in Runs : x # r => row'[x] = row[x] /\ job'[x] = job[x]
    BY <1>2 DEF CreateEnqueue, NewRow, TypeOK
  <2>3. RowInv(r)'
    BY <2>1, <2>2, FreshRun DEF RowInv, ReportMatches, NotLeftMidway, PipelineStatuses
  <2>4. SingleExecutor'
    BY <2>1 DEF RunInv, SingleExecutor
  <2> QED BY <2>1, <2>2, <2>3, <2>4, FreshRun, RunStep
<1>3. CASE CreateEnqueueFails(c)
  BY <1>3, RunStutter DEF CreateEnqueueFails
<1>4. ASSUME NEW r \in Runs, WebEnqueueFails(c, r)
      PROVE  RunInv'
  <2>1. Fresh(r) /\ UNCHANGED <<reports, job, wk, crashed>>
    BY <1>4 DEF WebEnqueueFails
  <2>2. /\ row'[r].status = "failed" /\ row'[r].report = FALSE
        /\ row'[r].state = "committed"
        /\ \A x \in Runs : x # r => row'[x] = row[x]
    BY <1>4 DEF WebEnqueueFails, NewRow, TypeOK
  <2>3. RowInv(r)'
    BY <2>1, <2>2, FreshRun
       DEF RowInv, ReportMatches, NotLeftMidway, PipelineStatuses, Visible, Fresh
  <2>4. SingleExecutor'
    BY <2>1 DEF RunInv, SingleExecutor
  <2> QED BY <2>1, <2>2, <2>3, <2>4, FreshRun, RunStep
<1>5. CASE CreateCommit(c)
  <2>1. PICK r \in Runs : r = req[c].run /\ row[r].state = "pending"
    BY <1>5 DEF CreateCommit, ReqInv, ClientInv, CommitShape
  <2>2. UNCHANGED <<reports, job, wk, crashed>>
    BY <1>5 DEF CreateCommit
  <2>3. /\ row'[r].status = "queued" /\ row'[r].report = FALSE
        /\ row'[r].state = "committed" /\ row'[r].version = row[r].version
        /\ \A x \in Runs : x # r => row'[x] = row[x]
    BY <1>5, <2>1, PendingRun DEF CreateCommit, TypeOK, RowType
  <2>4. RowInv(r)'
    BY <2>1, <2>2, <2>3, PendingRun
       DEF RowInv, ReportMatches, NotLeftMidway, PipelineStatuses, Visible
  <2>5. \A w \in Workers : wk[w].run = r => WorkerInv(w)'
    BY <2>1, <2>2, <2>3, PendingRun
       DEF RunInv, WorkerInv, WkRun, ExecutorJob, WorkerSeen, Visible
  <2>6. SingleExecutor'
    BY <2>2 DEF RunInv, SingleExecutor
  <2> QED BY <2>1, <2>2, <2>3, <2>4, <2>5, <2>6, RunStep
<1>6. CASE CreateCommitFails(c)
  <2>1. PICK r \in Runs : r = req[c].run /\ row[r].state = "pending"
    BY <1>6 DEF CreateCommitFails, ReqInv, ClientInv, CommitShape
  <2>2. UNCHANGED <<reports, job, wk, crashed>>
    BY <1>6 DEF CreateCommitFails
  <2>3. /\ row'[r].status = "queued" /\ row'[r].report = FALSE
        /\ row'[r].state = "absent"
        /\ \A x \in Runs : x # r => row'[x] = row[x]
    BY <1>6, <2>1 DEF CreateCommitFails, TypeOK, AbsentRow
  <2>4. RowInv(r)'
    BY <2>1, <2>2, <2>3, PendingRun
       DEF RowInv, ReportMatches, NotLeftMidway, PipelineStatuses, Visible
  <2>5. \A w \in Workers : wk[w].run = r => WorkerInv(w)'
    BY <2>1, <2>2, <2>3, PendingRun
       DEF RunInv, WorkerInv, WkRun, ExecutorJob, WorkerSeen, Visible
  <2>6. SingleExecutor'
    BY <2>2 DEF RunInv, SingleExecutor
  <2> QED BY <2>1, <2>2, <2>3, <2>4, <2>5, <2>6, RunStep
<1> QED BY <1>1, <1>2, <1>3, <1>4, <1>5, <1>6

LEMMA PublicRunInv ==
  ASSUME TypeOK, RunInv, ReqInv, NEW c \in Clients,
         \/ \E r \in Runs : PublicCommit(c, r)
         \/ PublicEnqueue(c)
         \/ PublicEnqueueFails(c)
  PROVE  RunInv'
<1> USE DEF history, counters
<1>1. ASSUME NEW r \in Runs, PublicCommit(c, r)
      PROVE  RunInv'
  <2>1. Fresh(r) /\ UNCHANGED <<reports, job, wk, crashed>>
    BY <1>1 DEF PublicCommit
  <2>2. /\ row'[r].status = "queued" /\ row'[r].report = FALSE
        /\ \A x \in Runs : x # r => row'[x] = row[x]
    BY <1>1 DEF PublicCommit, NewRow, TypeOK
  <2>3. RowInv(r)'
    BY <2>1, <2>2, FreshRun
       DEF RowInv, ReportMatches, NotLeftMidway, PipelineStatuses, Fresh
  <2>4. SingleExecutor'
    BY <2>1 DEF RunInv, SingleExecutor
  <2> QED BY <2>1, <2>2, <2>3, <2>4, FreshRun, RunStep
<1>2. CASE PublicEnqueue(c)
  <2>1. PICK r \in Runs :
          /\ r = req[c].run /\ Visible(r) /\ row[r].status # "complete"
          /\ \A w \in Workers : wk[w].run # r
    BY <1>2 DEF PublicEnqueue, ReqInv, ClientInv, EnqueueShape
  <2>2. UNCHANGED <<row, reports, wk, crashed>>
    BY <1>2 DEF PublicEnqueue
  <2>3. job'[r] = "queued" /\ \A x \in Runs : x # r => job'[x] = job[x]
    BY <1>2, <2>1 DEF PublicEnqueue, TypeOK
  <2>4. RowInv(r)'
    BY <2>1, <2>2, <2>3
       DEF RunInv, RowInv, ReportMatches, NotLeftMidway, Executes, Visible
  <2>5. SingleExecutor'
    BY <2>2 DEF RunInv, SingleExecutor
  <2> QED BY <2>1, <2>2, <2>3, <2>4, <2>5, RunStep
<1>3. CASE PublicEnqueueFails(c)
  BY <1>3, RunStutter DEF PublicEnqueueFails
<1> QED BY <1>1, <1>2, <1>3

LEMMA CancelRunInv ==
  ASSUME TypeOK, RunInv, ReqInv, NEW c \in Clients,
         \/ \E r \in Runs : CancelRead(c, r) \/ JobDeleteStart(c, r)
         \/ CheckJob(c) \/ CheckJobOnly(c)
         \/ CancelJob(c) \/ CancelJobOnly(c)
         \/ CancelCommit(c) \/ CancelStale(c) \/ CancelCommitFails(c)
  PROVE  RunInv'
<1> USE DEF history, counters
<1>1. ASSUME \/ \E x \in Runs : CancelRead(c, x) \/ JobDeleteStart(c, x)
             \/ CheckJob(c) \/ CheckJobOnly(c) \/ CancelStale(c) \/ CancelCommitFails(c)
      PROVE  RunInv'
  <2>1. UNCHANGED <<row, reports, job, wk, crashed>>
    BY <1>1 DEF CancelRead, JobDeleteStart, CheckJob, CheckJobOnly, CancelStale,
                CancelCommitFails
  <2> QED BY <2>1, RunStutter
<1>2. CASE CancelJob(c) \/ CancelJobOnly(c)
  <2>1. PICK r \in Runs : r = req[c].run /\ job[r] # "none"
    BY <1>2 DEF CancelJob, CancelJobOnly, ReqInv, ClientInv, JobShape, CancelShape,
                CancelPcs
  <2>2. UNCHANGED <<row, reports, wk, crashed>>
    BY <1>2 DEF CancelJob, CancelJobOnly
  <2>3. job'[r] = "canceled" /\ \A x \in Runs : x # r => job'[x] = job[x]
    BY <1>2, <2>1 DEF CancelJob, CancelJobOnly, TypeOK
  <2>4. RowInv(r)'
    BY <2>1, <2>2, <2>3
       DEF RunInv, RowInv, ReportMatches, NotLeftMidway, Executes, Visible
  <2>5. \A w \in Workers : wk[w].run = r => WorkerInv(w)'
    BY <2>1, <2>2, <2>3 DEF RunInv, WorkerInv, WkRun, ExecutorJob, WorkerSeen, Visible
  <2>6. SingleExecutor'
    BY <2>2 DEF RunInv, SingleExecutor
  <2> QED BY <2>1, <2>2, <2>3, <2>4, <2>5, <2>6, RunStep
<1>3. CASE CancelCommit(c)
  <2>1. PICK r \in Runs :
          r = req[c].run /\ Visible(r) /\ row[r].status \notin TerminalStatuses
    BY <1>3 DEF CancelCommit, Stale, ReqInv, ClientInv, CancelShape, CancelPcs
  <2>2. UNCHANGED <<reports, job, wk, crashed>>
    BY <1>3 DEF CancelCommit
  <2>3. /\ row'[r].status = "failed" /\ row'[r].version = row[r].version + 1
        /\ row'[r].report = row[r].report /\ row'[r].state = row[r].state
        /\ row[r].version \in Nat
        /\ \A x \in Runs : x # r => row'[x] = row[x]
    BY <1>3, <2>1 DEF CancelCommit, TypeOK, RowType
  <2>4. RowInv(r)'
    BY <2>1, <2>2, <2>3
       DEF RunInv, RowInv, ReportMatches, NotLeftMidway, PipelineStatuses,
           TerminalStatuses, Visible
  <2>5. ASSUME NEW w \in Workers, wk[w].run = r
        PROVE  WorkerInv(w)'
    <3>1. WorkerInv(w) /\ wk[w].seen.version \in Nat
      BY DEF RunInv, TypeOK, WkType, SeenRows
    <3>2. wk[w].attempt = 0
      BY <2>1, <2>5, <3>1 DEF WorkerInv, WorkerSeen, TerminalStatuses
    <3>3. WorkerSeen(w)'
      BY <2>1, <2>2, <2>3, <2>5, <3>1, <3>2 DEF WorkerInv, WorkerSeen, Visible
    <3>4. WkRun(w)' /\ ExecutorJob(w)'
      BY <2>1, <2>2, <2>3, <2>5, <3>1 DEF WorkerInv, WkRun, ExecutorJob, Visible
    <3> QED BY <3>3, <3>4 DEF WorkerInv
  <2>6. SingleExecutor'
    BY <2>2 DEF RunInv, SingleExecutor
  <2> QED BY <2>1, <2>2, <2>3, <2>4, <2>5, <2>6, RunStep
<1> QED BY <1>1, <1>2, <1>3

\* A client that has been answered has nothing left to keep true.
LEMMA AnsweredClient ==
  ASSUME TypeOK, NEW c \in Clients, req' = [req EXCEPT ![c] = IdleReq]
  PROVE  ClientInv(c)' /\ req'[c].pc \notin CreatePcs
BY DEF TypeOK, IdleReq, ClientInv, InsertShape, CommitShape, EnqueueShape, CancelShape,
   JobShape, CancelPcs, CreatePcs

\* A request that leaves rows and jobs alone and creates no run.
LEMMA RequestAlone ==
  ASSUME TypeOK, TypeOK', ReqInv, NEW c \in Clients,
         UNCHANGED <<row, job, wk>>,
         \A c2 \in Clients : c2 # c => req'[c2] = req[c2],
         req'[c].pc \notin CreatePcs,
         ClientInv(c)'
  PROVE  ReqInv'
<1>1. \A r \in Runs : row[r].version \in Nat
  BY DEF TypeOK, RowType
<1> QED BY <1>1, RequestStep DEF Visible

LEMMA CreateReqInv ==
  ASSUME TypeOK, TypeOK', ReqInv, NEW c \in Clients,
         \/ \E s \in Sites : CreateCheck(c, s)
         \/ \E r \in Runs : CreateEnqueue(c, r)
         \/ CreateEnqueueFails(c)
         \/ \E r \in Runs : WebEnqueueFails(c, r)
         \/ CreateCommit(c)
         \/ CreateCommitFails(c)
  PROVE  ReqInv'
<1> USE DEF history, counters
<1>t. \A r \in Runs : row[r].version \in Nat /\ row'[r].version \in Nat
  BY DEF TypeOK, RowType
<1>1. ASSUME NEW s \in Sites, CreateCheck(c, s)
      PROVE  ReqInv'
  <2>1. req'[c].pc = "insert" /\ req'[c].site = s
    BY <1>1 DEF CreateCheck, TypeOK, IdleReq
  <2>2. ClientInv(c)' /\ req'[c].pc \notin CreatePcs
    BY <2>1 DEF ClientInv, InsertShape, CommitShape, EnqueueShape, CancelShape, JobShape,
                CancelPcs, CreatePcs
  <2>3. /\ UNCHANGED <<row, job, wk>>
        /\ \A c2 \in Clients : c2 # c => req'[c2] = req[c2]
    BY <1>1 DEF CreateCheck, TypeOK
  <2> QED BY <2>2, <2>3, RequestAlone
<1>2. ASSUME NEW r \in Runs, CreateEnqueue(c, r)
      PROVE  ReqInv'
  <2>1. /\ row[r].state = "absent" /\ job[r] = "none" /\ UNCHANGED wk
        /\ \A c2 \in Clients : c2 # c => req'[c2] = req[c2]
    BY <1>2 DEF CreateEnqueue, Fresh, TypeOK
  <2>2. req'[c].pc = "commit" /\ req'[c].run = r
    <3>1. req' = [req EXCEPT ![c].pc = "commit", ![c].run = r]
      BY <1>2 DEF CreateEnqueue
    <3> QED BY <3>1 DEF TypeOK, ReqType
  <2>3. /\ row'[r].state = "pending"
        /\ \A x \in Runs : x # r => row'[x] = row[x] /\ job'[x] = job[x]
        /\ job'[r] = "queued"
    BY <1>2 DEF CreateEnqueue, TypeOK, NewRow
  <2>4. ClientInv(c)'
    BY <2>2, <2>3 DEF ClientInv, InsertShape, CommitShape, EnqueueShape, CancelShape,
                      JobShape, CancelPcs
  <2> QED BY <1>t, <2>1, <2>2, <2>3, <2>4, RequestStep DEF Visible
<1>3. CASE CreateEnqueueFails(c)
  <2>1. /\ UNCHANGED <<row, job, wk>>
        /\ \A c2 \in Clients : c2 # c => req'[c2] = req[c2]
    BY <1>3 DEF CreateEnqueueFails, TypeOK
  <2> QED BY <1>3, <2>1, AnsweredClient, RequestAlone DEF CreateEnqueueFails
<1>4. ASSUME NEW r \in Runs, WebEnqueueFails(c, r)
      PROVE  ReqInv'
  <2>1. /\ row[r].state = "absent" /\ UNCHANGED <<job, wk>>
        /\ \A c2 \in Clients : c2 # c => req'[c2] = req[c2]
        /\ \A x \in Runs : x # r => row'[x] = row[x]
    BY <1>4 DEF WebEnqueueFails, Fresh, TypeOK
  <2>2. ClientInv(c)' /\ req'[c].pc \notin CreatePcs
    BY <1>4, AnsweredClient DEF WebEnqueueFails
  <2> QED BY <1>t, <2>1, <2>2, RequestStep DEF Visible
<1>5. CASE CreateCommit(c) \/ CreateCommitFails(c)
  <2>1. PICK r \in Runs : r = req[c].run /\ row[r].state = "pending"
    BY <1>5 DEF CreateCommit, CreateCommitFails, ReqInv, ClientInv, CommitShape
  <2>2. /\ req[c].pc \in CreatePcs /\ UNCHANGED <<job, wk>>
        /\ \A c2 \in Clients : c2 # c => req'[c2] = req[c2]
        /\ \A x \in Runs : x # r => row'[x] = row[x]
    BY <1>5, <2>1 DEF CreateCommit, CreateCommitFails, TypeOK, CreatePcs
  <2>3. ClientInv(c)' /\ req'[c].pc \notin CreatePcs
    BY <1>5, AnsweredClient DEF CreateCommit, CreateCommitFails
  <2> QED BY <1>t, <2>1, <2>2, <2>3, RequestStep DEF Visible
<1> QED BY <1>1, <1>2, <1>3, <1>4, <1>5

LEMMA PublicReqInv ==
  ASSUME TypeOK, TypeOK', RunInv, ReqInv, NEW c \in Clients,
         \/ \E r \in Runs : PublicCommit(c, r)
         \/ PublicEnqueue(c)
         \/ PublicEnqueueFails(c)
  PROVE  ReqInv'
<1> USE DEF history, counters
<1>t. \A r \in Runs : row[r].version \in Nat /\ row'[r].version \in Nat
  BY DEF TypeOK, RowType
<1>1. ASSUME NEW r \in Runs, PublicCommit(c, r)
      PROVE  ReqInv'
  <2>1. /\ Fresh(r) /\ row[r].state = "absent" /\ job[r] = "none" /\ UNCHANGED <<job, wk>>
        /\ \A c2 \in Clients : c2 # c => req'[c2] = req[c2]
        /\ \A x \in Runs : x # r => row'[x] = row[x]
    BY <1>1 DEF PublicCommit, Fresh, TypeOK
  <2>2. req'[c].pc = "enqueue" /\ req'[c].run = r
    BY <1>1 DEF PublicCommit, TypeOK, IdleReq
  <2>3. row'[r].state = "committed" /\ row'[r].status = "queued"
    BY <1>1 DEF PublicCommit, TypeOK, NewRow
  <2>4. \A w \in Workers : wk'[w].run # r
    BY <2>1, FreshRun
  <2>5. ClientInv(c)'
    BY <2>1, <2>2, <2>3, <2>4
       DEF ClientInv, InsertShape, CommitShape, EnqueueShape, CancelShape, JobShape,
           CancelPcs, Visible
  <2> QED BY <1>t, <2>1, <2>2, <2>3, <2>5, RequestStep DEF Visible
<1>2. CASE PublicEnqueue(c)
  <2>1. PICK r \in Runs : r = req[c].run
    BY <1>2 DEF PublicEnqueue, ReqInv, ClientInv, EnqueueShape
  <2>2. /\ req[c].pc \in CreatePcs /\ UNCHANGED <<row, wk>>
        /\ \A c2 \in Clients : c2 # c => req'[c2] = req[c2]
        /\ job'[r] = "queued"
        /\ \A x \in Runs : x # r => job'[x] = job[x]
    BY <1>2, <2>1 DEF PublicEnqueue, TypeOK, CreatePcs
  <2>3. ClientInv(c)' /\ req'[c].pc \notin CreatePcs
    BY <1>2, AnsweredClient DEF PublicEnqueue
  <2> QED BY <1>t, <2>1, <2>2, <2>3, RequestStep DEF Visible
<1>3. CASE PublicEnqueueFails(c)
  <2>1. /\ UNCHANGED <<row, job, wk>>
        /\ \A c2 \in Clients : c2 # c => req'[c2] = req[c2]
    BY <1>3 DEF PublicEnqueueFails, TypeOK
  <2> QED BY <1>3, <2>1, AnsweredClient, RequestAlone DEF PublicEnqueueFails
<1> QED BY <1>1, <1>2, <1>3

LEMMA CancelReqInv ==
  ASSUME TypeOK, TypeOK', ReqInv, NEW c \in Clients,
         \/ \E r \in Runs : CancelRead(c, r) \/ JobDeleteStart(c, r)
         \/ CheckJob(c) \/ CheckJobOnly(c)
         \/ CancelJob(c) \/ CancelJobOnly(c)
         \/ CancelCommit(c) \/ CancelStale(c) \/ CancelCommitFails(c)
  PROVE  ReqInv'
<1> USE DEF history, counters
<1>t. \A r \in Runs : row[r].version \in Nat /\ row'[r].version \in Nat
  BY DEF TypeOK, RowType
<1>c. ClientInv(c)
  BY DEF ReqInv
<1>1. ASSUME NEW r \in Runs, CancelRead(c, r)
      PROVE  ReqInv'
  <2>1. /\ UNCHANGED <<row, job, wk>>
        /\ \A c2 \in Clients : c2 # c => req'[c2] = req[c2]
        /\ Visible(r) /\ row[r].status \notin TerminalStatuses
    BY <1>1 DEF CancelRead, Cancellable, TypeOK
  <2>2. /\ req'[c].pc \in {"checkJob", "markFailed"}
        /\ req'[c].run = r /\ req'[c].seen = Snapshot(r)
    <3>1. PICK p \in {"checkJob", "markFailed"} :
            req' = [req EXCEPT ![c] = [IdleReq EXCEPT !.pc = p, !.run = r,
                                                      !.seen = Snapshot(r)]]
      BY <1>1 DEF CancelRead
    <3> QED BY <3>1 DEF TypeOK, IdleReq
  <2>3. req'[c].seen.version = row[r].version /\ req'[c].seen.status = row[r].status
    BY <2>2 DEF Snapshot
  <2>4. ClientInv(c)' /\ req'[c].pc \notin CreatePcs
    BY <1>t, <2>1, <2>2, <2>3
       DEF ClientInv, InsertShape, CommitShape, EnqueueShape, CancelShape, JobShape,
           CancelPcs, CreatePcs, Visible
  <2> QED BY <2>1, <2>4, RequestAlone
<1>2. ASSUME NEW r \in Runs, JobDeleteStart(c, r)
      PROVE  ReqInv'
  <2>1. /\ UNCHANGED <<row, job, wk>>
        /\ \A c2 \in Clients : c2 # c => req'[c2] = req[c2]
    BY <1>2 DEF JobDeleteStart, TypeOK
  <2>2. req'[c].pc = "checkJobOnly" /\ req'[c].run = r
    BY <1>2 DEF JobDeleteStart, TypeOK, IdleReq
  <2>3. ClientInv(c)' /\ req'[c].pc \notin CreatePcs
    BY <2>2 DEF ClientInv, InsertShape, CommitShape, EnqueueShape, CancelShape, JobShape,
                CancelPcs, CreatePcs
  <2> QED BY <2>1, <2>3, RequestAlone
<1>3. CASE CheckJob(c)
  <2>1. /\ UNCHANGED <<row, job, wk>>
        /\ \A c2 \in Clients : c2 # c => req'[c2] = req[c2]
    BY <1>3 DEF CheckJob, TypeOK
  <2>2. /\ req[c].pc = "checkJob"
        /\ \/ req'[c].pc = "markFailed"
           \/ req'[c].pc = "cancelJob" /\ job[req[c].run] = "queued"
        /\ req'[c].run = req[c].run /\ req'[c].seen = req[c].seen
    BY <1>3 DEF CheckJob, TypeOK, ReqType
  <2>3. CancelShape(c)'
    BY <1>c, <2>1, <2>2 DEF ClientInv, CancelShape, CancelPcs, Visible
  <2>4. JobShape(c)'
    BY <2>1, <2>2 DEF JobShape
  <2>5. ClientInv(c)' /\ req'[c].pc \notin CreatePcs
    BY <2>2, <2>3, <2>4
       DEF ClientInv, InsertShape, CommitShape, EnqueueShape, CreatePcs
  <2> QED BY <2>1, <2>5, RequestAlone
<1>4. CASE CheckJobOnly(c)
  <2>1. /\ UNCHANGED <<row, job, wk>>
        /\ \A c2 \in Clients : c2 # c => req'[c2] = req[c2]
    BY <1>4 DEF CheckJobOnly, TypeOK
  <2>2. CASE job[req[c].run] # "queued"
    BY <1>4, <2>1, <2>2, AnsweredClient, RequestAlone DEF CheckJobOnly
  <2>3. CASE job[req[c].run] = "queued"
    <3>1. req[c].run \in Runs
      BY <1>4, <1>c DEF CheckJobOnly, ClientInv, JobShape
    <3>2. req'[c].pc = "cancelJobOnly" /\ req'[c].run = req[c].run
      BY <1>4, <2>3 DEF CheckJobOnly, TypeOK, ReqType
    <3>3. ClientInv(c)' /\ req'[c].pc \notin CreatePcs
      BY <2>1, <2>3, <3>1, <3>2
         DEF ClientInv, InsertShape, CommitShape, EnqueueShape, CancelShape, JobShape,
             CancelPcs, CreatePcs
    <3> QED BY <2>1, <3>3, RequestAlone
  <2> QED BY <2>2, <2>3
<1>5. CASE CancelJob(c)
  <2>1. PICK r \in Runs : r = req[c].run /\ job[r] # "none"
    BY <1>5, <1>c DEF CancelJob, ClientInv, JobShape, CancelShape, CancelPcs
  <2>2. /\ req[c].pc = "cancelJob" /\ UNCHANGED <<row, wk>>
        /\ \A c2 \in Clients : c2 # c => req'[c2] = req[c2]
        /\ job'[r] = "canceled" /\ \A x \in Runs : x # r => job'[x] = job[x]
    BY <1>5, <2>1 DEF CancelJob, TypeOK
  <2>3. /\ req'[c].pc = "markFailed" /\ req'[c].run = req[c].run
        /\ req'[c].seen = req[c].seen
    BY <1>5 DEF CancelJob, TypeOK, ReqType
  <2>4. CancelShape(c)'
    BY <1>c, <2>2, <2>3 DEF ClientInv, CancelShape, CancelPcs, Visible
  <2>5. ClientInv(c)' /\ req'[c].pc \notin CreatePcs
    BY <2>3, <2>4
       DEF ClientInv, InsertShape, CommitShape, EnqueueShape, JobShape, CreatePcs
  <2> QED BY <1>t, <2>1, <2>2, <2>5, RequestStep DEF Visible
<1>6. CASE CancelJobOnly(c)
  <2>1. PICK r \in Runs : r = req[c].run /\ job[r] # "none"
    BY <1>6, <1>c DEF CancelJobOnly, ClientInv, JobShape
  <2>2. /\ UNCHANGED <<row, wk>>
        /\ \A c2 \in Clients : c2 # c => req'[c2] = req[c2]
        /\ job'[r] = "canceled" /\ \A x \in Runs : x # r => job'[x] = job[x]
    BY <1>6, <2>1 DEF CancelJobOnly, TypeOK
  <2>3. ClientInv(c)' /\ req'[c].pc \notin CreatePcs
    BY <1>6, AnsweredClient DEF CancelJobOnly
  <2> QED BY <1>t, <2>1, <2>2, <2>3, RequestStep DEF Visible
<1>7. CASE CancelCommit(c)
  <2>1. PICK r \in Runs : r = req[c].run /\ Visible(r)
    BY <1>7, <1>c DEF CancelCommit, ClientInv, CancelShape, CancelPcs
  <2>2. /\ UNCHANGED <<job, wk>>
        /\ \A c2 \in Clients : c2 # c => req'[c2] = req[c2]
        /\ row'[r].state = row[r].state /\ row'[r].version = row[r].version + 1
        /\ row'[r].status = "failed"
        /\ \A x \in Runs : x # r => row'[x] = row[x]
    <3>1. /\ row' = [row EXCEPT ![r].status = "failed", ![r].version = @ + 1]
          /\ req' = [req EXCEPT ![c] = IdleReq]
          /\ UNCHANGED <<job, wk>>
      BY <1>7, <2>1 DEF CancelCommit
    <3> QED BY <3>1 DEF TypeOK, RowType
  <2>3. ClientInv(c)' /\ req'[c].pc \notin CreatePcs
    BY <1>7, AnsweredClient DEF CancelCommit
  <2> QED BY <1>t, <2>1, <2>2, <2>3, RequestStep DEF Visible
<1>8. CASE CancelStale(c) \/ CancelCommitFails(c)
  <2>1. /\ UNCHANGED <<row, job, wk>>
        /\ \A c2 \in Clients : c2 # c => req'[c2] = req[c2]
    BY <1>8 DEF CancelStale, CancelCommitFails, TypeOK
  <2> QED BY <1>8, <2>1, AnsweredClient, RequestAlone DEF CancelStale, CancelCommitFails
<1> QED BY <1>1, <1>2, <1>3, <1>4, <1>5, <1>6, <1>7, <1>8

-----------------------------------------------------------------------------
(* Workers *)

\* What GoTo and Release do to the worker, and Release to its job.
LEMMA GoToEffect ==
  ASSUME TypeOK, NEW w \in Workers, NEW k \in Steps, GoTo(w, k)
  PROVE  /\ wk'[w].run = wk[w].run /\ wk'[w].attempt = 0
         /\ wk'[w].pc = IF k = FailStep THEN "read" ELSE "work"
         /\ wk'[w].step = k
         /\ \A w2 \in Workers : w2 # w => wk'[w2] = wk[w2]
BY DEF GoTo, TypeOK, IdleWk

LEMMA ReleaseEffect ==
  ASSUME TypeOK, NEW w \in Workers, NEW outcome, Release(w, outcome),
         NEW r \in Runs, wk[w].run = r
  PROVE  /\ wk'[w] = IdleWk
         /\ \A w2 \in Workers : w2 # w => wk'[w2] = wk[w2]
         /\ job'[r] = IF job[r] = "none" THEN "none" ELSE outcome
         /\ \A x \in Runs : x # r => job'[x] = job[x]
BY DEF Release, TypeOK

\* A worker that is not idle holds a run, and what holds of both.
LEMMA Holder ==
  ASSUME TypeOK, RunInv, NEW w \in Workers, wk[w].pc # "idle"
  PROVE  /\ wk[w].run \in Runs
         /\ WorkerInv(w) /\ RowInv(wk[w].run)
         /\ job[wk[w].run] # "queued" /\ row[wk[w].run].status # "complete"
BY DEF TypeOK, WkType, RunInv, WorkerInv, WkRun, ExecutorJob

\* A step of a worker on the run it holds.
LEMMA HolderStep ==
  ASSUME TypeOK, RunInv, NEW w \in Workers, NEW r \in Runs, wk[w].run = r,
         \A w2 \in Workers : w2 # w => wk'[w2] = wk[w2],
         wk'[w].run \in {r, NoRun},
         \A x \in Runs : x # r =>
           row'[x] = row[x] /\ job'[x] = job[x] /\ reports'[x] = reports[x],
         crashed \subseteq crashed',
         RowInv(r)',
         WorkerInv(w)'
  PROVE  RunInv'
<1>1. \A w2 \in Workers : wk[w2].run = r => w2 = w
  BY NullAssumption DEF RunInv, SingleExecutor
<1>2. SingleExecutor'
  <2>1. \A w2 \in Workers : w2 # w => wk'[w2].run # r
    BY <1>1
  <2> QED BY <2>1 DEF RunInv, SingleExecutor
<1> QED BY <1>1, <1>2, RunStep

\* A worker that lets go of its run has nothing left to keep true.
LEMMA IdleWorker ==
  ASSUME NEW w \in Workers, wk'[w] = IdleWk
  PROVE  WorkerInv(w)' /\ wk'[w].run = NoRun
BY NullAssumption DEF IdleWk, WorkerInv, WkRun, ExecutorJob, WorkerSeen

\* The worker moves on to another step and writes nothing.
LEMMA GoToRunInv ==
  ASSUME TypeOK, RunInv, NEW w \in Workers, wk[w].pc # "idle",
         NEW k \in Steps, GoTo(w, k), UNCHANGED <<row, job, reports, crashed>>
  PROVE  RunInv'
<1>1. PICK r \in Runs : r = wk[w].run
  BY Holder
<1>2. /\ wk'[w].run = r /\ wk'[w].attempt = 0
      /\ wk'[w].pc = IF k = FailStep THEN "read" ELSE "work"
      /\ wk'[w].step = k
      /\ \A w2 \in Workers : w2 # w => wk'[w2] = wk[w2]
  BY <1>1, GoToEffect
<1>3. WorkerInv(w)'
  <2>1. WkRun(w)' /\ WorkerSeen(w)'
    BY <1>1, <1>2, NullAssumption DEF WkRun, WorkerSeen
  <2>2. ExecutorJob(w)'
    BY <1>1, <1>2, Holder DEF WorkerInv, ExecutorJob, Visible
  <2> QED BY <2>1, <2>2 DEF WorkerInv
<1>4. RowInv(r)'
  BY <1>1, <1>2, Holder DEF RowInv, ReportMatches, NotLeftMidway, Executes, Visible
<1> QED BY <1>1, <1>2, <1>3, <1>4, HolderStep

\* The worker lets go of a run that it does not leave midway.
LEMMA ReleaseRunInv ==
  ASSUME TypeOK, RunInv, NEW w \in Workers, wk[w].pc # "idle",
         Release(w, "failed"), UNCHANGED <<row, reports>>, crashed \subseteq crashed',
         row[wk[w].run].status \notin PipelineStatuses \/ wk[w].run \in crashed'
  PROVE  RunInv'
<1>1. PICK r \in Runs : r = wk[w].run
  BY Holder
<1>2. /\ wk'[w] = IdleWk
      /\ \A w2 \in Workers : w2 # w => wk'[w2] = wk[w2]
      /\ job'[r] = IF job[r] = "none" THEN "none" ELSE "failed"
      /\ \A x \in Runs : x # r => job'[x] = job[x]
  BY <1>1, ReleaseEffect
<1>3. RowInv(r)'
  BY <1>1, <1>2, Holder DEF RowInv, ReportMatches, NotLeftMidway, Visible
<1> QED BY <1>1, <1>2, <1>3, IdleWorker, HolderStep

LEMMA TakeRunInv ==
  ASSUME TypeOK, RunInv, NEW w \in Workers,
         \/ \E r \in Runs : TakeJob(w, r)
         \/ \E r \in Runs, s \in Sites : StartSnapshot(w, r, s)
  PROVE  RunInv'
<1> USE DEF history, counters
<1>1. PICK r \in Runs : TakeJob(w, r) \/ \E s \in Sites : StartSnapshot(w, r, s)
  OBVIOUS
<1>2. /\ wk[w].pc = "idle" /\ wk[w].run = NoRun
      /\ wk'[w].run = r /\ wk'[w].pc = "work" /\ wk'[w].step = 1 /\ wk'[w].attempt = 0
      /\ \A w2 \in Workers : w2 # w => wk'[w2] = wk[w2]
      /\ UNCHANGED <<reports, crashed>>
  <2>1. /\ wk[w].pc = "idle"
        /\ wk' = [wk EXCEPT ![w] = [IdleWk EXCEPT !.pc = "work", !.run = r]]
        /\ UNCHANGED <<reports, crashed>>
    BY <1>1 DEF TakeJob, StartSnapshot
  <2>2. wk[w].run = NoRun
    BY <2>1 DEF RunInv, WorkerInv, WkRun
  <2> QED BY <2>1, <2>2 DEF TypeOK, IdleWk
<1>3. \A w2 \in Workers : wk[w2].run # r
  <2>1. CASE TakeJob(w, r)
    BY <2>1 DEF TakeJob, Takeable, RunInv, WorkerInv, ExecutorJob
  <2>2. CASE \E s \in Sites : StartSnapshot(w, r, s)
    BY <2>2, FreshRun DEF StartSnapshot
  <2> QED BY <1>1, <2>1, <2>2
<1>4. /\ \A x \in Runs : x # r => row'[x] = row[x] /\ job'[x] = job[x]
      /\ job'[r] \in {"none", "started"}
      /\ row'[r].status # "complete"
      /\ job'[r] = "none" => Visible(r)'
      /\ RowInv(r)'
  <2>0. RowInv(r)
    BY DEF RunInv
  <2>1. CASE TakeJob(w, r)
    <3>1. /\ job[r] = "queued" /\ UNCHANGED row /\ job'[r] = "started"
          /\ \A x \in Runs : x # r => job'[x] = job[x]
      BY <2>1 DEF TakeJob, Takeable, TypeOK
    <3>2. RowInv(r)'
      BY <1>2, <2>0, <3>1
         DEF RowInv, ReportMatches, NotLeftMidway, Executes, Visible
    <3> QED BY <2>0, <3>1, <3>2 DEF RowInv
  <2>2. CASE \E s \in Sites : StartSnapshot(w, r, s)
    <3>1. /\ Fresh(r) /\ UNCHANGED job
          /\ row'[r].state = "committed" /\ row'[r].status = "queued"
          /\ row'[r].report = FALSE
          /\ \A x \in Runs : x # r => row'[x] = row[x]
      <4>1. PICK s \in Sites :
              /\ Fresh(r) /\ UNCHANGED job
              /\ row' = [row EXCEPT ![r] = NewRow(s, "committed", "snapshot", NoProgress)]
        BY <2>2 DEF StartSnapshot
      <4> QED BY <4>1 DEF NewRow, TypeOK
    <3>2. RowInv(r)'
      BY <1>2, <3>1, FreshRun
         DEF RowInv, ReportMatches, NotLeftMidway, PipelineStatuses, Fresh
    <3> QED BY <3>1, <3>2 DEF Fresh, Visible
  <2> QED BY <1>1, <2>1, <2>2
<1>5. WorkerInv(w)'
  BY <1>2, <1>4, NullAssumption
     DEF WorkerInv, WkRun, ExecutorJob, WorkerSeen, FailStep
<1>6. SingleExecutor'
  BY <1>2, <1>3 DEF RunInv, SingleExecutor
<1>7. \A w2 \in Workers : wk'[w2] # wk[w2] \/ wk[w2].run = r => w2 = w
  BY <1>2, <1>3
<1> QED BY <1>2, <1>4, <1>5, <1>6, <1>7, RunStep

LEMMA ExecuteRunInv ==
  ASSUME TypeOK, RunInv, NEW w \in Workers, Execute(w) \/ Crash(w)
  PROVE  RunInv'
<1> USE DEF history, counters
<1>h. wk[w].pc # "idle"
  BY DEF Execute, Crash, WorkDone, SkipObserving, WorkRaises, ReadRow, RowMissing, WriteRow,
         RetryWrite, SaveRead, SaveWrite, SaveStale
<1>r. PICK r \in Runs : r = wk[w].run
  BY <1>h, Holder
<1>i. /\ WorkerInv(w) /\ RowInv(r)
      /\ job[r] # "queued" /\ row[r].status # "complete"
  BY <1>h, <1>r, Holder
<1>k. /\ wk[w].step \in Steps
      /\ wk[w].step # FailStep =>
           wk[w].step + 1 \in Steps /\ AfterException(wk[w].step) \in Steps
      /\ FailStep \in Steps /\ AfterObserving \in Steps
  BY NextStep DEF TypeOK, WkType, Steps, FailStep, AfterObserving
<1>1. CASE WorkDone(w)
  <2>1. /\ wk'[w] = [wk[w] EXCEPT !.pc = "read"]
        /\ \A w2 \in Workers : w2 # w => wk'[w2] = wk[w2]
        /\ wk[w] \in WkType
        /\ UNCHANGED <<row, job, reports, crashed>>
    BY <1>1 DEF WorkDone, TypeOK
  <2>2. /\ wk'[w].pc = "read" /\ wk'[w].run = wk[w].run
        /\ wk'[w].attempt = wk[w].attempt
    BY <2>1 DEF WkType
  <2>3. WorkerInv(w)'
    BY <1>h, <1>r, <1>i, <2>1, <2>2
       DEF WorkerInv, WkRun, ExecutorJob, WorkerSeen, Visible
  <2>4. RowInv(r)'
    BY <1>r, <1>i, <2>1, <2>2 DEF RowInv, ReportMatches, NotLeftMidway, Executes, Visible
  <2> QED BY <1>r, <2>1, <2>2, <2>3, <2>4, HolderStep
<1>2. CASE SkipObserving(w) \/ WorkRaises(w) \/ SaveStale(w)
  <2>1. /\ UNCHANGED <<row, job, crashed>>
        /\ reports' = [reports EXCEPT ![r] = reports[r]] \/ UNCHANGED reports
    BY <1>2, <1>r DEF SkipObserving, WorkRaises, SaveStale, ReportsAfterRollback
  <2>2. UNCHANGED <<row, job, reports, crashed>>
    BY <2>1 DEF TypeOK
  <2>3. wk[w].pc = "work" => wk[w].step # FailStep
    BY <1>i DEF WorkerInv, WkRun
  <2>4. \E k \in Steps : GoTo(w, k)
    BY <1>2, <1>k, <2>3 DEF SkipObserving, WorkRaises, SaveStale
  <2> QED BY <1>h, <2>2, <2>4, GoToRunInv
<1>3. ASSUME wk' = [wk EXCEPT ![w].pc = "write", ![w].seen = Snapshot(r)], Visible(r),
             UNCHANGED <<row, job, reports, crashed>>
      PROVE  RunInv'
  <2>1. /\ wk'[w].pc = "write" /\ wk'[w].run = r /\ wk'[w].seen = Snapshot(r)
        /\ wk'[w].attempt = wk[w].attempt
        /\ \A w2 \in Workers : w2 # w => wk'[w2] = wk[w2]
    BY <1>3, <1>r DEF TypeOK, WkType
  <2>2. Snapshot(r).version = row[r].version /\ row[r].version \in Nat
    BY DEF Snapshot, TypeOK, RowType
  <2>3. WorkerInv(w)'
    BY <1>r, <1>h, <1>i, <1>3, <2>1, <2>2
       DEF WorkerInv, WkRun, ExecutorJob, WorkerSeen, Visible
  <2>4. RowInv(r)'
    BY <1>r, <1>i, <1>3, <2>1 DEF RowInv, ReportMatches, NotLeftMidway, Executes, Visible
  <2> QED BY <1>r, <1>3, <2>1, <2>3, <2>4, HolderStep
<1>4. CASE ReadRow(w)
  BY <1>4, <1>3, <1>r DEF ReadRow
<1>5. CASE SaveRead(w)
  <2>1. CASE Visible(r)
    BY <1>5, <2>1, <1>3, <1>r DEF SaveRead
  <2>2. CASE ~Visible(r)
    BY <1>5, <2>2, <1>h, <1>r, <1>k, GoToRunInv DEF SaveRead
  <2> QED BY <2>1, <2>2
<1>6. CASE RowMissing(w)
  <2>1. UNCHANGED <<row, reports, crashed>> /\ ~Visible(r) /\ AfterUpdate(w)
    BY <1>6, <1>r DEF RowMissing
  <2>2. CASE wk[w].step = FailStep
    <3>1. row[r].status \notin PipelineStatuses
      BY <1>i, <2>1, StatusSets DEF RowInv
    <3>2. Release(w, "failed")
      BY <2>1, <2>2 DEF AfterUpdate
    <3> QED BY <1>h, <1>r, <2>1, <3>1, <3>2, ReleaseRunInv
  <2>3. CASE wk[w].step # FailStep
    BY <1>h, <1>k, <2>1, <2>3, GoToRunInv DEF AfterUpdate
  <2> QED BY <2>2, <2>3
<1>7. CASE RetryWrite(w)
  <2>1. /\ wk[w].pc = "write" /\ wk[w].seen.version # row[r].version
        /\ UNCHANGED <<row, reports, crashed>>
    BY <1>7, <1>r DEF RetryWrite, Stale
  <2>2. wk[w].attempt = 0 /\ row[r].status = "failed" /\ Visible(r)
    BY <1>i, <1>r, <2>1 DEF WorkerInv, WorkerSeen
  <2>3. /\ wk' = [wk EXCEPT ![w].pc = "read", ![w].attempt = @ + 1,
                            ![w].seen = NothingSeen]
        /\ UNCHANGED job
    BY <1>7, <2>2 DEF RetryWrite, MaxRetries
  <2>4. /\ wk'[w].pc = "read" /\ wk'[w].run = r /\ wk'[w].attempt = 1
        /\ \A w2 \in Workers : w2 # w => wk'[w2] = wk[w2]
    BY <1>r, <2>2, <2>3 DEF TypeOK, WkType
  <2>5. WorkerInv(w)'
    BY <1>r, <1>h, <1>i, <2>1, <2>2, <2>3, <2>4
       DEF WorkerInv, WkRun, ExecutorJob, WorkerSeen, Visible
  <2>6. RowInv(r)'
    BY <1>r, <1>i, <2>1, <2>3, <2>4
       DEF RowInv, ReportMatches, NotLeftMidway, Executes, Visible
  <2> QED BY <1>r, <2>1, <2>3, <2>4, <2>5, <2>6, HolderStep
<1>8. CASE WriteRow(w)
  <2> DEFINE k == wk[w].step
  <2>1. /\ wk[w].pc = "write" /\ k # SaveStep /\ AfterUpdate(w)
        /\ UNCHANGED <<reports, crashed>>
    BY <1>8 DEF WriteRow
  <2>2. Visible(r)
    BY <1>i, <1>r, <2>1 DEF WorkerInv, WorkerSeen
  <2>3. /\ \/ UNCHANGED row /\ k # FailStep
           \/ row' = [row EXCEPT ![r].status = StatusOf(k),
                                 ![r].progress = StoredProgress(k, wk[w].seen),
                                 ![r].version = @ + 1]
    BY <1>8, <1>r, <1>k, StatusOfType DEF WriteRow, Dirty
  <2>4. /\ row'[r].status \in {row[r].status, StatusOf(k)}
        /\ k = FailStep => row'[r].status = "failed"
        /\ row'[r].report = row[r].report /\ Visible(r)'
        /\ \A x \in Runs : x # r => row'[x] = row[x]
    BY <1>k, <2>2, <2>3, StatusOfType DEF TypeOK, RowType, Visible
  <2>5. row'[r].status # "complete"
    BY <1>i, <1>k, <2>1, <2>4, StatusOfType, StatusSets
  <2>6. ReportMatches(r)'
    BY <1>i, <2>1, <2>4, <2>5 DEF RowInv, ReportMatches
  <2>7. CASE k = FailStep
    <3>1. Release(w, "failed")
      BY <2>1, <2>7 DEF AfterUpdate
    <3>2. /\ wk'[w] = IdleWk
          /\ \A w2 \in Workers : w2 # w => wk'[w2] = wk[w2]
          /\ job'[r] = IF job[r] = "none" THEN "none" ELSE "failed"
          /\ \A x \in Runs : x # r => job'[x] = job[x]
      BY <1>r, <3>1, ReleaseEffect
    <3>3. RowInv(r)'
      BY <2>4, <2>5, <2>6, <2>7, <3>2, StatusSets DEF RowInv, NotLeftMidway
    <3> QED BY <1>r, <2>1, <2>4, <3>2, <3>3, IdleWorker, HolderStep
  <2>8. CASE k # FailStep
    <3>1. GoTo(w, k + 1) /\ UNCHANGED job /\ k + 1 # FailStep /\ k + 1 \in Steps
      BY <1>k, <2>1, <2>8 DEF AfterUpdate, Steps, FailStep, SaveStep
    <3>2. /\ wk'[w].run = r /\ wk'[w].attempt = 0
          /\ wk'[w].pc = "work" /\ wk'[w].step # FailStep
          /\ \A w2 \in Workers : w2 # w => wk'[w2] = wk[w2]
      BY <1>r, <3>1, GoToEffect
    <3>3. WorkerInv(w)'
      BY <1>i, <2>4, <2>5, <3>1, <3>2, NullAssumption
         DEF WorkerInv, WkRun, ExecutorJob, WorkerSeen
    <3>4. RowInv(r)'
      BY <1>i, <2>4, <2>5, <2>6, <3>1, <3>2 DEF RowInv, NotLeftMidway, Executes
    <3> QED BY <1>r, <2>1, <2>4, <3>1, <3>2, <3>3, <3>4, HolderStep
  <2> QED BY <2>7, <2>8
<1>9. CASE SaveWrite(w)
  <2>1. /\ wk[w].pc = "write" /\ UNCHANGED crashed /\ Release(w, "finished")
        /\ row' = [row EXCEPT ![r].status = StatusOf(SaveStep), ![r].report = TRUE,
                              ![r].version = @ + 1]
        /\ reports' = [reports EXCEPT ![r] = @ + 1]
    BY <1>9, <1>r DEF SaveWrite
  <2>2. Visible(r) /\ reports[r] = 0
    BY <1>i, <1>r, <2>1 DEF WorkerInv, WorkerSeen, RowInv, ReportMatches
  <2>3. StatusOf(SaveStep) = "complete"
    BY StatusOfType DEF Steps, SaveStep, FailStep
  <2>4. /\ row'[r].status = "complete" /\ row'[r].report = TRUE /\ Visible(r)'
        /\ reports'[r] = 1
        /\ \A x \in Runs : x # r => row'[x] = row[x] /\ reports'[x] = reports[x]
    BY <2>1, <2>2, <2>3 DEF TypeOK, RowType, Visible
  <2>5. /\ wk'[w] = IdleWk
        /\ \A w2 \in Workers : w2 # w => wk'[w2] = wk[w2]
        /\ job'[r] = IF job[r] = "none" THEN "none" ELSE "finished"
        /\ \A x \in Runs : x # r => job'[x] = job[x]
    BY <1>r, <2>1, ReleaseEffect
  <2>6. RowInv(r)'
    BY <2>4, <2>5, StatusSets DEF RowInv, ReportMatches, NotLeftMidway
  <2> QED BY <1>r, <2>1, <2>4, <2>5, <2>6, IdleWorker, HolderStep
<1>10. CASE Crash(w)
  <2>1. /\ UNCHANGED <<row, reports>> /\ crashed \subseteq crashed' /\ r \in crashed'
        /\ Release(w, "failed")
    BY <1>10, <1>r DEF Crash
  <2> QED BY <1>h, <1>r, <2>1, ReleaseRunInv
<1> QED BY <1>1, <1>2, <1>4, <1>5, <1>6, <1>7, <1>8, <1>9, <1>10 DEF Execute

\* A worker that executes a run moves itself and that run's job, and a job that
\* does not exist is not created.
LEMMA ExecuteEffect ==
  ASSUME TypeOK, RunInv, NEW w \in Workers, Execute(w) \/ Crash(w),
         NEW r \in Runs, r = wk[w].run
  PROVE  /\ \A x \in Runs : job'[x] = "none" <=> job[x] = "none"
         /\ \A x \in Runs : x # r => job'[x] = job[x]
         /\ job'[r] # "queued"
         /\ wk'[w].run \in {r, NoRun}
         /\ \A w2 \in Workers : w2 # w => wk'[w2] = wk[w2]
<1> DEFINE Effect ==
             /\ \A x \in Runs : job'[x] = "none" <=> job[x] = "none"
             /\ \A x \in Runs : x # r => job'[x] = job[x]
             /\ job'[r] # "queued"
             /\ wk'[w].run \in {r, NoRun}
             /\ \A w2 \in Workers : w2 # w => wk'[w2] = wk[w2]
<1>h. wk[w].pc # "idle"
  BY DEF Execute, Crash, WorkDone, SkipObserving, WorkRaises, ReadRow, RowMissing, WriteRow,
         RetryWrite, SaveRead, SaveWrite, SaveStale
<1>q. job[r] # "queued"
  BY <1>h, Holder
<1>1. ASSUME NEW outcome \in {"finished", "failed"}, Release(w, outcome)
      PROVE  Effect
  BY <1>1, ReleaseEffect DEF IdleWk
<1>2. ASSUME NEW k \in Steps, GoTo(w, k), UNCHANGED job
      PROVE  Effect
  BY <1>q, <1>2, GoToEffect
<1> HIDE DEF Effect
<1>k. /\ wk[w].step \in Steps
      /\ wk[w].step # FailStep =>
           wk[w].step + 1 \in Steps /\ AfterException(wk[w].step) \in Steps
      /\ FailStep \in Steps /\ AfterObserving \in Steps
      /\ wk[w].pc = "work" => wk[w].step # FailStep
  BY <1>h, NextStep, Holder
     DEF TypeOK, WkType, Steps, FailStep, AfterObserving, WorkerInv, WkRun
<1>3. ASSUME WorkDone(w) \/ ReadRow(w) \/ SaveRead(w)
      PROVE  Effect
  <2>1. \/ GoTo(w, FailStep)
        \/ wk' = [wk EXCEPT ![w].pc = "read"]
        \/ wk' = [wk EXCEPT ![w].pc = "write", ![w].seen = Snapshot(r)]
    BY <1>3 DEF WorkDone, ReadRow, SaveRead
  <2>2. UNCHANGED job
    BY <1>3 DEF WorkDone, ReadRow, SaveRead
  <2>3. ASSUME GoTo(w, FailStep)
        PROVE  Effect
    BY <1>2, <1>k, <2>2, <2>3
  <2> QED BY <1>q, <2>1, <2>2, <2>3 DEF TypeOK, WkType, Effect
<1>4. ASSUME SkipObserving(w) \/ WorkRaises(w) \/ SaveStale(w)
      PROVE  Effect
  BY <1>2, <1>4, <1>k DEF SkipObserving, WorkRaises, SaveStale
<1>5. ASSUME RowMissing(w) \/ WriteRow(w)
      PROVE  Effect
  BY <1>1, <1>2, <1>5, <1>k DEF RowMissing, WriteRow, AfterUpdate
<1>6. ASSUME RetryWrite(w)
      PROVE  Effect
  <2>1. \/ AfterUpdateRaises(w)
        \/ /\ wk' = [wk EXCEPT ![w].pc = "read", ![w].attempt = @ + 1,
                               ![w].seen = NothingSeen]
           /\ UNCHANGED job
    BY <1>6 DEF RetryWrite
  <2>2. ASSUME AfterUpdateRaises(w)
        PROVE  Effect
    BY <1>1, <1>2, <1>k, <2>2 DEF AfterUpdateRaises
  <2> QED BY <1>q, <2>1, <2>2 DEF TypeOK, WkType, Effect
<1>7. ASSUME SaveWrite(w) \/ Crash(w)
      PROVE  Effect
  BY <1>1, <1>7 DEF SaveWrite, Crash
<1> QED BY <1>3, <1>4, <1>5, <1>6, <1>7 DEF Execute, Effect

\* A worker that executes a run writes to no other row, and only to a committed
\* one, whose version then grows.
LEMMA ExecuteRow ==
  ASSUME TypeOK, RunInv, NEW w \in Workers, Execute(w) \/ Crash(w),
         NEW r \in Runs, r = wk[w].run
  PROVE  \/ UNCHANGED row
         \/ /\ Visible(r) /\ row'[r].state = row[r].state
            /\ row'[r].origin = row[r].origin
            /\ row'[r].version = row[r].version + 1
            /\ \A x \in Runs : x # r => row'[x] = row[x]
<1>1. \/ UNCHANGED row
      \/ /\ wk[w].pc = "write"
         /\ \E s \in Statuses, p \in NoProgress..FailStep :
              row' = [row EXCEPT ![r].status = s, ![r].progress = p,
                                 ![r].version = @ + 1]
      \/ /\ wk[w].pc = "write"
         /\ \E s \in Statuses :
              row' = [row EXCEPT ![r].status = s, ![r].report = TRUE,
                                 ![r].version = @ + 1]
  <2>1. CASE WriteRow(w)
    <3>1. /\ StatusOf(wk[w].step) \in Statuses
          /\ StoredProgress(wk[w].step, wk[w].seen) \in NoProgress..FailStep
      BY StatusOfType, ProgressType DEF TypeOK, WkType
    <3> QED BY <2>1, <3>1 DEF WriteRow
  <2>2. CASE SaveWrite(w)
    <3>1. StatusOf(SaveStep) \in Statuses
      BY StatusOfType DEF Steps, SaveStep, FailStep
    <3> QED BY <2>2, <3>1 DEF SaveWrite
  <2> QED BY <2>1, <2>2
          DEF Execute, Crash, WorkDone, SkipObserving, WorkRaises, ReadRow, RowMissing,
              RetryWrite, SaveRead, SaveStale
<1>2. wk[w].pc = "write" => Visible(r)
  BY Holder DEF WorkerInv, WorkerSeen
<1>3. row \in [Runs -> RowType] /\ row[r] \in RowType
  BY DEF TypeOK
<1>4. ASSUME NEW s \in Statuses, NEW p \in NoProgress..FailStep,
             row' = [row EXCEPT ![r].status = s, ![r].progress = p,
                                ![r].version = @ + 1]
      PROVE  /\ row'[r].state = row[r].state /\ row'[r].origin = row[r].origin
             /\ row'[r].version = row[r].version + 1
             /\ \A x \in Runs : x # r => row'[x] = row[x]
  BY <1>3, <1>4 DEF RowType
<1>5. ASSUME NEW s \in Statuses,
             row' = [row EXCEPT ![r].status = s, ![r].report = TRUE,
                                ![r].version = @ + 1]
      PROVE  /\ row'[r].state = row[r].state /\ row'[r].origin = row[r].origin
             /\ row'[r].version = row[r].version + 1
             /\ \A x \in Runs : x # r => row'[x] = row[x]
  BY <1>3, <1>5 DEF RowType
<1> QED BY <1>1, <1>2, <1>4, <1>5

\* A worker's step leaves every request in flight as it found it.
LEMMA WorkerReqInv ==
  ASSUME TypeOK, TypeOK', RunInv, ReqInv, NEW w \in Workers,
         \/ \E r \in Runs : TakeJob(w, r)
         \/ \E r \in Runs, s \in Sites : StartSnapshot(w, r, s)
         \/ Execute(w) \/ Crash(w)
  PROVE  ReqInv'
<1> USE NullAssumption DEF history, counters
<1>t. \A x \in Runs : row[x].version \in Nat /\ row'[x].version \in Nat
  BY DEF TypeOK, RowType
<1>1. ASSUME NEW r \in Runs, TakeJob(w, r)
      PROVE  ReqInv'
  <2>1. /\ UNCHANGED <<row, req>>
        /\ job[r] = "queued" /\ job'[r] = "started"
        /\ \A x \in Runs : x # r => job'[x] = job[x]
        /\ wk'[w].run = r
        /\ \A w2 \in Workers : w2 # w => wk'[w2] = wk[w2]
    BY <1>1 DEF TakeJob, Takeable, TypeOK, IdleWk
  <2> QED BY <1>t, <2>1, ReqStable DEF Visible
<1>2. ASSUME NEW r \in Runs, NEW s \in Sites, StartSnapshot(w, r, s)
      PROVE  ReqInv'
  <2>1. /\ UNCHANGED <<job, req>> /\ row[r].state = "absent"
        /\ row' = [row EXCEPT ![r] = NewRow(s, "committed", "snapshot", NoProgress)]
        /\ wk' = [wk EXCEPT ![w] = [IdleWk EXCEPT !.pc = "work", !.run = r]]
    BY <1>2 DEF StartSnapshot, Fresh
  <2>2. /\ wk'[w].run = r
        /\ \A w2 \in Workers : w2 # w => wk'[w2] = wk[w2]
        /\ \A x \in Runs : x # r => row'[x] = row[x]
    BY <2>1 DEF TypeOK, IdleWk
  <2> QED BY <1>t, <2>1, <2>2, ReqStable DEF Visible
<1>3. CASE Execute(w) \/ Crash(w)
  <2>1. /\ UNCHANGED req /\ wk[w].pc # "idle"
    BY <1>3 DEF Execute, Crash, WorkDone, SkipObserving, WorkRaises, ReadRow, RowMissing,
                WriteRow, RetryWrite, SaveRead, SaveWrite, SaveStale
  <2>2. PICK r \in Runs : r = wk[w].run
    BY <2>1, Holder
  <2>3. \/ UNCHANGED row
        \/ /\ Visible(r) /\ row'[r].state = row[r].state
           /\ row'[r].version = row[r].version + 1
           /\ \A x \in Runs : x # r => row'[x] = row[x]
    BY <1>3, <2>2, ExecuteRow
  <2>4. /\ \A x \in Runs : job'[x] = "none" <=> job[x] = "none"
        /\ wk'[w].run \in {r, NoRun}
        /\ \A w2 \in Workers : w2 # w => wk'[w2] = wk[w2]
    BY <1>3, <2>2, ExecuteEffect
  <2> QED BY <1>t, <2>1, <2>2, <2>3, <2>4, ReqStable DEF Visible
<1> QED BY <1>1, <1>2, <1>3

-----------------------------------------------------------------------------
(* The invariant is inductive *)

LEMMA Inductive == IInv /\ [Next]_vars => IInv'
<1> SUFFICES ASSUME IInv, [Next]_vars PROVE IInv'
  OBVIOUS
<1>1. CASE UNCHANGED vars
  <2>1. UNCHANGED <<row, reports, job, req, wk, cancelled, crashed, executed,
                    cancels, jobDeletes, crashes, apiFailures>>
    BY <1>1 DEF vars
  <2>2. TypeOK'
    BY <2>1 DEF IInv, TypeOK
  <2>3. RunInv'
    BY <2>1, RunStutter DEF IInv
  <2>4. \A r \in Runs : row[r].version \in Nat
    BY DEF IInv, TypeOK, RowType
  <2>5. ReqInv'
    BY <2>1, <2>2, <2>4, ReqStable DEF IInv, Visible
  <2> QED BY <2>2, <2>3, <2>5 DEF IInv
<1>2. ASSUME NEW c \in Clients, Request(c) \/ Answer(c) \/ ApiFails(c)
      PROVE  IInv'
  <2>1. CASE \/ \E s \in Sites : CreateCheck(c, s)
             \/ \E r \in Runs : CreateEnqueue(c, r)
             \/ CreateEnqueueFails(c)
             \/ \E r \in Runs : WebEnqueueFails(c, r)
             \/ CreateCommit(c)
             \/ CreateCommitFails(c)
    BY <2>1, CreateType, CreateRunInv, CreateReqInv DEF IInv
  <2>2. CASE \/ \E r \in Runs : PublicCommit(c, r)
             \/ PublicEnqueue(c)
             \/ PublicEnqueueFails(c)
    BY <2>2, PublicType, PublicRunInv, PublicReqInv DEF IInv
  <2>3. CASE \/ \E r \in Runs : CancelRead(c, r) \/ JobDeleteStart(c, r)
             \/ CheckJob(c) \/ CheckJobOnly(c)
             \/ CancelJob(c) \/ CancelJobOnly(c)
             \/ CancelCommit(c) \/ CancelStale(c) \/ CancelCommitFails(c)
    BY <2>3, CancelType, CancelRunInv, CancelReqInv DEF IInv
  <2> QED BY <1>2, <2>1, <2>2, <2>3 DEF Request, Answer, ApiFails
<1>3. ASSUME NEW w \in Workers,
             \/ \E r \in Runs : TakeJob(w, r)
             \/ \E r \in Runs, s \in Sites : StartSnapshot(w, r, s)
             \/ Execute(w) \/ Crash(w)
      PROVE  IInv'
  <2>1. TypeOK'
    BY <1>3, WorkerType DEF IInv
  <2>2. RunInv'
    BY <1>3, TakeRunInv, ExecuteRunInv DEF IInv
  <2>3. ReqInv'
    BY <1>3, <2>1, WorkerReqInv DEF IInv
  <2> QED BY <2>1, <2>2, <2>3 DEF IInv
<1> QED BY <1>1, <1>2, <1>3 DEF Next

LEMMA Invariance == Spec => []IInv
BY InitIInv, Inductive, PTL DEF Spec

-----------------------------------------------------------------------------
(* Theorems *)

\* Every variable stays in its domain, and every inserted row has its site.
THEOREM TypeCorrect == Spec => []TypeOK
<1>1. IInv => TypeOK
  BY DEF IInv
<1> QED BY <1>1, Invariance, PTL

\* A run never has two workers.
THEOREM OneExecutor == Spec => []SingleExecutor
<1>1. IInv => SingleExecutor
  BY DEF IInv, RunInv
<1> QED BY <1>1, Invariance, PTL

\* A run is complete exactly when it has its report, and has one report only.
THEOREM ReportsMatchRuns == Spec => []ReportIffComplete
<1>1. IInv => ReportIffComplete
  BY DEF IInv, RunInv, RowInv, ReportMatches, ReportIffComplete
<1> QED BY <1>1, Invariance, PTL

\* The branch of update_run_status that gives up is dead.
THEOREM RetriesSuffice == Spec => []RetryNeverExhausted
<1>1. IInv => RetryNeverExhausted
  BY DEF IInv, TypeOK, WkType, MaxRetries, RunInv, WorkerInv, WorkerSeen,
         RetryNeverExhausted
<1> QED BY <1>1, Invariance, PTL

\* Only a killed worker leaves a run in the middle of the pipeline.
THEOREM NothingLeftMidway == Spec => []NoRunLeftMidway
<1>1. IInv => NoRunLeftMidway
  BY DEF IInv, RunInv, RowInv, NotLeftMidway, NoRunLeftMidway
<1> QED BY <1>1, Invariance, PTL

\* A finished job has a complete run behind it.
THEOREM FinishedMeansComplete == Spec => []FinishedJobHasReport
<1>1. IInv => FinishedJobHasReport
  BY DEF IInv, RunInv, RowInv, FinishedJobHasReport
<1> QED BY <1>1, Invariance, PTL

-----------------------------------------------------------------------------
(* Action properties *)

\* Steps that change the row of a run whose status they know not to be complete.
LEMMA CompleteStep == IInv /\ Next =>
  \A r \in Runs : row[r].status = "complete" => row'[r] = row[r]
<1> SUFFICES ASSUME IInv, Next, NEW r \in Runs, row[r].status = "complete"
             PROVE  row'[r] = row[r]
  OBVIOUS
<1> USE DEF history, counters
<1>t. TypeOK /\ RunInv /\ ReqInv /\ RowInv(r)
  BY DEF IInv, RunInv
<1>v. Visible(r)
  BY <1>t DEF RowInv
<1>1. ASSUME NEW c \in Clients, Request(c) \/ Answer(c) \/ ApiFails(c)
      PROVE  row'[r] = row[r]
  <2>1. CASE \E x \in Runs :
               CreateEnqueue(c, x) \/ WebEnqueueFails(c, x) \/ PublicCommit(c, x)
    BY <2>1, <1>t, <1>v
       DEF CreateEnqueue, WebEnqueueFails, PublicCommit, Fresh, Visible, TypeOK
  <2>2. CASE CreateCommit(c) \/ CreateCommitFails(c)
    <3>1. req[c].run # r
      BY <2>2, <1>t, <1>v DEF CreateCommit, CreateCommitFails, ReqInv, ClientInv, CommitShape, Visible
    <3> QED BY <2>2, <3>1, <1>t DEF CreateCommit, CreateCommitFails, TypeOK
  <2>3. CASE CancelCommit(c)
    <3>1. row[req[c].run].status \notin TerminalStatuses
      BY <2>3, <1>t DEF CancelCommit, Stale, ReqInv, ClientInv, CancelShape, CancelPcs
    <3>2. req[c].run # r
      BY <3>1 DEF TerminalStatuses
    <3> QED BY <2>3, <3>2, <1>t DEF CancelCommit, TypeOK
  <2> QED BY <1>1, <2>1, <2>2, <2>3
          DEF Request, Answer, ApiFails, CreateCheck, CreateEnqueueFails, PublicEnqueue,
              PublicEnqueueFails, CancelRead, JobDeleteStart, CheckJob, CheckJobOnly,
              CancelJob, CancelJobOnly, CancelStale, CancelCommitFails
<1>2. ASSUME NEW w \in Workers,
             \/ \E x \in Runs : TakeJob(w, x)
             \/ \E x \in Runs, s \in Sites : StartSnapshot(w, x, s)
             \/ Execute(w) \/ Crash(w)
      PROVE  row'[r] = row[r]
  <2>1. CASE \E x \in Runs, s \in Sites : StartSnapshot(w, x, s)
    BY <2>1, <1>t, <1>v DEF StartSnapshot, Fresh, Visible, TypeOK
  <2>2. CASE WriteRow(w) \/ SaveWrite(w)
    <3>1. wk[w].run # r
      BY <2>2, <1>t, Holder DEF WriteRow, SaveWrite
    <3> QED BY <2>2, <3>1, <1>t DEF WriteRow, SaveWrite, TypeOK
  <2> QED BY <1>2, <2>1, <2>2
          DEF TakeJob, Execute, Crash, WorkDone, SkipObserving, WorkRaises, ReadRow, RowMissing,
              RetryWrite, SaveRead, SaveStale
<1> QED BY <1>1, <1>2 DEF Next

\* Once a run is complete no cancellation in flight and no late write changes
\* its row.
THEOREM ResultsAreFinal == Spec => CompleteIsFinal
<1>1. IInv /\ [Next]_vars =>
        [\A r \in Runs : row[r].status = "complete" => row'[r] = row[r]]_vars
  BY CompleteStep
<1> QED BY <1>1, Invariance, PTL DEF Spec, CompleteIsFinal

\* No step takes up, or files again, a canceled job that nobody executes.
LEMMA CanceledStep == IInv /\ Next =>
  \A r \in Runs :
    job[r] = "canceled" /\ ~(\E w \in Workers : Executes(w, r))
      => job'[r] = "canceled" /\ ~(\E w \in Workers : Executes(w, r))'
<1> SUFFICES ASSUME IInv, Next, NEW r \in Runs, job[r] = "canceled",
                    \A w \in Workers : wk[w].run # r
             PROVE  job'[r] = "canceled" /\ \A w \in Workers : wk'[w].run # r
  BY DEF Executes
<1> USE NullAssumption DEF history, counters
<1>t. TypeOK /\ RunInv /\ ReqInv
  BY DEF IInv
<1>1. ASSUME NEW c \in Clients, Request(c) \/ Answer(c) \/ ApiFails(c)
      PROVE  job'[r] = "canceled" /\ wk' = wk
  <2>1. wk' = wk
    BY <1>1 DEF Request, Answer, ApiFails, CreateCheck, CreateEnqueueFails, PublicEnqueue,
                PublicEnqueueFails, CancelRead, JobDeleteStart, CheckJob, CheckJobOnly,
                CancelJob, CancelJobOnly, CancelStale, CancelCommitFails, CancelCommit,
                CreateEnqueue, WebEnqueueFails, PublicCommit, CreateCommit,
                CreateCommitFails
  <2>2. CASE PublicEnqueue(c)
    BY <2>2, <1>t DEF PublicEnqueue, ReqInv, ClientInv, EnqueueShape, TypeOK
  <2>3. CASE \/ CancelJob(c) \/ CancelJobOnly(c)
             \/ \E x \in Runs : CreateEnqueue(c, x)
    BY <2>3, <1>t DEF CancelJob, CancelJobOnly, CreateEnqueue, Fresh, TypeOK
  <2> QED BY <1>1, <2>1, <2>2, <2>3
          DEF Request, Answer, ApiFails, CreateCheck, CreateEnqueueFails,
              PublicEnqueueFails, CancelRead, JobDeleteStart, CheckJob, CheckJobOnly,
              CancelStale, CancelCommitFails, CancelCommit, WebEnqueueFails, PublicCommit,
              CreateCommit, CreateCommitFails
<1>2. ASSUME NEW w \in Workers, NEW x \in Runs,
             TakeJob(w, x) \/ \E s \in Sites : StartSnapshot(w, x, s)
      PROVE  job'[r] = "canceled" /\ \A w2 \in Workers : wk'[w2].run # r
  <2>1. /\ wk' = [wk EXCEPT ![w] = [IdleWk EXCEPT !.pc = "work", !.run = x]]
        /\ x # r
        /\ UNCHANGED job \/ job' = [job EXCEPT ![x] = "started"]
    BY <1>2 DEF TakeJob, Takeable, StartSnapshot, Fresh
  <2> QED BY <2>1, <1>t DEF TypeOK, IdleWk
<1>3. ASSUME NEW w \in Workers, Execute(w) \/ Crash(w)
      PROVE  job'[r] = "canceled" /\ \A w2 \in Workers : wk'[w2].run # r
  <2>1. PICK x \in Runs : x = wk[w].run
    <3>1. wk[w].pc # "idle"
      BY <1>3 DEF Execute, Crash, WorkDone, SkipObserving, WorkRaises, ReadRow, RowMissing,
                  WriteRow, RetryWrite, SaveRead, SaveWrite, SaveStale
    <3> QED BY <3>1, <1>t, Holder
  <2>2. /\ wk'[w].run \in {x, NoRun}
        /\ \A w2 \in Workers : w2 # w => wk'[w2] = wk[w2]
        /\ \A y \in Runs : y # x => job'[y] = job[y]
    BY <1>3, <1>t, <2>1, ExecuteEffect
  <2> QED BY <2>1, <2>2
<1> QED BY <1>1, <1>2, <1>3 DEF Next

\* A job cancelled before a worker took it is never executed.
THEOREM CancelledJobsStayIdle == Spec => CancelledJobNeverRuns
<1>1. IInv /\ [Next]_vars =>
        [\A r \in Runs :
           job[r] = "canceled" /\ ~(\E w \in Workers : Executes(w, r))
             => job'[r] = "canceled" /\ ~(\E w \in Workers : Executes(w, r))']_vars
  BY CanceledStep
<1> QED BY <1>1, Invariance, PTL DEF Spec, CancelledJobNeverRuns

-----------------------------------------------------------------------------
(* AuditRuns implements RunLifecycle: what the refinement needs beyond the  *)
(* invariant, and one lemma per kind of step.                               *)

\* A run that was taken up never waits in the queue again.
TakenRun(r) ==
  r \in executed => job[r] # "queued" /\ (job[r] = "none" => Visible(r))

\* A run whose job waits has its first status, a snapshot run has no job, and
\* only the API flushes a row before it commits it.
QueuedRun(r) ==
  /\ row[r].state = "pending" => row[r].origin = "api"
  /\ job[r] = "queued" => row[r].status = "queued"
  /\ Visible(r) /\ row[r].origin = "snapshot" => job[r] = "none"

HeldTaken(w) == wk[w].run \in Runs => wk[w].run \in executed

\* The job of a public run is enqueued once; the other runs can be cancelled,
\* and are marked as failed when their job waits no more.
RequestOrigin(c) ==
  /\ req[c].pc = "enqueue" => /\ req[c].run \notin executed
                              /\ row[req[c].run].origin = "public"
                              /\ row[req[c].run].status = "queued"
  /\ req[c].pc \in CancelPcs => row[req[c].run].origin # "public"
  /\ req[c].pc = "markFailed" => job[req[c].run] # "queued"

HistoryInv ==
  /\ \A r \in Runs : TakenRun(r) /\ QueuedRun(r)
  /\ \A w \in Workers : HeldTaken(w)
  /\ \A c \in Clients : RequestOrigin(c)

LEMMA InitHistoryInv == Init => HistoryInv
BY NullAssumption
   DEF Init, HistoryInv, TakenRun, QueuedRun, HeldTaken, RequestOrigin, AbsentRow, IdleReq,
       IdleWk, Visible, CancelPcs

-----------------------------------------------------------------------------
(* The history is inductive *)

\* A step of client c that touches run x alone.
LEMMA RequestHistory ==
  ASSUME IInv, HistoryInv, NEW c \in Clients, NEW x \in Runs,
         UNCHANGED <<wk, executed>>,
         \A c2 \in Clients : c2 # c => req'[c2] = req[c2],
         \A r \in Runs : r # x => row'[r] = row[r] /\ job'[r] = job[r],
         TakenRun(x)' /\ QueuedRun(x)' /\ RequestOrigin(c)',
         \A c2 \in Clients : c2 # c /\ req[c2].run = x => RequestOrigin(c2)'
  PROVE  HistoryInv'
<1>1. \A r \in Runs : TakenRun(r)' /\ QueuedRun(r)'
  BY DEF HistoryInv, TakenRun, QueuedRun, Visible
<1>2. \A w \in Workers : HeldTaken(w)'
  BY DEF HistoryInv, HeldTaken
<1>3. ASSUME NEW c2 \in Clients, c2 # c, req[c2].run # x
      PROVE  RequestOrigin(c2)'
  <2>1. req[c2].pc = "enqueue" \/ req[c2].pc \in CancelPcs => req[c2].run \in Runs
    BY DEF IInv, ReqInv, ClientInv, EnqueueShape, CancelShape
  <2> QED BY <1>3, <2>1 DEF HistoryInv, RequestOrigin, CancelPcs
<1> QED BY <1>1, <1>2, <1>3 DEF HistoryInv

\* A step of client c that touches no run.
LEMMA RequestHistoryAlone ==
  ASSUME HistoryInv, NEW c \in Clients,
         UNCHANGED <<row, job, wk, executed>>,
         \A c2 \in Clients : c2 # c => req'[c2] = req[c2],
         RequestOrigin(c)'
  PROVE  HistoryInv'
BY DEF HistoryInv, TakenRun, QueuedRun, HeldTaken, RequestOrigin, Visible

LEMMA AnsweredOrigin ==
  ASSUME TypeOK, NEW c \in Clients, req' = [req EXCEPT ![c] = IdleReq]
  PROVE  /\ RequestOrigin(c)'
         /\ \A c2 \in Clients : c2 # c => req'[c2] = req[c2]
BY DEF TypeOK, IdleReq, RequestOrigin, CancelPcs

\* A run that no row shows yet was not taken up unless it has a job, and no
\* request for its enqueueing or cancellation is in flight.
LEMMA HiddenRun ==
  ASSUME IInv, HistoryInv, NEW x \in Runs, ~Visible(x)
  PROVE  /\ job[x] = "none" => x \notin executed
         /\ \A c \in Clients :
              req[c].run = x => req[c].pc # "enqueue" /\ req[c].pc \notin CancelPcs
BY DEF HistoryInv, TakenRun, IInv, ReqInv, ClientInv, EnqueueShape, CancelShape

\* A request that is neither enqueueing nor cancelling has no origin to keep.
LEMMA OtherOrigin ==
  ASSUME NEW c \in Clients, req'[c] = req[c],
         req[c].pc # "enqueue" /\ req[c].pc \notin CancelPcs
  PROVE  RequestOrigin(c)'
BY DEF RequestOrigin, CancelPcs

LEMMA CreateHistory ==
  ASSUME IInv, HistoryInv, NEW c \in Clients,
         \/ \E s \in Sites : CreateCheck(c, s)
         \/ \E r \in Runs : CreateEnqueue(c, r)
         \/ CreateEnqueueFails(c)
         \/ \E r \in Runs : WebEnqueueFails(c, r)
         \/ CreateCommit(c)
         \/ CreateCommitFails(c)
  PROVE  HistoryInv'
<1> USE DEF history, counters
<1>t. TypeOK /\ RunInv /\ ReqInv
  BY DEF IInv
<1>1. ASSUME NEW s \in Sites, CreateCheck(c, s)
      PROVE  HistoryInv'
  <2>1. /\ UNCHANGED <<row, job, wk, executed>> /\ req'[c].pc = "insert"
        /\ \A c2 \in Clients : c2 # c => req'[c2] = req[c2]
    BY <1>1, <1>t DEF CreateCheck, TypeOK, IdleReq
  <2> QED BY <2>1, RequestHistoryAlone DEF RequestOrigin, CancelPcs
<1>2. ASSUME NEW x \in Runs, CreateEnqueue(c, x)
      PROVE  HistoryInv'
  <2>1. /\ ~Visible(x) /\ job[x] = "none" /\ UNCHANGED <<wk, executed>>
        /\ row' = [row EXCEPT ![x] =
                     NewRow(req[c].site, "pending", "api", InitialProgress)]
        /\ job' = [job EXCEPT ![x] = "queued"]
        /\ req' = [req EXCEPT ![c].pc = "commit", ![c].run = x]
    BY <1>2 DEF CreateEnqueue, Fresh, Visible
  <2>2. /\ \A r \in Runs : r # x => row'[r] = row[r] /\ job'[r] = job[r]
        /\ row'[x].state = "pending" /\ row'[x].status = "queued"
        /\ row'[x].origin = "api" /\ job'[x] = "queued"
    BY <1>t, <2>1 DEF TypeOK, NewRow
  <2>3. /\ req'[c].pc = "commit"
        /\ \A c2 \in Clients : c2 # c => req'[c2] = req[c2]
    BY <1>t, <2>1 DEF TypeOK, ReqType
  <2>4. TakenRun(x)' /\ QueuedRun(x)' /\ RequestOrigin(c)'
    BY <2>1, <2>2, <2>3, HiddenRun DEF TakenRun, QueuedRun, RequestOrigin, Visible, CancelPcs
  <2> QED BY <2>1, <2>2, <2>3, <2>4, HiddenRun, OtherOrigin, RequestHistory
<1>3. CASE CreateEnqueueFails(c)
  BY <1>3, <1>t, AnsweredOrigin, RequestHistoryAlone DEF CreateEnqueueFails
<1>4. ASSUME NEW x \in Runs, WebEnqueueFails(c, x)
      PROVE  HistoryInv'
  <2>1. /\ ~Visible(x) /\ job[x] = "none" /\ UNCHANGED <<job, wk, executed>>
        /\ row' = [row EXCEPT ![x] =
             [NewRow(req[c].site, "committed", "api", InitialProgress)
                EXCEPT !.status = "failed"]]
        /\ req' = [req EXCEPT ![c] = IdleReq]
    BY <1>4 DEF WebEnqueueFails, Fresh, Visible
  <2>2. /\ \A r \in Runs : r # x => row'[r] = row[r]
        /\ row'[x].state = "committed" /\ row'[x].origin = "api"
    BY <1>t, <2>1 DEF TypeOK, NewRow
  <2>3. TakenRun(x)' /\ QueuedRun(x)'
    BY <2>1, <2>2, HiddenRun DEF TakenRun, QueuedRun, Visible
  <2>4. /\ RequestOrigin(c)'
        /\ \A c2 \in Clients : c2 # c => req'[c2] = req[c2]
    BY <1>t, <2>1, AnsweredOrigin
  <2>5. \A c2 \in Clients : c2 # c /\ req[c2].run = x => RequestOrigin(c2)'
    BY <2>1, <2>4, HiddenRun, OtherOrigin
  <2> QED BY <2>1, <2>2, <2>3, <2>4, <2>5, RequestHistory
<1>5. CASE CreateCommit(c) \/ CreateCommitFails(c)
  <2>1. PICK x \in Runs : x = req[c].run /\ row[x].state = "pending"
    BY <1>5, <1>t DEF CreateCommit, CreateCommitFails, ReqInv, ClientInv, CommitShape
  <2>2. /\ UNCHANGED <<job, wk, executed>> /\ req' = [req EXCEPT ![c] = IdleReq]
        /\ \/ row' = [row EXCEPT ![x].state = "committed"]
           \/ row' = [row EXCEPT ![x] = AbsentRow]
    BY <1>5, <2>1 DEF CreateCommit, CreateCommitFails
  <2>3. /\ \A r \in Runs : r # x => row'[r] = row[r]
        /\ \/ row'[x].state = "committed" /\ row'[x].origin = row[x].origin
           \/ row'[x].state = "absent"
        /\ row'[x].status = "queued"
    <3>1. row[x].status = "queued" /\ row[x] \in RowType /\ row \in [Runs -> RowType]
      BY <1>t, <2>1, PendingRun DEF TypeOK
    <3>2. CASE row' = [row EXCEPT ![x].state = "committed"]
      BY <3>1, <3>2 DEF RowType
    <3>3. CASE row' = [row EXCEPT ![x] = AbsentRow]
      BY <3>1, <3>3 DEF AbsentRow
    <3> QED BY <2>2, <3>2, <3>3
  <2>4. TakenRun(x) /\ QueuedRun(x) /\ ~Visible(x)
    BY <2>1 DEF HistoryInv, Visible
  <2>5. UNCHANGED <<job, executed>>
    BY <2>2
  <2>6. TakenRun(x)'
    BY <2>4, <2>5 DEF TakenRun
  <2>7. QueuedRun(x)'
    BY <2>1, <2>3, <2>4, <2>5 DEF QueuedRun, Visible
  <2>8. /\ RequestOrigin(c)'
        /\ \A c2 \in Clients : c2 # c => req'[c2] = req[c2]
    BY <1>t, <2>2, AnsweredOrigin
  <2>9. \A c2 \in Clients : c2 # c /\ req[c2].run = x => RequestOrigin(c2)'
    BY <2>4, <2>8, HiddenRun, OtherOrigin
  <2> QED BY <2>2, <2>3, <2>6, <2>7, <2>8, <2>9, RequestHistory
<1> QED BY <1>1, <1>2, <1>3, <1>4, <1>5

LEMMA PublicHistory ==
  ASSUME IInv, HistoryInv, NEW c \in Clients,
         \/ \E r \in Runs : PublicCommit(c, r)
         \/ PublicEnqueue(c)
         \/ PublicEnqueueFails(c)
  PROVE  HistoryInv'
<1> USE DEF history, counters
<1>t. TypeOK /\ RunInv /\ ReqInv
  BY DEF IInv
<1>1. ASSUME NEW x \in Runs, PublicCommit(c, x)
      PROVE  HistoryInv'
  <2>1. /\ ~Visible(x) /\ job[x] = "none" /\ UNCHANGED <<job, wk, executed>>
        /\ row' = [row EXCEPT ![x] = NewRow(PublicSite, "committed", "public", NoProgress)]
        /\ req' = [req EXCEPT ![c] = [IdleReq EXCEPT !.pc = "enqueue", !.run = x]]
    BY <1>1 DEF PublicCommit, Fresh, Visible
  <2>2. /\ \A r \in Runs : r # x => row'[r] = row[r]
        /\ row'[x].state = "committed" /\ row'[x].status = "queued"
        /\ row'[x].origin = "public"
    BY <1>t, <2>1 DEF TypeOK, NewRow
  <2>3. /\ req'[c].pc = "enqueue" /\ req'[c].run = x
        /\ \A c2 \in Clients : c2 # c => req'[c2] = req[c2]
    BY <1>t, <2>1 DEF TypeOK, IdleReq
  <2>4. TakenRun(x)' /\ QueuedRun(x)' /\ RequestOrigin(c)'
    BY <2>1, <2>2, <2>3, HiddenRun DEF TakenRun, QueuedRun, RequestOrigin, Visible, CancelPcs
  <2> QED BY <2>1, <2>2, <2>3, <2>4, HiddenRun, OtherOrigin, RequestHistory
<1>2. CASE PublicEnqueue(c)
  <2>1. PICK x \in Runs : x = req[c].run
    BY <1>2, <1>t DEF PublicEnqueue, ReqInv, ClientInv, EnqueueShape
  <2>2. /\ req[c].pc = "enqueue" /\ UNCHANGED <<row, wk, executed>>
        /\ job' = [job EXCEPT ![x] = "queued"]
        /\ req' = [req EXCEPT ![c] = IdleReq]
    BY <1>2, <2>1 DEF PublicEnqueue
  <2>3. x \notin executed /\ row[x].origin = "public" /\ row[x].status = "queued"
    BY <2>1, <2>2 DEF HistoryInv, RequestOrigin
  <2>4. /\ \A r \in Runs : r # x => job'[r] = job[r]
        /\ Visible(x)
    BY <1>t, <2>1, <2>2 DEF TypeOK, ReqInv, ClientInv, EnqueueShape
  <2>5. TakenRun(x)' /\ QueuedRun(x)'
    BY <2>2, <2>3, <2>4 DEF TakenRun, QueuedRun, Visible
  <2>6. ASSUME NEW c2 \in Clients, c2 # c, req[c2].run = x
        PROVE  req[c2].pc # "enqueue" /\ req[c2].pc \notin CancelPcs
    BY <1>t, <2>1, <2>2, <2>3, <2>6
       DEF ReqInv, CreatorUnique, CreatePcs, HistoryInv, RequestOrigin
  <2> QED BY <1>t, <2>2, <2>4, <2>5, <2>6, AnsweredOrigin, OtherOrigin, RequestHistory
<1>3. CASE PublicEnqueueFails(c)
  BY <1>3, <1>t, AnsweredOrigin, RequestHistoryAlone DEF PublicEnqueueFails
<1> QED BY <1>1, <1>2, <1>3

LEMMA CancelHistory ==
  ASSUME IInv, HistoryInv, NEW c \in Clients,
         \/ \E r \in Runs : CancelRead(c, r) \/ JobDeleteStart(c, r)
         \/ CheckJob(c) \/ CheckJobOnly(c)
         \/ CancelJob(c) \/ CancelJobOnly(c)
         \/ CancelCommit(c) \/ CancelStale(c) \/ CancelCommitFails(c)
  PROVE  HistoryInv'
<1> USE DEF history, counters
<1>t. TypeOK /\ RunInv /\ ReqInv /\ ClientInv(c) /\ RequestOrigin(c)
  BY DEF IInv, ReqInv, HistoryInv
<1>1. ASSUME NEW x \in Runs, CancelRead(c, x)
      PROVE  HistoryInv'
  <2>1. PICK p \in {"checkJob", "markFailed"} :
          /\ req' = [req EXCEPT ![c] = [IdleReq EXCEPT !.pc = p, !.run = x,
                                                       !.seen = Snapshot(x)]]
          /\ p = "markFailed" => row[x].origin # "api"
    BY <1>1 DEF CancelRead
  <2>2. /\ UNCHANGED <<row, job, wk, executed>>
        /\ Visible(x) /\ row[x].origin # "public"
    BY <1>1 DEF CancelRead
  <2>3. /\ req'[c].pc = p /\ req'[c].run = x
        /\ \A c2 \in Clients : c2 # c => req'[c2] = req[c2]
    BY <1>t, <2>1 DEF TypeOK, IdleReq
  <2>4. p = "markFailed" => job[x] # "queued"
    BY <1>t, <2>1, <2>2 DEF TypeOK, RowType, HistoryInv, QueuedRun
  <2> QED BY <2>2, <2>3, <2>4, RequestHistoryAlone DEF RequestOrigin, CancelPcs
<1>2. ASSUME NEW x \in Runs, JobDeleteStart(c, x)
      PROVE  HistoryInv'
  <2>1. /\ req'[c].pc = "checkJobOnly"
        /\ \A c2 \in Clients : c2 # c => req'[c2] = req[c2]
    BY <1>2, <1>t DEF JobDeleteStart, TypeOK, IdleReq
  <2>2. UNCHANGED <<row, job, wk, executed>>
    BY <1>2 DEF JobDeleteStart
  <2> QED BY <2>1, <2>2, RequestHistoryAlone DEF RequestOrigin, CancelPcs
<1>3. CASE CheckJob(c)
  <2>1. /\ req[c].pc = "checkJob"
        /\ \/ req'[c].pc = "markFailed" /\ job[req[c].run] # "queued"
           \/ req'[c].pc = "cancelJob"
        /\ req'[c].run = req[c].run
        /\ \A c2 \in Clients : c2 # c => req'[c2] = req[c2]
    BY <1>3, <1>t DEF CheckJob, TypeOK, ReqType
  <2>2. UNCHANGED <<row, job, wk, executed>>
    BY <1>3 DEF CheckJob
  <2> QED BY <1>t, <2>1, <2>2, RequestHistoryAlone DEF RequestOrigin, CancelPcs
<1>4. CASE CheckJobOnly(c)
  <2>1. /\ req'[c].pc \in {"cancelJobOnly", "idle"}
        /\ \A c2 \in Clients : c2 # c => req'[c2] = req[c2]
    BY <1>4, <1>t DEF CheckJobOnly, TypeOK, ReqType, IdleReq
  <2>2. UNCHANGED <<row, job, wk, executed>>
    BY <1>4 DEF CheckJobOnly
  <2> QED BY <2>1, <2>2, RequestHistoryAlone DEF RequestOrigin, CancelPcs
<1>5. CASE CancelJob(c) \/ CancelJobOnly(c)
  <2>1. PICK x \in Runs : x = req[c].run /\ job[x] # "none"
    BY <1>5, <1>t DEF CancelJob, CancelJobOnly, ClientInv, JobShape, CancelShape, CancelPcs
  <2>2. /\ UNCHANGED <<row, wk, executed>>
        /\ job' = [job EXCEPT ![x] = "canceled"]
    BY <1>5, <2>1 DEF CancelJob, CancelJobOnly
  <2>3. job'[x] = "canceled" /\ \A r \in Runs : r # x => job'[r] = job[r]
    BY <1>t, <2>2 DEF TypeOK
  <2>4. TakenRun(x)' /\ QueuedRun(x)'
    BY <2>1, <2>2, <2>3 DEF HistoryInv, TakenRun, QueuedRun, Visible
  <2>5. ASSUME NEW c2 \in Clients, c2 # c, req'[c2] = req[c2], req[c2].run = x
        PROVE  RequestOrigin(c2)'
    <3>1. RequestOrigin(c2) /\ req[c2].pc # "enqueue"
      BY <1>t, <2>1, <2>5 DEF HistoryInv, ReqInv, ClientInv, EnqueueShape
    <3> QED BY <2>2, <2>3, <2>5, <3>1 DEF RequestOrigin, CancelPcs
  <2>6. /\ \A c2 \in Clients : c2 # c => req'[c2] = req[c2]
        /\ RequestOrigin(c)'
    <3>1. CASE CancelJobOnly(c)
      BY <1>t, <3>1, AnsweredOrigin DEF CancelJobOnly
    <3>2. CASE CancelJob(c)
      <4>1. /\ req[c].pc = "cancelJob" /\ req'[c].pc = "markFailed"
            /\ req'[c].run = req[c].run
            /\ \A c2 \in Clients : c2 # c => req'[c2] = req[c2]
        BY <1>t, <3>2 DEF CancelJob, TypeOK, ReqType
      <4> QED BY <1>t, <2>1, <2>2, <2>3, <4>1 DEF RequestOrigin, CancelPcs
    <3> QED BY <1>5, <3>1, <3>2
  <2> QED BY <2>2, <2>3, <2>4, <2>5, <2>6, RequestHistory
<1>6. CASE CancelCommit(c)
  <2>1. PICK x \in Runs : x = req[c].run
    BY <1>6, <1>t DEF CancelCommit, ClientInv, CancelShape, CancelPcs
  <2>2. /\ req[c].pc = "markFailed" /\ UNCHANGED <<job, wk, executed>>
        /\ row' = [row EXCEPT ![x].status = "failed", ![x].version = @ + 1]
        /\ req' = [req EXCEPT ![c] = IdleReq]
    BY <1>6, <2>1 DEF CancelCommit
  <2>3. /\ job[x] # "queued" /\ row[x].origin # "public"
    BY <1>t, <2>1, <2>2 DEF RequestOrigin, CancelPcs
  <2>4. /\ row'[x].state = row[x].state /\ row'[x].origin = row[x].origin
        /\ \A r \in Runs : r # x => row'[r] = row[r]
    BY <1>t, <2>2 DEF TypeOK, RowType
  <2>5. TakenRun(x)' /\ QueuedRun(x)'
    BY <2>2, <2>3, <2>4 DEF HistoryInv, TakenRun, QueuedRun, Visible
  <2>6. /\ RequestOrigin(c)'
        /\ \A c2 \in Clients : c2 # c => req'[c2] = req[c2]
    BY <1>t, <2>2, AnsweredOrigin
  <2>7. ASSUME NEW c2 \in Clients, c2 # c, req[c2].run = x
        PROVE  RequestOrigin(c2)'
    BY <2>2, <2>3, <2>4, <2>6, <2>7 DEF HistoryInv, RequestOrigin, CancelPcs
  <2> QED BY <2>2, <2>4, <2>5, <2>6, <2>7, RequestHistory
<1>7. CASE CancelStale(c) \/ CancelCommitFails(c)
  BY <1>7, <1>t, AnsweredOrigin, RequestHistoryAlone DEF CancelStale, CancelCommitFails
<1> QED BY <1>1, <1>2, <1>3, <1>4, <1>5, <1>6, <1>7

LEMMA TakeHistory ==
  ASSUME IInv, HistoryInv, NEW w \in Workers,
         \/ \E r \in Runs : TakeJob(w, r)
         \/ \E r \in Runs, s \in Sites : StartSnapshot(w, r, s)
  PROVE  HistoryInv'
<1> USE DEF history, counters
<1>t. TypeOK /\ RunInv /\ ReqInv
  BY DEF IInv
<1>1. PICK x \in Runs : TakeJob(w, x) \/ \E s \in Sites : StartSnapshot(w, x, s)
  OBVIOUS
<1>2. /\ UNCHANGED req /\ executed' = executed \cup {x}
      /\ wk' = [wk EXCEPT ![w] = [IdleWk EXCEPT !.pc = "work", !.run = x]]
  BY <1>1 DEF TakeJob, StartSnapshot
<1>3. wk'[w].run = x /\ \A w2 \in Workers : w2 # w => wk'[w2] = wk[w2]
  BY <1>t, <1>2 DEF TypeOK, IdleWk
<1>4. \A w2 \in Workers : HeldTaken(w2)'
  BY <1>2, <1>3 DEF HistoryInv, HeldTaken
<1>5. /\ \A r \in Runs : r # x => row'[r] = row[r] /\ job'[r] = job[r]
      /\ \/ job[x] = "queued" /\ job'[x] = "started" /\ UNCHANGED row
         \/ /\ ~Visible(x) /\ UNCHANGED job /\ job[x] = "none"
            /\ row'[x].state = "committed"
  <2>1. CASE TakeJob(w, x)
    BY <1>t, <2>1 DEF TakeJob, Takeable, TypeOK
  <2>2. CASE \E s \in Sites : StartSnapshot(w, x, s)
    <3>1. PICK s \in Sites :
            /\ Fresh(x) /\ UNCHANGED job
            /\ row' = [row EXCEPT ![x] = NewRow(s, "committed", "snapshot", NoProgress)]
      BY <2>2 DEF StartSnapshot
    <3> QED BY <1>t, <3>1 DEF NewRow, TypeOK, Fresh, Visible
  <2> QED BY <1>1, <2>1, <2>2
<1>6. ASSUME NEW r \in Runs
      PROVE  TakenRun(r)' /\ QueuedRun(r)'
  BY <1>2, <1>5 DEF HistoryInv, TakenRun, QueuedRun, Visible
<1>7. ASSUME NEW c \in Clients
      PROVE  RequestOrigin(c)'
  <2>1. RequestOrigin(c) /\ ClientInv(c)
    BY <1>t DEF HistoryInv, ReqInv
  <2>2. req[c].pc = "enqueue" => req[c].run \in Runs /\ req[c].run # x
    BY <1>5, <2>1 DEF ClientInv, EnqueueShape
  <2>3. req[c].pc \in CancelPcs => req[c].run \in Runs /\ Visible(req[c].run)
    BY <2>1 DEF ClientInv, CancelShape
  <2> QED BY <1>2, <1>5, <2>1, <2>2, <2>3 DEF RequestOrigin, CancelPcs
<1> QED BY <1>4, <1>6, <1>7 DEF HistoryInv

LEMMA ExecuteHistory ==
  ASSUME IInv, HistoryInv, NEW w \in Workers, Execute(w) \/ Crash(w)
  PROVE  HistoryInv'
<1> USE DEF history, counters
<1>t. TypeOK /\ RunInv /\ ReqInv
  BY DEF IInv
<1>1. wk[w].pc # "idle" /\ UNCHANGED <<req, executed>>
  BY DEF Execute, Crash, WorkDone, SkipObserving, WorkRaises, ReadRow, RowMissing, WriteRow,
         RetryWrite, SaveRead, SaveWrite, SaveStale
<1>2. PICK x \in Runs : x = wk[w].run
  BY <1>1, <1>t, Holder
<1>3. /\ \A r \in Runs : job'[r] = "none" <=> job[r] = "none"
      /\ \A r \in Runs : r # x => job'[r] = job[r]
      /\ job'[x] # "queued"
      /\ wk'[w].run \in {x, NoRun}
      /\ \A w2 \in Workers : w2 # w => wk'[w2] = wk[w2]
  BY <1>t, <1>2, ExecuteEffect
<1>4. /\ row'[x].state = row[x].state /\ row'[x].origin = row[x].origin
      /\ \A r \in Runs : r # x => row'[r] = row[r]
  BY <1>t, <1>2, ExecuteRow
<1>5. ASSUME NEW r \in Runs
      PROVE  TakenRun(r)' /\ QueuedRun(r)'
  BY <1>1, <1>3, <1>4 DEF HistoryInv, TakenRun, QueuedRun, Visible
<1>6. \A w2 \in Workers : HeldTaken(w2)'
  BY <1>1, <1>2, <1>3, NullAssumption DEF HistoryInv, HeldTaken
<1>7. ASSUME NEW c \in Clients
      PROVE  RequestOrigin(c)'
  <2>1. RequestOrigin(c) /\ ClientInv(c)
    BY <1>t DEF HistoryInv, ReqInv
  <2>2. req[c].pc = "enqueue" => req[c].run \in Runs /\ req[c].run # x
    BY <1>2, <2>1 DEF ClientInv, EnqueueShape
  <2>3. req[c].pc \in CancelPcs => req[c].run \in Runs
    BY <2>1 DEF ClientInv, CancelShape
  <2> QED BY <1>1, <1>3, <1>4, <2>1, <2>2, <2>3 DEF RequestOrigin, CancelPcs
<1> QED BY <1>5, <1>6, <1>7 DEF HistoryInv

LEMMA HistoryInductive == IInv /\ HistoryInv /\ [Next]_vars => HistoryInv'
<1> SUFFICES ASSUME IInv, HistoryInv, [Next]_vars PROVE HistoryInv'
  OBVIOUS
<1>1. CASE UNCHANGED vars
  <2>1. UNCHANGED <<row, job, req, wk, executed>>
    BY <1>1 DEF vars
  <2> QED BY <2>1 DEF HistoryInv, TakenRun, QueuedRun, HeldTaken, RequestOrigin, Visible
<1>2. ASSUME NEW c \in Clients, Request(c) \/ Answer(c) \/ ApiFails(c)
      PROVE  HistoryInv'
  BY <1>2, CreateHistory, PublicHistory, CancelHistory DEF Request, Answer, ApiFails
<1>3. ASSUME NEW w \in Workers,
             \/ \E r \in Runs : TakeJob(w, r)
             \/ \E r \in Runs, s \in Sites : StartSnapshot(w, r, s)
             \/ Execute(w) \/ Crash(w)
      PROVE  HistoryInv'
  BY <1>3, TakeHistory, ExecuteHistory
<1> QED BY <1>1, <1>2, <1>3 DEF Next

-----------------------------------------------------------------------------
(* Every step is a step of the abstract lifecycle, or a stutter *)

\* What a reader sees of one run.
ShownState(r) == IF Visible(r) THEN LifecycleOf(row[r].status) ELSE "none"

LEMMA ShownStep ==
  ASSUME NEW x \in Runs, \A r \in Runs : r # x => row'[r] = row[r]
  PROVE  LifecycleState' = [LifecycleState EXCEPT ![x] = ShownState(x)']
BY DEF LifecycleState, ShownState, Visible

LEMMA ShownSame ==
  ASSUME NEW x \in Runs, \A r \in Runs : r # x => row'[r] = row[r],
         ShownState(x)' = ShownState(x)
  PROVE  LifecycleState' = LifecycleState
BY DEF LifecycleState, ShownState, Visible

LEMMA ShownValue ==
  ASSUME NEW x \in Runs
  PROVE  LifecycleState[x] = ShownState(x)
BY DEF LifecycleState, ShownState

LEMMA HeldSame == ASSUME UNCHANGED wk PROVE Held' = Held
BY DEF Held, Executes

LEMMA InitRefines == Init => Lifecycle!Init
BY NullAssumption
   DEF Init, Lifecycle!Init, LifecycleState, Held, Executes, Visible, AbsentRow, IdleWk

\* The steps of a client: a run is submitted, or an active run is cancelled.
LEMMA RequestRefines ==
  ASSUME IInv, HistoryInv, NEW c \in Clients, Request(c) \/ Answer(c) \/ ApiFails(c)
  PROVE  Lifecycle!Next \/ UNCHANGED Lifecycle!vars
<1> USE DEF history, counters
<1>t. TypeOK /\ RunInv /\ ReqInv
  BY DEF IInv
<1>1. UNCHANGED <<wk, executed>> /\ Held' = Held
  <2>1. UNCHANGED <<wk, executed>>
    BY DEF Request, Answer, ApiFails, CreateCheck, CreateEnqueueFails, PublicEnqueue,
           PublicEnqueueFails, CancelRead, JobDeleteStart, CheckJob, CheckJobOnly,
           CancelJob, CancelJobOnly, CancelStale, CancelCommitFails, CancelCommit,
           CreateEnqueue, WebEnqueueFails, PublicCommit, CreateCommit, CreateCommitFails
  <2> QED BY <2>1, HeldSame
<1>2. CASE UNCHANGED row
  <2>1. LifecycleState' = LifecycleState
    BY <1>2 DEF LifecycleState, Visible
  <2> QED BY <1>1, <2>1 DEF Lifecycle!vars
<1>3. ASSUME NEW x \in Runs, CreateEnqueue(c, x)
      PROVE  Lifecycle!Next \/ UNCHANGED Lifecycle!vars
  <2>1. /\ ~Visible(x)
        /\ row' = [row EXCEPT ![x] =
                     NewRow(req[c].site, "pending", "api", InitialProgress)]
    BY <1>3 DEF CreateEnqueue, Fresh, Visible
  <2>2. row'[x].state = "pending" /\ \A r \in Runs : r # x => row'[r] = row[r]
    BY <1>t, <2>1 DEF TypeOK, NewRow
  <2>3. ShownState(x)' = ShownState(x)
    BY <2>1, <2>2 DEF ShownState, Visible
  <2> QED BY <1>1, <2>2, <2>3, ShownSame DEF Lifecycle!vars
<1>4. ASSUME NEW x \in Runs, WebEnqueueFails(c, x)
      PROVE  Lifecycle!Next
  <2>1. /\ ~Visible(x) /\ job[x] = "none"
        /\ row' = [row EXCEPT ![x] =
             [NewRow(req[c].site, "committed", "api", InitialProgress)
                EXCEPT !.status = "failed"]]
    BY <1>4 DEF WebEnqueueFails, Fresh, Visible
  <2>2. /\ row'[x].state = "committed" /\ row'[x].status = "failed"
        /\ \A r \in Runs : r # x => row'[r] = row[r]
    BY <1>t, <2>1 DEF TypeOK, NewRow
  <2>3. ShownState(x) = "none" /\ ShownState(x)' = "failed"
    BY <2>1, <2>2 DEF ShownState, Visible, LifecycleOf
  <2>4. x \notin executed
    BY <2>1, HiddenRun
  <2> QED BY <1>1, <2>2, <2>3, <2>4, ShownStep, ShownValue
          DEF Lifecycle!Next, Lifecycle!Submit, Lifecycle!Become
<1>5. CASE CreateCommit(c) \/ CreateCommitFails(c)
  <2>1. PICK x \in Runs : x = req[c].run /\ row[x].state = "pending"
    BY <1>5, <1>t DEF CreateCommit, CreateCommitFails, ReqInv, ClientInv, CommitShape
  <2>2. row[x].status = "queued" /\ row[x] \in RowType /\ row \in [Runs -> RowType]
    BY <1>t, <2>1, PendingRun DEF TypeOK
  <2>3. ShownState(x) = "none"
    BY <2>1 DEF ShownState, Visible
  <2>4. CASE row' = [row EXCEPT ![x].state = "committed"]
    <3>1. /\ row'[x].state = "committed" /\ row'[x].status = "queued"
          /\ \A r \in Runs : r # x => row'[r] = row[r]
      BY <2>2, <2>4 DEF RowType
    <3>2. ShownState(x)' = "waiting"
      BY <3>1 DEF ShownState, Visible, LifecycleOf
    <3> QED BY <1>1, <2>3, <3>1, <3>2, ShownStep, ShownValue
            DEF Lifecycle!Next, Lifecycle!Submit, Lifecycle!Become
  <2>5. CASE row' = [row EXCEPT ![x] = AbsentRow]
    <3>1. /\ row'[x].state = "absent" /\ \A r \in Runs : r # x => row'[r] = row[r]
      BY <2>2, <2>5 DEF AbsentRow
    <3>2. ShownState(x)' = ShownState(x)
      BY <2>3, <3>1 DEF ShownState, Visible
    <3> QED BY <1>1, <3>1, <3>2, ShownSame DEF Lifecycle!vars
  <2> QED BY <1>5, <2>1, <2>4, <2>5 DEF CreateCommit, CreateCommitFails
<1>6. ASSUME NEW x \in Runs, PublicCommit(c, x)
      PROVE  Lifecycle!Next
  <2>1. /\ ~Visible(x)
        /\ row' = [row EXCEPT ![x] = NewRow(PublicSite, "committed", "public", NoProgress)]
    BY <1>6 DEF PublicCommit, Fresh, Visible
  <2>2. /\ row'[x].state = "committed" /\ row'[x].status = "queued"
        /\ \A r \in Runs : r # x => row'[r] = row[r]
    BY <1>t, <2>1 DEF TypeOK, NewRow
  <2>3. ShownState(x) = "none" /\ ShownState(x)' = "waiting"
    BY <2>1, <2>2 DEF ShownState, Visible, LifecycleOf
  <2> QED BY <1>1, <2>2, <2>3, ShownStep, ShownValue
          DEF Lifecycle!Next, Lifecycle!Submit, Lifecycle!Become
<1>7. CASE CancelCommit(c)
  <2>1. PICK x \in Runs : x = req[c].run /\ Visible(x) /\ row[x].status \notin TerminalStatuses
    BY <1>7, <1>t DEF CancelCommit, Stale, ReqInv, ClientInv, CancelShape, CancelPcs
  <2>2. row' = [row EXCEPT ![x].status = "failed", ![x].version = @ + 1]
    BY <1>7, <2>1 DEF CancelCommit
  <2>3. /\ row'[x].state = row[x].state /\ row'[x].status = "failed"
        /\ \A r \in Runs : r # x => row'[r] = row[r]
    BY <1>t, <2>2 DEF TypeOK, RowType
  <2>4. ShownState(x) \in {"waiting", "running"} /\ ShownState(x)' = "failed"
    BY <2>1, <2>3 DEF ShownState, Visible, LifecycleOf, TerminalStatuses
  <2> QED BY <1>1, <2>3, <2>4, ShownStep, ShownValue
          DEF Lifecycle!Next, Lifecycle!Cancel, Lifecycle!Become
<1> QED BY <1>2, <1>3, <1>4, <1>5, <1>6, <1>7
        DEF Request, Answer, ApiFails, CreateCheck, CreateEnqueueFails, PublicEnqueue,
            PublicEnqueueFails, CancelRead, JobDeleteStart, CheckJob, CheckJobOnly,
            CancelJob, CancelJobOnly, CancelStale, CancelCommitFails

\* Taking up a run: it is taken for the first time.
LEMMA TakeRefines ==
  ASSUME IInv, HistoryInv, NEW w \in Workers, NEW x \in Runs,
         TakeJob(w, x) \/ \E s \in Sites : StartSnapshot(w, x, s)
  PROVE  Lifecycle!Take(x)
<1> USE DEF history, counters
<1>t. TypeOK /\ RunInv /\ ReqInv
  BY DEF IInv
<1>1. /\ executed' = executed \cup {x} /\ wk[w].pc = "idle"
      /\ wk' = [wk EXCEPT ![w] = [IdleWk EXCEPT !.pc = "work", !.run = x]]
  BY DEF TakeJob, StartSnapshot
<1>2. Held' = Held \cup {x}
  <2>1. wk'[w].run = x /\ \A w2 \in Workers : w2 # w => wk'[w2] = wk[w2]
    BY <1>t, <1>1 DEF TypeOK, IdleWk
  <2>2. wk[w].run = NoRun
    BY <1>t, <1>1 DEF RunInv, WorkerInv, WkRun
  <2> QED BY <2>1, <2>2, NullAssumption DEF Held, Executes
<1>3. x \notin executed /\ \/ /\ LifecycleState[x] \in {"none", "waiting"}
                              /\ LifecycleState' = LifecycleState
                           \/ /\ LifecycleState[x] = "none"
                              /\ LifecycleState' = [LifecycleState EXCEPT ![x] = "waiting"]
  <2>1. CASE TakeJob(w, x)
    <3>1. UNCHANGED row /\ job[x] = "queued"
      BY <2>1 DEF TakeJob, Takeable
    <3>2. x \notin executed /\ row[x].status = "queued"
      BY <3>1 DEF HistoryInv, TakenRun, QueuedRun
    <3>3. LifecycleState' = LifecycleState
      BY <3>1 DEF LifecycleState, Visible
    <3>4. ShownState(x) \in {"none", "waiting"}
      BY <3>2 DEF ShownState, LifecycleOf
    <3> QED BY <3>2, <3>3, <3>4, ShownValue
  <2>2. CASE \E s \in Sites : StartSnapshot(w, x, s)
    <3>1. PICK s \in Sites :
            /\ ~Visible(x) /\ job[x] = "none"
            /\ row' = [row EXCEPT ![x] = NewRow(s, "committed", "snapshot", NoProgress)]
      BY <2>2 DEF StartSnapshot, Fresh, Visible
    <3>2. /\ row'[x].state = "committed" /\ row'[x].status = "queued"
          /\ \A r \in Runs : r # x => row'[r] = row[r]
      BY <1>t, <3>1 DEF TypeOK, NewRow
    <3>3. ShownState(x) = "none" /\ ShownState(x)' = "waiting"
      BY <3>1, <3>2 DEF ShownState, Visible, LifecycleOf
    <3> QED BY <3>1, <3>2, <3>3, HiddenRun, ShownStep, ShownValue
  <2> QED BY <2>1, <2>2
<1> QED BY <1>1, <1>2, <1>3 DEF Lifecycle!Take, Lifecycle!Become

\* What the worker's hold becomes.
LEMMA HeldStep ==
  ASSUME IInv, NEW w \in Workers, NEW x \in Runs, x = wk[w].run,
         \A w2 \in Workers : w2 # w => wk'[w2] = wk[w2]
  PROVE  /\ x \in Held
         /\ wk'[w].run = x => Held' = Held
         /\ wk'[w].run = NoRun => Held' = Held \ {x}
<1>1. \A w2 \in Workers : wk[w2].run = x => w2 = w
  BY NullAssumption DEF IInv, RunInv, SingleExecutor
<1> QED BY <1>1, NullAssumption DEF Held, Executes

\* What a write of the worker shows: a run in the pipeline that it still holds,
\* or the end of a run that it lets go.
LEMMA ExecuteShown ==
  ASSUME TypeOK, RunInv, NEW w \in Workers, Execute(w) \/ Crash(w),
         NEW x \in Runs, x = wk[w].run
  PROVE  \/ UNCHANGED row
         \/ /\ ShownState(x) \in {"waiting", "running", "failed"}
            /\ \/ ShownState(x)' = "running" /\ wk'[w].run = x
               \/ ShownState(x)' \in {"failed", "done"} /\ wk'[w].run = NoRun
<1>s. wk[w].step \in Steps /\ row \in [Runs -> RowType] /\ row[x] \in RowType
  BY DEF TypeOK, WkType
<1>c. wk[w].pc = "write" => ShownState(x) \in {"waiting", "running", "failed"}
  BY Holder DEF WorkerInv, WorkerSeen, ShownState, LifecycleOf
<1>v. wk[w].pc = "write" => Visible(x)
  BY Holder DEF WorkerInv, WorkerSeen
<1>1. CASE WriteRow(w) /\ ~UNCHANGED row
  <2> DEFINE k == wk[w].step
  <2>1. /\ wk[w].pc = "write" /\ k # SaveStep /\ AfterUpdate(w)
        /\ row' = [row EXCEPT ![x].status = StatusOf(k),
                              ![x].progress = StoredProgress(k, wk[w].seen),
                              ![x].version = @ + 1]
    BY <1>1 DEF WriteRow
  <2>2. row'[x].status = StatusOf(k) /\ row'[x].state = row[x].state
    BY <1>s, <2>1 DEF RowType
  <2>3. CASE k = FailStep
    <3>1. StatusOf(k) = "failed"
      BY <1>s, <2>3, StatusOfType
    <3>2. ShownState(x)' = "failed"
      BY <1>v, <2>1, <2>2, <3>1 DEF ShownState, Visible, LifecycleOf
    <3>3. Release(w, "failed")
      BY <2>1, <2>3 DEF AfterUpdate
    <3>4. wk'[w].run = NoRun
      BY <3>3, ReleaseEffect DEF IdleWk
    <3> QED BY <1>c, <2>1, <3>2, <3>4
  <2>4. CASE k # FailStep
    <3>1. StatusOf(k) \in PipelineStatuses
      BY <1>s, <2>1, <2>4, StatusOfType
    <3>2. ShownState(x)' = "running"
      <4>1. LifecycleOf(StatusOf(k)) = "running"
        BY <3>1 DEF LifecycleOf, PipelineStatuses
      <4> QED BY <1>v, <2>1, <2>2, <4>1 DEF ShownState, Visible
    <3>3. GoTo(w, k + 1) /\ k + 1 \in Steps
      BY <1>s, <2>1, <2>4, NextStep DEF AfterUpdate
    <3>4. wk'[w].run = x
      BY <3>3, GoToEffect
    <3> QED BY <1>c, <2>1, <3>2, <3>4
  <2> QED BY <2>3, <2>4
<1>2. CASE SaveWrite(w)
  <2>1. /\ wk[w].pc = "write" /\ Release(w, "finished")
        /\ row' = [row EXCEPT ![x].status = StatusOf(SaveStep), ![x].report = TRUE,
                              ![x].version = @ + 1]
    BY <1>2 DEF SaveWrite
  <2>2. StatusOf(SaveStep) = "complete"
    BY StatusOfType DEF Steps, SaveStep, FailStep
  <2>3. row'[x].status = "complete" /\ row'[x].state = row[x].state
    BY <1>s, <2>1, <2>2 DEF RowType
  <2>4. ShownState(x)' = "done"
    BY <1>v, <2>1, <2>3 DEF ShownState, Visible, LifecycleOf
  <2>5. wk'[w].run = NoRun
    BY <2>1, ReleaseEffect DEF IdleWk
  <2> QED BY <1>c, <2>1, <2>4, <2>5
<1> QED BY <1>1, <1>2
        DEF Execute, Crash, WorkDone, SkipObserving, WorkRaises, ReadRow, RowMissing,
            RetryWrite, SaveRead, SaveStale, history, counters

\* Executing a run: it advances, ends, is abandoned, or nothing shows.
LEMMA ExecuteRefines ==
  ASSUME IInv, NEW w \in Workers, Execute(w) \/ Crash(w)
  PROVE  Lifecycle!Next \/ UNCHANGED Lifecycle!vars
<1>t. TypeOK /\ RunInv
  BY DEF IInv
<1>1. wk[w].pc # "idle" /\ UNCHANGED executed
  BY DEF Execute, Crash, WorkDone, SkipObserving, WorkRaises, ReadRow, RowMissing, WriteRow,
         RetryWrite, SaveRead, SaveWrite, SaveStale, history
<1>2. PICK x \in Runs : x = wk[w].run
  BY <1>1, <1>t, Holder
<1>3. /\ wk'[w].run \in {x, NoRun}
      /\ \A w2 \in Workers : w2 # w => wk'[w2] = wk[w2]
  BY <1>t, <1>2, ExecuteEffect
<1>4. /\ x \in Held
      /\ wk'[w].run = x => Held' = Held
      /\ wk'[w].run = NoRun => Held' = Held \ {x}
  BY <1>2, <1>3, HeldStep
<1>5. \A r \in Runs : r # x => row'[r] = row[r]
  BY <1>t, <1>2, ExecuteRow
<1>6. CASE UNCHANGED row
  <2>1. LifecycleState' = LifecycleState
    BY <1>6 DEF LifecycleState, Visible
  <2>2. CASE wk'[w].run = x
    BY <1>1, <1>4, <2>1, <2>2 DEF Lifecycle!vars
  <2>3. CASE wk'[w].run = NoRun
    BY <1>1, <1>4, <2>1, <2>3 DEF Lifecycle!Next, Lifecycle!Abandon
  <2> QED BY <1>3, <2>2, <2>3
<1>7. CASE /\ ShownState(x) \in {"waiting", "running", "failed"}
           /\ ShownState(x)' = "running" /\ wk'[w].run = x
  <2>1. CASE ShownState(x) = "running"
    BY <1>1, <1>4, <1>5, <1>7, <2>1, ShownSame DEF Lifecycle!vars
  <2>2. CASE ShownState(x) \in {"waiting", "failed"}
    BY <1>1, <1>4, <1>5, <1>7, <2>2, ShownStep, ShownValue
       DEF Lifecycle!Next, Lifecycle!Advance, Lifecycle!Become
  <2> QED BY <1>7, <2>1, <2>2
<1>8. CASE /\ ShownState(x) \in {"waiting", "running", "failed"}
           /\ ShownState(x)' \in {"failed", "done"} /\ wk'[w].run = NoRun
  BY <1>1, <1>4, <1>5, <1>8, ShownStep, ShownValue
     DEF Lifecycle!Next, Lifecycle!End, Lifecycle!Become
<1> QED BY <1>t, <1>2, <1>6, <1>7, <1>8, ExecuteShown

LEMMA StepRefines == IInv /\ HistoryInv /\ [Next]_vars => [Lifecycle!Next]_(Lifecycle!vars)
<1> SUFFICES ASSUME IInv, HistoryInv, [Next]_vars
             PROVE  Lifecycle!Next \/ UNCHANGED Lifecycle!vars
  OBVIOUS
<1>1. CASE UNCHANGED vars
  <2>1. UNCHANGED <<row, wk, executed>>
    BY <1>1 DEF vars
  <2>2. LifecycleState' = LifecycleState
    BY <2>1 DEF LifecycleState, Visible
  <2> QED BY <2>1, <2>2, HeldSame DEF Lifecycle!vars
<1>2. ASSUME NEW c \in Clients, Request(c) \/ Answer(c) \/ ApiFails(c)
      PROVE  Lifecycle!Next \/ UNCHANGED Lifecycle!vars
  BY <1>2, RequestRefines
<1>3. ASSUME NEW w \in Workers, NEW r \in Runs,
             TakeJob(w, r) \/ \E s \in Sites : StartSnapshot(w, r, s)
      PROVE  Lifecycle!Next
  BY <1>3, TakeRefines DEF Lifecycle!Next
<1>4. ASSUME NEW w \in Workers, Execute(w) \/ Crash(w)
      PROVE  Lifecycle!Next \/ UNCHANGED Lifecycle!vars
  BY <1>4, ExecuteRefines
<1> QED BY <1>1, <1>2, <1>3, <1>4 DEF Next

-----------------------------------------------------------------------------
\* The service implements its abstract lifecycle: whatever cancellations,
\* conflicts, refused calls and killed workers come between, a reader sees a
\* run submitted once, executed by at most one holder and at most once, and
\* after it is let go an end stays what it is.
THEOREM ImplementsLifecycle == Spec => LifecycleSpec
<1>1. Init => IInv /\ HistoryInv /\ Lifecycle!Init
  BY InitIInv, InitHistoryInv, InitRefines
<1>2. IInv /\ HistoryInv /\ [Next]_vars => IInv' /\ HistoryInv'
  BY Inductive, HistoryInductive
<1> QED BY <1>1, <1>2, StepRefines, PTL DEF Spec, LifecycleSpec, Lifecycle!Spec

-----------------------------------------------------------------------------
(* The report. *)

\* The results are a list, the text of an answer is one of the texts of the
\* observation, only an answer has a link, the competitors have lists of their own, and
\* the classifier has replied with a list of numbers, if at all; the scores are those of
\* some pillars.
Answered(i) == results[i].got = "answered"
ReportIInv ==
  /\ setup \in Setups
  /\ Len(results) \in Nat /\ DOMAIN results = 1..Len(results)
  /\ \A i \in DOMAIN results :
       /\ results[i].refused = FALSE /\ results[i].got \in {"none", "failed", "answered"}
       /\ results[i].mentioned \in BOOLEAN /\ results[i].cited \in BOOLEAN
       /\ results[i].cited => Answered(i)
       /\ Answered(i) => /\ results[i].text \in setup.texts
                         /\ results[i].mentioned = MentionsCompany(results[i].text)
                         /\ results[i].cited = MentionsUrl(results[i].text)
  /\ rivals \in [setup.rivals -> Seq(RivalAnswers \cup {NoResult})]
  /\ DOMAIN raw \subseteq Score!Pillars /\ \A p \in DOMAIN raw : raw[p] \in Nat
  /\ reply \in {NoReply, FailedReply} \cup {Replied(ds) : ds \in Replies}

LEMMA ReadingsAreBoolean ==
  ASSUME NEW a
  PROVE  MentionsCompany(a) \in BOOLEAN /\ MentionsUrl(a) \in BOOLEAN
BY DEF MentionsCompany, MentionsUrl, Holds

LEMMA AnswerInv ==
  ASSUME ReportIInv, AnswerQuestion, UNCHANGED raw
  PROVE  ReportIInv'
<1>1. PICK r : /\ results' = Append(results, r)
               /\ r.refused = FALSE /\ r.got \in {"none", "failed", "answered"} /\ r.mentioned \in BOOLEAN /\ r.cited \in BOOLEAN
               /\ r.cited => r.got = "answered"
               /\ r.got = "answered" => /\ r.text \in setup.texts
                                        /\ r.mentioned = MentionsCompany(r.text)
                                        /\ r.cited = MentionsUrl(r.text)
  <2>1. PICK ans \in Predicted :
          \/ \E a \in setup.texts : results' = Append(results, Result(ans, a))
          \/ \E got \in {"none", "failed"} : results' = Append(results, NoAnswer(ans, got))
    BY DEF AnswerQuestion
  <2>2. CASE \E a \in setup.texts : results' = Append(results, Result(ans, a))
    <3>1. PICK a \in setup.texts : results' = Append(results, Result(ans, a))
      BY <2>2
    <3>2. PICK x : x = Result(ans, a)
      OBVIOUS
    <3>3. /\ x.refused = FALSE /\ x.mentioned \in BOOLEAN /\ x.cited \in BOOLEAN
          /\ x.got = "answered" /\ x.text = a
          /\ x.mentioned = MentionsCompany(a) /\ x.cited = MentionsUrl(a)
      BY <3>2, ReadingsAreBoolean DEF Result
    <3> QED
      BY <3>1, <3>2, <3>3
  <2>3. CASE \E got \in {"none", "failed"} : results' = Append(results, NoAnswer(ans, got))
    <3>1. PICK got \in {"none", "failed"} : results' = Append(results, NoAnswer(ans, got))
      BY <2>3
    <3>2. PICK x : x = NoAnswer(ans, got)
      OBVIOUS
    <3>3. x.refused = FALSE /\ x.mentioned = FALSE /\ x.cited = FALSE /\ x.got = got
      BY <3>2 DEF NoAnswer
    <3> QED
      BY <3>1, <3>2, <3>3
  <2> QED
    BY <2>1, <2>2, <2>3
<1>2. PICK n \in Nat : n = Len(results) /\ DOMAIN results = 1..n
  BY DEF ReportIInv
<1>3. /\ Len(results') = n + 1 /\ DOMAIN results' = 1..(n + 1)
      /\ \A i \in 1..n : results'[i] = results[i]
      /\ results'[n + 1] = r
  BY <1>1, <1>2
<1>4. UNCHANGED <<setup, rivals, reply, raw>>
  BY DEF AnswerQuestion
<1>5. \A i \in DOMAIN results' :
        /\ results'[i].refused = FALSE /\ results'[i].got \in {"none", "failed", "answered"}
        /\ results'[i].mentioned \in BOOLEAN /\ results'[i].cited \in BOOLEAN
        /\ results'[i].cited => results'[i].got = "answered"
        /\ results'[i].got = "answered" =>
             /\ results'[i].text \in setup.texts
             /\ results'[i].mentioned = MentionsCompany(results'[i].text)
             /\ results'[i].cited = MentionsUrl(results'[i].text)
  <2> TAKE i \in DOMAIN results'
  <2>1. CASE i = n + 1
    BY <1>1, <1>3, <2>1
  <2>2. CASE i \in 1..n
    <3>1. PICK q : q = results[i]
      OBVIOUS
    <3>2. /\ q.refused = FALSE /\ q.got \in {"none", "failed", "answered"}
          /\ q.mentioned \in BOOLEAN /\ q.cited \in BOOLEAN
          /\ q.cited => q.got = "answered"
          /\ q.got = "answered" => /\ q.text \in setup.texts
                                   /\ q.mentioned = MentionsCompany(q.text)
                                   /\ q.cited = MentionsUrl(q.text)
      BY <1>2, <2>2, <3>1 DEF ReportIInv, Answered
    <3>3. results'[i] = q
      BY <1>3, <2>2, <3>1
    <3> QED
      BY <3>2, <3>3
  <2>3. i = n + 1 \/ i \in 1..n
    BY <1>3
  <2> QED
    BY <2>1, <2>2, <2>3, Zenon
<1>6. rivals' \in [setup'.rivals -> Seq(RivalAnswers \cup {NoResult})]
  BY <1>4 DEF ReportIInv
<1> QED
  BY <1>3, <1>4, <1>5, <1>6 DEF ReportIInv, Answered

LEMMA RivalsInv ==
  ASSUME ReportIInv, AnswerRivals, UNCHANGED raw
  PROVE  ReportIInv'
<1> DEFINE Readings == RivalAnswers \cup {NoResult}
<1>1. PICK r \in [setup.rivals -> Readings] : rivals' = [c \in setup.rivals |-> Append(rivals[c], r[c])]
  BY DEF AnswerRivals
<1>2. rivals \in [setup.rivals -> Seq(Readings)]
  BY DEF ReportIInv
<1>3. \A c \in setup.rivals : Append(rivals[c], r[c]) \in Seq(Readings)
  <2> TAKE c \in setup.rivals
  <2>1. PICK s \in Seq(Readings) : s = rivals[c]
    BY <1>2
  <2>2. PICK x \in Readings : x = r[c]
    BY <1>1
  <2> HIDE DEF Readings
  <2> QED
    BY <2>1, <2>2
<1>4. rivals' \in [setup.rivals -> Seq(Readings)]
  <2> HIDE DEF Readings
  <2> QED
    BY <1>1, <1>3
<1>5. UNCHANGED <<setup, results, reply>>
  BY DEF AnswerRivals
<1> QED
  BY <1>4, <1>5 DEF ReportIInv, Answered

LEMMA ReportInvariance == ReportSpec => []ReportIInv
<1>1. InitReport => ReportIInv
  <2> SUFFICES ASSUME InitReport
               PROVE  ReportIInv
    OBVIOUS
  <2>1. PICK s \in Starts : ObservationInit /\ setup = s.setup /\ raw = s.raw
    BY DEF InitReport
  <2>2. DOMAIN raw \subseteq Score!Pillars /\ \A p \in DOMAIN raw : raw[p] \in Nat
    BY <2>1, ReportAssumption
  <2>3. rivals \in [setup.rivals -> Seq(RivalAnswers \cup {NoResult})]
    <3>1. <<>> \in Seq(RivalAnswers \cup {NoResult})
      OBVIOUS
    <3> QED
      BY <2>1, <3>1 DEF ObservationInit
  <2> QED
    BY <2>1, <2>2, <2>3 DEF ObservationInit, ReportIInv
<1>2. ReportIInv /\ [ReportNext]_reportVars => ReportIInv'
  <2> SUFFICES ASSUME ReportIInv, [ReportNext]_reportVars
               PROVE  ReportIInv'
    OBVIOUS
  <2>1. CASE AnswerQuestion /\ UNCHANGED raw
    BY <2>1, AnswerInv
  <2>2. CASE Classify /\ UNCHANGED raw
    BY <2>2 DEF Classify, ReportIInv, Answered
  <2>3. CASE AnswerRivals /\ UNCHANGED raw
    BY <2>3, RivalsInv
  <2>4. CASE UNCHANGED <<setup, results, rivals, reply, raw>>
    BY <2>4 DEF ReportIInv, Answered
  <2> QED
    BY <2>1, <2>2, <2>3, <2>4 DEF ReportNext, Observe, Fix, reportVars, observationVars
<1> QED
  BY <1>1, <1>2, PTL DEF ReportSpec

-----------------------------------------------------------------------------
(* The depth of the citations *)

LEMMA ResultsFinite ==
  ASSUME ReportIInv
  PROVE  /\ IsFiniteSet(DOMAIN results) /\ Cardinality(DOMAIN results) = Len(results)
         /\ IsFiniteSet(Completed) /\ Completed \subseteq DOMAIN results
         /\ Cardinality(Completed) \in Nat
<1>1. PICK n \in Nat : n = Len(results) /\ DOMAIN results = 1..n
  BY DEF ReportIInv
<1>2. IsFiniteSet(1..n) /\ Cardinality(1..n) = n
  BY FS_Interval
<1>3. Completed \subseteq DOMAIN results
  BY DEF Completed
<1> QED
  BY <1>1, <1>2, <1>3, FS_Subset, FS_CardinalityType

\* The rank of an answer is a place of the reply, or beyond it.
LEMMA DepthType ==
  ASSUME ReportIInv, NEW i \in Completed
  PROVE  /\ Depth(i) \in Nat
         /\ Rated /\ results[i].cited => Depth(i) >= 3
         /\ ~Rated => Depth(i) = 0
<1> DEFINE T == {j \in Completed : j <= i}
<1>1. Rank(i) = Cardinality(T) /\ T \subseteq Completed /\ i \in T
  <2>1. i \in DOMAIN results
    BY DEF Completed
  <2>2. i \in Nat
    BY <2>1 DEF ReportIInv
  <2> QED
    BY <2>2 DEF Rank
<1>2. IsFiniteSet(T) /\ Cardinality(T) \in Nat /\ Cardinality(T) # 0
  <2> HIDE DEF T
  <2>1. IsFiniteSet(T)
    BY <1>1, ResultsFinite, FS_Subset
  <2> QED
    BY <1>1, <2>1, FS_CardinalityType, FS_EmptySet
<1> HIDE DEF T
<1>3. PICK k \in Nat \ {0} : k = Rank(i)
  BY <1>1, <1>2
<1>4. reply.depths \in Seq(Int)
  <2>1. <<>> \in Seq(Int)
    OBVIOUS
  <2>2. reply.depths = <<>> \/ reply.depths \in Replies
    BY DEF ReportIInv, NoReply, FailedReply, Replied
  <2> QED
    BY <2>1, <2>2, ObservationAssumption
<1>5. k <= Len(reply.depths) => reply.depths[k] \in Int
  <2>1. Len(reply.depths) \in Nat /\ \A m \in 1..Len(reply.depths) : reply.depths[m] \in Int
    BY <1>4
  <2> QED
    BY <2>1
<1>6. RawDepth(i) = IF k > Len(reply.depths) THEN 0 ELSE Clamp(reply.depths[k])
  BY <1>3 DEF RawDepth
<1>7. RawDepth(i) \in Nat
  <2>1. \A x \in Int : Clamp(x) \in Nat
    BY DEF Clamp, Greatest, Least
  <2>2. Len(reply.depths) \in Nat
    BY <1>4
  <2>3. CASE k > Len(reply.depths)
    BY <1>6, <2>3
  <2>4. CASE k <= Len(reply.depths)
    <3>1. PICK x \in Int : x = reply.depths[k]
      BY <1>5, <2>4
    <3>2. RawDepth(i) = Clamp(x)
      BY <1>6, <2>2, <2>4, <3>1
    <3> QED
      BY <2>1, <3>2
  <2> QED
    BY <2>2, <2>3, <2>4
<1>8. Len(NoReply.depths) = 0
  BY DEF NoReply
<1>9. ~Rated => RawDepth(i) = 0
  BY <1>3, <1>6, <1>8 DEF Rated
<1> QED
  BY <1>7, <1>9 DEF Depth, Greatest, Rated

\* Without a sign of depth the heuristic says 0.
LEMMA HeuristicType ==
  ASSUME ReportIInv, NEW i \in Completed
  PROVE  HeuristicDepth(results[i].text) \in Nat
<1>1. PICK a : a = results[i].text
  OBVIOUS
<1>2. a.framing \in DOMAIN FramingScores
  <2>1. a \in Texts
    BY <1>1, ObservationAssumption DEF ReportIInv, Completed, Answered
  <2> QED
    BY <2>1 DEF Texts
<1>3. SourceFraming(a) = "absent" \/ FramingScores[SourceFraming(a)] \in 1..4
  BY <1>2 DEF SourceFraming, FramingScores
<1>4. PICK framed : framed = FramingScores[SourceFraming(a)]
  OBVIOUS
<1>5. HeuristicDepth(a) \in Nat
  BY <1>3, <1>4 DEF HeuristicDepth, Least
<1> QED
  BY <1>1, <1>5

\* A larger part of the same whole is no smaller rate.
LEMMA MoreIsNotLess ==
  ASSUME NEW few \in Nat, NEW many \in Nat, few <= many, NEW whole \in Nat
  PROVE  ~Above(Rate(few, whole), Rate(many, whole))
<1>1. few * whole <= many * whole
  <2>1. PICK d \in Nat : many = few + d
    <3>1. many - few \in Nat /\ many = few + (many - few)
      OBVIOUS
    <3> QED
      BY <3>1
  <2>2. many * whole = few * whole + d * whole /\ d * whole \in Nat /\ few * whole \in Nat
    BY <2>1
  <2> QED
    BY <2>2
<1>2. few * whole \in Nat /\ many * whole \in Nat
  OBVIOUS
<1> QED
  BY <1>1, <1>2 DEF Above, Rate

\* The citable share is at least the citation rate, whatever the classifier replies
\* (citation_depth.py:646); and a rating that is called certain has a text to rest on,
\* or is close to nothing: where no text shows depth, the gap to the heuristic is the
\* depth itself.
THEOREM LinksAreCitable == ReportSpec => []LinkedIsCitable
<1>1. ReportIInv => LinkedIsCitable
  <2> SUFFICES ASSUME ReportIInv, Rated
               PROVE  /\ ~Above(CitationRate(results), Deep(3))
                      /\ Confidence = "high" =>
                           \/ ~AtLeast(AvgDepth, 100)
                           \/ \E i \in Completed : HeuristicDepth(results[i].text) > 0
    BY DEF LinkedIsCitable, Rated
  <2>1. ~Above(CitationRate(results), Deep(3))
    <3> DEFINE C == {i \in DOMAIN results : results[i].got = "answered" /\ results[i].cited}
               D == {i \in Completed : Depth(i) >= 3}
    <3>1. C \subseteq D /\ D \subseteq Completed
      BY DepthType DEF Completed
    <3>2. /\ CitationRate(results) = Rate(Cardinality(C), Cardinality(Completed))
          /\ Deep(3) = Rate(Cardinality(D), Cardinality(Completed))
      BY DEF CitationRate, Answers, Count, Completed, Deep, OfAnswers
    <3> HIDE DEF C, D
    <3>3. IsFiniteSet(D) /\ IsFiniteSet(C)
      BY <3>1, ResultsFinite, FS_Subset
    <3>4. PICK c \in Nat : c = Cardinality(C)
      BY <3>3, FS_CardinalityType
    <3>5. PICK d \in Nat : d = Cardinality(D)
      BY <3>3, FS_CardinalityType
    <3>6. PICK n \in Nat : n = Cardinality(Completed)
      BY ResultsFinite
    <3>7. c <= d
      BY <3>1, <3>3, <3>4, <3>5, FS_Subset
    <3> QED
      BY <3>2, <3>4, <3>5, <3>6, <3>7, MoreIsNotLess
  <2>2. ASSUME Confidence = "high", \A i \in Completed : ~(HeuristicDepth(results[i].text) > 0)
        PROVE  ~AtLeast(AvgDepth, 100)
    <3>1. \A i \in Completed : Gap(i) = Depth(i)
      <4> TAKE i \in Completed
      <4>1. HeuristicDepth(results[i].text) = 0
        BY <2>2, HeuristicType
      <4>2. PICK d \in Nat : d = Depth(i)
        BY DepthType
      <4> QED
        BY <4>1, <4>2 DEF Gap
    <3>2. [i \in Completed |-> Gap(i)] = [i \in Completed |-> Depth(i)]
      BY <3>1
    <3>3. Divergence = AvgDepth
      BY <3>2 DEF Divergence, AvgDepth
    <3> QED
      BY <2>2, <3>3 DEF Confidence
  <2> QED
    BY <2>1, <2>2
<1> QED
  BY <1>1, ReportInvariance, PTL

-----------------------------------------------------------------------------
(* The leaning of the simulation, where every question was answered and whoever is   *)
(* linked is named.                                                            *)

PositiveOnes == {i \in DOMAIN results : Positive(results[i].ans)}
MentionedOnes == {i \in DOMAIN results : results[i].mentioned}

\* A set of results counts as the sum of two that have nothing in common.
LEMMA InTwo ==
  ASSUME ReportIInv, NEW S \in SUBSET DOMAIN results, NEW T \in SUBSET DOMAIN results,
         S \cap T = {}
  PROVE  /\ Cardinality(S) \in Nat /\ Cardinality(T) \in Nat
         /\ Cardinality(S \cup T) = Cardinality(S) + Cardinality(T)
<1>1. IsFiniteSet(S) /\ IsFiniteSet(T) /\ S \cup T \in SUBSET DOMAIN results
  BY ResultsFinite, FS_Subset
<1>2. Cardinality(S \cap T) = 0
  BY FS_EmptySet
<1>3. Cardinality(S) \in Nat /\ Cardinality(T) \in Nat
  BY <1>1, FS_CardinalityType
<1>4. Cardinality(S \cup T) = Cardinality(S) + Cardinality(T) - Cardinality(S \cap T)
  BY <1>1, FS_Union
<1> QED
  BY <1>2, <1>3, <1>4

\* The right predictions, those that were too good and those that were not good
\* enough make up the whole, and their difference is that of the rates.
LEMMA Tally ==
  ASSUME ReportIInv, PlainAnswers
  PROVE  \E right, high, low, both \in Nat :
           /\ HasOutcome(results, "correct") = right
           /\ HasOutcome(results, "optimistic") = high
           /\ HasOutcome(results, "pessimistic") = low
           /\ Len(results) = right + high + low
           /\ MentionRate(results) = Rate(both + low, Len(results))
           /\ PredictedRate(results) = Rate(both + high, Len(results))
<1> DEFINE All == DOMAIN results
           P == PositiveOnes
           M == MentionedOnes
           Hits == {i \in All : Outcome(results[i]) = "correct"}
           O == {i \in All : Outcome(results[i]) = "optimistic"}
           L == {i \in All : Outcome(results[i]) = "pessimistic"}
<1>1. \A i \in All :
        Outcome(results[i]) = IF Positive(results[i].ans) = results[i].mentioned THEN "correct"
                              ELSE IF Positive(results[i].ans) THEN "optimistic" ELSE "pessimistic"
  <2> TAKE i \in All
  <2>1. PICK q : q = results[i]
    OBVIOUS
  <2>2. /\ q.refused = FALSE /\ q.mentioned \in BOOLEAN /\ q.cited \in BOOLEAN
        /\ q.got = "answered" /\ (q.cited => q.mentioned)
    BY <2>1 DEF ReportIInv, PlainAnswers
  <2>3. (Sourceability(q) \in {"cited", "mentioned"}) = q.mentioned /\ Sourceability(q) # "refused"
    BY <2>2 DEF Sourceability
  <2> QED
    BY <2>1, <2>2, <2>3 DEF Outcome
<1>2. \A i \in All : Positive(results[i].ans) \in BOOLEAN /\ results[i].mentioned \in BOOLEAN
  BY DEF Positive, ReportIInv
<1>3. /\ Hits = (P \cap M) \cup (All \ (P \cup M))
      /\ O = P \ M /\ L = M \ P
  BY <1>1, <1>2 DEF PositiveOnes, MentionedOnes
<1>4. P \in SUBSET All /\ M \in SUBSET All
  BY DEF PositiveOnes, MentionedOnes
<1>5. /\ HasOutcome(results, "correct") = Cardinality(Hits)
      /\ HasOutcome(results, "optimistic") = Cardinality(O)
      /\ HasOutcome(results, "pessimistic") = Cardinality(L)
  BY DEF HasOutcome, Count
<1>6. /\ MentionRate(results) = Rate(Cardinality(M), Len(results))
      /\ PredictedRate(results) = Rate(Cardinality(P), Len(results))
  <2>1. /\ {i \in All : results[i].got = "answered" /\ results[i].mentioned} = M
        /\ {i \in All : results[i].got = "answered"} = All
    BY DEF MentionedOnes, PlainAnswers
  <2>2. Cardinality(All) = Len(results)
    BY ResultsFinite
  <2> QED
    BY <2>1, <2>2 DEF MentionRate, PredictedRate, Answers, Count, PositiveOnes
<1>7. Cardinality(All) = Len(results)
  BY ResultsFinite
<1> HIDE DEF Hits, O, L, P, M
<1>8. /\ Cardinality(P) = Cardinality(P \cap M) + Cardinality(O)
      /\ Cardinality(M) = Cardinality(P \cap M) + Cardinality(L)
      /\ Cardinality(P \cap M) \in Nat /\ Cardinality(O) \in Nat /\ Cardinality(L) \in Nat
  <2>1. (P \cap M) \cup O = P /\ (P \cap M) \cap O = {} /\ O \in SUBSET All
    BY <1>3, <1>4
  <2>2. (P \cap M) \cup L = M /\ (P \cap M) \cap L = {} /\ L \in SUBSET All
    BY <1>3, <1>4
  <2>3. P \cap M \in SUBSET All
    BY <1>4
  <2> QED
    BY <2>1, <2>2, <2>3, InTwo
<1>9. /\ Cardinality(Hits) \in Nat
      /\ Cardinality(All) = Cardinality(Hits) + Cardinality(O) + Cardinality(L)
  <2>1. O \cup L \in SUBSET All /\ Hits \in SUBSET All /\ Hits \cap (O \cup L) = {} /\ Hits \cup (O \cup L) = All
    BY <1>3, <1>4
  <2>2. O \in SUBSET All /\ L \in SUBSET All /\ O \cap L = {}
    BY <1>3, <1>4
  <2>3. Cardinality(O \cup L) = Cardinality(O) + Cardinality(L)
    BY <2>2, InTwo
  <2>4. Cardinality(All) = Cardinality(Hits) + Cardinality(O \cup L) /\ Cardinality(Hits) \in Nat
    BY <2>1, InTwo
  <2> QED
    BY <1>8, <2>3, <2>4
<1> QED
  BY <1>5, <1>6, <1>7, <1>8, <1>9

\* Rates of one whole that is not empty differ by the share their parts differ by.
LEMMA DeltaOfParts ==
  ASSUME NEW observed \in Nat, NEW predicted \in Nat, NEW whole \in Nat \ {0}, NEW m \in Int,
         MentionRate(results) = Rate(observed, whole), PredictedRate(results) = Rate(predicted, whole)
  PROVE  /\ DeltaOver(results, m) <=> 100 * (observed - predicted) > m * whole
         /\ DeltaUnder(results, m) <=> 100 * (observed - predicted) < m * whole
<1> DEFINE x == 100 * (observed - predicted)
           y == m * whole
<1>1. x \in Int /\ y \in Int
  OBVIOUS
<1>2. /\ 100 * (observed * whole - predicted * whole) = x * whole
      /\ m * whole * whole = y * whole
  OBVIOUS
<1>3. /\ DeltaOver(results, m) <=> x * whole > y * whole
      /\ DeltaUnder(results, m) <=> x * whole < y * whole
  BY <1>2 DEF DeltaOver, DeltaUnder, Rate
<1> HIDE DEF x, y
<1>4. \A a, b \in Int : a > b => a * whole > b * whole
  <2> SUFFICES ASSUME NEW a \in Int, NEW b \in Int, a > b
               PROVE  a * whole > b * whole
    OBVIOUS
  <2>1. PICK d \in Nat \ {0} : a = b + d
    <3>1. a - b \in Nat \ {0} /\ a = b + (a - b)
      OBVIOUS
    <3> QED
      BY <3>1
  <2>2. a * whole = b * whole + d * whole /\ d * whole > 0 /\ b * whole \in Int /\ d * whole \in Int
    BY <2>1
  <2> QED
    BY <2>2
<1>5. x * whole \in Int /\ y * whole \in Int
  BY <1>1
<1>6. /\ x > y => x * whole > y * whole
      /\ y > x => y * whole > x * whole
      /\ x = y => x * whole = y * whole
  BY <1>1, <1>4
<1>7. PICK v \in Int : v = x * whole
  BY <1>5
<1>8. PICK w \in Int : w = y * whole
  BY <1>5
<1>9. (x > y <=> v > w) /\ (x < y <=> v < w)
  BY <1>1, <1>6, <1>7, <1>8
<1> QED
  BY <1>3, <1>7, <1>8, <1>9 DEF x, y

\* Where every question was answered and whoever is linked is named, the words on the
\* leaning of the simulation agree with the difference of the rates
\* (worker/observation/comparison.py).
THEOREM InsightsNeverContradict == ReportSpec => []InsightsAgree
<1>1. ReportIInv => InsightsAgree
  <2> SUFFICES ASSUME ReportIInv, PlainAnswers
               PROVE  /\ ~(HasOutcome(results, "optimistic") > 2 * HasOutcome(results, "pessimistic")
                           /\ DeltaOver(results, 20))
                      /\ ~(HasOutcome(results, "pessimistic") > 2 * HasOutcome(results, "optimistic")
                           /\ DeltaUnder(results, -20))
    BY DEF InsightsAgree, Insights, Named
  <2>1. PICK right, high, low, both \in Nat :
           /\ HasOutcome(results, "correct") = right
           /\ HasOutcome(results, "optimistic") = high
           /\ HasOutcome(results, "pessimistic") = low
           /\ Len(results) = right + high + low
           /\ MentionRate(results) = Rate(both + low, Len(results))
           /\ PredictedRate(results) = Rate(both + high, Len(results))
    BY Tally
  <2>2. PICK n \in Nat : n = Len(results)
    BY <2>1
  <2>3. CASE n = 0
    BY <2>1, <2>2, <2>3
  <2>4. CASE n # 0
    <3>1. /\ DeltaOver(results, 20) => 100 * ((both + low) - (both + high)) > 20 * n
          /\ DeltaUnder(results, -20) => 100 * ((both + low) - (both + high)) < -20 * n
      BY <2>1, <2>2, <2>4, DeltaOfParts
    <3> QED
      BY <2>1, <2>2, <3>1
  <2> QED
    BY <2>2, <2>3, <2>4
<1> QED
  BY <1>1, ReportInvariance, PTL

\* A simulation that is said to be far off is said to lean the way it is off, and never
\* called well calibrated, where every question was answered and whoever is linked is
\* named; one that is right more often than not is not off by more than half, and one
\* called accurate need not be refreshed (_build_divergence_section).
THEOREM DivergenceExplained == ReportSpec => []DivergenceIsExplained
<1>1. ReportIInv => DivergenceIsExplained
  <2> SUFFICES ASSUME ReportIInv, Observed, PlainAnswers
               PROVE  /\ DivergenceLevel = "high" =>
                           /\ "well_calibrated" \notin CalibrationNotes
                           /\ DeltaOver(results, 0) => "underestimates" \in CalibrationNotes
                           /\ DeltaUnder(results, 0) => "overestimates" \in CalibrationNotes
                      /\ "accuracy" \notin RefreshReasons =>
                           ~DeltaOver(results, 50) /\ ~DeltaUnder(results, -50)
                      /\ "accurate" \in Insights(results) => RefreshReasons = {}
    BY DEF DivergenceIsExplained
  <2>1. PICK right, high, low, both \in Nat :
           /\ HasOutcome(results, "correct") = right
           /\ HasOutcome(results, "optimistic") = high
           /\ HasOutcome(results, "pessimistic") = low
           /\ Len(results) = right + high + low
           /\ MentionRate(results) = Rate(both + low, Len(results))
           /\ PredictedRate(results) = Rate(both + high, Len(results))
    BY Tally
  <2>2. PICK n \in Nat \ {0} : n = Len(results)
    BY <2>1 DEF Observed
  <2>3. \A m \in Int : /\ DeltaOver(results, m) <=> 100 * (low - high) > m * n
                       /\ DeltaUnder(results, m) <=> 100 * (low - high) < m * n
    <3> TAKE m \in Int
    <3>1. /\ DeltaOver(results, m) <=> 100 * ((both + low) - (both + high)) > m * n
          /\ DeltaUnder(results, m) <=> 100 * ((both + low) - (both + high)) < m * n
      BY <2>1, <2>2, DeltaOfParts
    <3>2. (both + low) - (both + high) = low - high
      OBVIOUS
    <3> QED
      BY <3>1, <3>2
  <2>4. /\ DeltaOver(results, 0) <=> low > high
        /\ DeltaUnder(results, 0) <=> low < high
        /\ DeltaOver(results, 50) <=> 100 * (low - high) > 50 * n
        /\ DeltaUnder(results, -50) <=> 100 * (low - high) < -50 * n
    BY <2>3
  <2>5. DivergenceLevel = "high" <=> 100 * (low - high) >= 35 * n \/ 100 * (low - high) <= -35 * n
    <3>1. /\ DeltaUnder(results, 35) <=> 100 * (low - high) < 35 * n
          /\ DeltaOver(results, -35) <=> 100 * (low - high) > -35 * n
      BY <2>3
    <3>2. DivergenceLevel = "high" <=> ~DeltaUnder(results, 35) \/ ~DeltaOver(results, -35)
      BY DEF DivergenceLevel
    <3> QED
      BY <3>1, <3>2
  <2>6. /\ Over(Bias("optimistic"), 30) <=> 100 * high > 30 * n
        /\ Over(Bias("pessimistic"), 30) <=> 100 * low > 30 * n
    BY <2>1, <2>2 DEF Over, Bias, Rate
  <2>7. /\ "overestimates" \in CalibrationNotes <=> Over(Bias("optimistic"), 30)
        /\ "underestimates" \in CalibrationNotes <=> Over(Bias("pessimistic"), 30)
        /\ "well_calibrated" \in CalibrationNotes =>
             ~Over(Bias("optimistic"), 30) /\ ~Over(Bias("pessimistic"), 30)
    BY DEF CalibrationNotes, Named
  <2>8. /\ AtLeast(Accuracy(results), 50) <=> 100 * right >= 50 * n
        /\ AtLeast(Accuracy(results), 80) <=> 100 * right >= 80 * n
    BY <2>1, <2>2 DEF AtLeast, Accuracy, Rate
  <2>9. /\ "accuracy" \in RefreshReasons <=> ~AtLeast(Accuracy(results), 50)
        /\ "divergence" \in RefreshReasons <=> DivergenceLevel = "high"
        /\ RefreshReasons \subseteq {"accuracy", "divergence"}
    BY DEF RefreshReasons, Named
  <2>10. "accurate" \in Insights(results) => AtLeast(Accuracy(results), 80)
    BY DEF Insights, Named
  <2>11. n = right + high + low
    BY <2>1, <2>2
  <2>12. ASSUME DivergenceLevel = "high"
         PROVE  /\ "well_calibrated" \notin CalibrationNotes
                /\ DeltaOver(results, 0) => "underestimates" \in CalibrationNotes
                /\ DeltaUnder(results, 0) => "overestimates" \in CalibrationNotes
    <3>1. /\ low > high => 100 * low > 30 * n
          /\ low < high => 100 * high > 30 * n
          /\ low # high
      BY <2>5, <2>11, <2>12
    <3> QED
      BY <2>4, <2>6, <2>7, <3>1
  <2>13. ASSUME "accuracy" \notin RefreshReasons
         PROVE  ~DeltaOver(results, 50) /\ ~DeltaUnder(results, -50)
    BY <2>4, <2>8, <2>9, <2>11, <2>13
  <2>14. ASSUME "accurate" \in Insights(results)
         PROVE  RefreshReasons = {}
    <3>1. 100 * right >= 80 * n
      BY <2>8, <2>10, <2>14
    <3>2. 100 * right >= 50 * n /\ ~(100 * (low - high) >= 35 * n) /\ ~(100 * (low - high) <= -35 * n)
      BY <2>11, <3>1
    <3> QED
      BY <2>5, <2>8, <2>9, <3>2
  <2> QED
    BY <2>12, <2>13, <2>14
<1> QED
  BY <1>1, ReportInvariance, PTL
-----------------------------------------------------------------------------
(* The rating *)

LEMMA ShownFinite ==
  ASSUME ReportIInv
  PROVE  /\ Shown \subseteq DOMAIN results /\ IsFiniteSet(Shown) /\ Cardinality(Shown) \in Nat
         /\ Completed \subseteq Shown
<1>1. Shown \subseteq DOMAIN results /\ Completed \subseteq Shown
  BY DEF Shown, Completed
<1> QED
  BY <1>1, ResultsFinite, FS_Subset, FS_CardinalityType

LEMMA ShownDepth ==
  ASSUME ReportIInv, NEW i \in Shown
  PROVE  /\ DepthOf(i) \in Nat
         /\ Rated /\ i \in Completed /\ results[i].cited => DepthOf(i) >= 3
         /\ ~Rated => DepthOf(i) = 0
<1>1. CASE results[i].got = "failed"
  BY <1>1 DEF DepthOf, Completed
<1>2. CASE results[i].got # "failed"
  <2>1. i \in Completed
    BY <1>2 DEF ReportIInv, Shown, Completed
  <2>2. DepthOf(i) = Depth(i)
    BY <1>2 DEF DepthOf
  <2> QED
    BY <2>1, <2>2, DepthType
<1> QED
  BY <1>1, <1>2

\* The share of a depth counts some of the answers shown.
LEMMA ShareParts ==
  ASSUME ReportIInv, NEW n \in Nat
  PROVE  LET S == {i \in Shown : DepthOf(i) >= n}
         IN  /\ IsFiniteSet(S) /\ Cardinality(S) \in Nat /\ Cardinality(S) <= Cardinality(Shown)
             /\ Share(n) = Rate(Cardinality(S), Cardinality(Shown))
<1> DEFINE S == {i \in Shown : DepthOf(i) >= n}
<1>1. S \subseteq Shown
  OBVIOUS
<1>2. Share(n) = Rate(Cardinality(S), Cardinality(Shown))
  BY DEF Share
<1> HIDE DEF S
<1>3. IsFiniteSet(S) /\ Cardinality(S) <= Cardinality(Shown)
  BY <1>1, ShownFinite, FS_Subset
<1>4. Cardinality(S) \in Nat
  BY <1>3, FS_CardinalityType
<1> QED
  BY <1>2, <1>3, <1>4 DEF S

\* Deep answers are no more than those less deep.
LEMMA StrongIsCitable ==
  ASSUME ReportIInv, StrongBand = "high"
  PROVE  CitableBand # "low"
<1> DEFINE S(n) == {i \in Shown : DepthOf(i) >= n}
<1>1. S(4) \subseteq S(3)
  <2> SUFFICES ASSUME NEW i \in Shown, DepthOf(i) >= 4
               PROVE  DepthOf(i) >= 3
    OBVIOUS
  <2> QED
    BY ShownDepth
<1>2. PICK strong \in Nat : strong = Cardinality(S(4)) /\ Share(4) = Rate(strong, Cardinality(Shown))
  BY ShareParts
<1>3. PICK citable \in Nat : citable = Cardinality(S(3)) /\ Share(3) = Rate(citable, Cardinality(Shown))
  BY ShareParts
<1>4. IsFiniteSet(S(3))
  BY ShareParts
<1>5. strong <= citable
  <2> HIDE DEF S
  <2> QED
    BY <1>1, <1>2, <1>3, <1>4, FS_Subset
<1>6. PICK whole \in Nat : whole = Cardinality(Shown)
  BY ShownFinite
<1>7. AtLeast(Rate(strong, whole), 15)
  BY <1>2, <1>6 DEF StrongBand, BandOf
<1>8. AtLeast(Rate(citable, whole), 10)
  BY <1>5, <1>7 DEF AtLeast, Rate
<1> QED
  BY <1>3, <1>6, <1>8 DEF CitableBand, BandOf

LEMMA RangeOfOne ==
  ASSUME NEW x
  PROVE  Range(<<x>>) = {x}
<1>1. DOMAIN <<x>> = 1..1 /\ <<x>>[1] = x
  OBVIOUS
<1>2. DOMAIN <<x>> = {1}
  BY <1>1
<1>3. PICK s : s = <<x>>
  OBVIOUS
<1> QED
  BY <1>1, <1>2, <1>3 DEF Range

\* The cause that is named is that of the band.
LEMMA CauseOfBand ==
  ASSUME Observed
  PROVE  (CitableBand = "high") = ("mentioned but not cited" \notin Range(ObservedCause))
<1>1. (CitableBand = "high") <=> AtLeast(Share(3), 25)
  BY DEF CitableBand, BandOf
<1>2. CASE AtLeast(Share(3), 25)
  <2>1. PICK cause \in {"listed with too many competitors", "strong citation performance"} :
          ObservedCause = <<cause>>
    BY <1>2 DEF ObservedCause
  <2>2. Range(<<cause>>) = {cause}
    BY RangeOfOne
  <2>3. "mentioned but not cited" \notin {cause}
    BY <2>1
  <2>4. "mentioned but not cited" \notin Range(ObservedCause)
    BY <2>1, <2>2, <2>3
  <2> QED
    BY <1>1, <1>2, <2>4
<1>3. CASE ~AtLeast(Share(3), 25)
  <2>1. ObservedCause = <<"mentioned but not cited">>
    BY <1>3 DEF ObservedCause
  <2>2. "mentioned but not cited" \in Range(ObservedCause)
    BY <2>1, RangeOfOne
  <2> QED
    BY <1>1, <1>3, <2>2
<1> QED
  BY <1>2, <1>3

\* Where no answer failed, a site often cited is cited in enough of the answers.
LEMMA OftenCitedIsHigh ==
  ASSUME ReportIInv, Rated, "often_cited" \in Insights(results), AtLeast(MentionRate(results), 40),
         \A i \in Shown : results[i].got = "answered"
  PROVE  CitableBand = "high" /\ \E i \in Shown : DepthOf(i) >= 3
<1> DEFINE C == {i \in DOMAIN results : results[i].got = "answered" /\ results[i].cited}
           M == {i \in DOMAIN results : results[i].got = "answered" /\ results[i].mentioned}
           S == {i \in Shown : DepthOf(i) >= 3}
<1>1. Shown = Completed
  BY DEF Shown, Completed
<1>2. C \subseteq S
  BY <1>1, ShownDepth DEF Completed
<1>3. C \subseteq DOMAIN results /\ M \subseteq DOMAIN results
  OBVIOUS
<1>4. /\ CitationRate(results) = Rate(Cardinality(C), Cardinality(Completed))
      /\ MentionRate(results) = Rate(Cardinality(M), Cardinality(Completed))
  BY DEF CitationRate, MentionRate, Answers, Count, Completed
<1>5. IsFiniteSet(S) /\ Cardinality(S) \in Nat /\ Share(3) = Rate(Cardinality(S), Cardinality(Shown))
  BY ShareParts
<1> HIDE DEF C, M, S
<1>6. PICK c \in Nat, m \in Nat : c = Cardinality(C) /\ m = Cardinality(M)
  BY <1>3, ResultsFinite, FS_Subset, FS_CardinalityType
<1>7. PICK s \in Nat : s = Cardinality(S) /\ c <= s
  BY <1>2, <1>5, <1>6, FS_Subset
<1>8. PICK n \in Nat : n = Cardinality(Completed)
  BY ResultsFinite
<1>9. MentionRate(results)[1] > 0 /\ 10 * CitationRate(results)[1] > 7 * MentionRate(results)[1]
  BY DEF Insights, Named
<1>10. n # 0
  BY <1>4, <1>6, <1>8, <1>9 DEF Rate
<1>11. 10 * c > 7 * m /\ m > 0 /\ 100 * m >= 40 * n
  BY <1>4, <1>6, <1>8, <1>9, <1>10 DEF Rate, AtLeast
<1>12. AtLeast(Rate(s, n), 25) /\ s > 0
  BY <1>7, <1>10, <1>11 DEF Rate, AtLeast
<1>13. S # {}
  BY <1>7, <1>12, FS_EmptySet
<1> QED
  BY <1>1, <1>5, <1>7, <1>8, <1>12, <1>13 DEF S, CitableBand, BandOf

\* Where nothing was rated, nothing is deep.
LEMMA UnratedIsLow ==
  ASSUME ReportIInv, ~Rated
  PROVE  CitableBand = "low"
<1> DEFINE S == {i \in Shown : DepthOf(i) >= 3}
<1>1. S = {}
  BY ShownDepth
<1>2. Share(3) = Rate(Cardinality(S), Cardinality(Shown))
  BY ShareParts
<1> HIDE DEF S
<1>3. Share(3) = Rate(0, Cardinality(Shown))
  BY <1>1, <1>2, FS_EmptySet
<1>4. PICK whole \in Nat : whole = Cardinality(Shown)
  BY ShownFinite
<1>5. ~AtLeast(Rate(0, whole), 25) /\ ~AtLeast(Rate(0, whole), 10)
  BY <1>4 DEF AtLeast, Rate
<1> QED
  BY <1>3, <1>4, <1>5 DEF CitableBand, BandOf

\* The rating of a report and the words of its observation do not contradict each other,
\* whatever the classifier replies: what is called strong is citable, and a site that is
\* often cited is not told the opposite, where no answer failed (citation_depth.py and
\* assembler.py count over different denominators); but where the classifier was not
\* called, every site is.
THEOREM RatingsNeverContradict == ReportSpec => []RatingsAgree
<1>1. ReportIInv => RatingsAgree
  <2> SUFFICES ASSUME ReportIInv, Observed
               PROVE  /\ StrongBand = "high" => CitableBand # "low"
                      /\ (CitableBand = "high")
                           = ("mentioned but not cited" \notin Range(ObservedCause))
                      /\ ~Rated => Headline.band = "low"
                      /\ (/\ Rated /\ "often_cited" \in Insights(results)
                          /\ AtLeast(MentionRate(results), 40)
                          /\ \A i \in Shown : results[i].got = "answered")
                         => Headline.band = "high" /\ \E i \in Shown : DepthOf(i) >= 3
    BY DEF RatingsAgree
  <2>1. Headline.band = CitableBand
    BY DEF Headline
  <2> QED
    BY <2>1, StrongIsCitable, CauseOfBand, UnratedIsLow, OftenCitedIsHigh
<1> QED
  BY <1>1, ReportInvariance, PTL

-----------------------------------------------------------------------------
(* The competitors *)

\* A competitor nobody names or links wins nothing: the rates, over the results it has,
\* and its head to head, over the questions of the company, are counts of the same list
\* (benchmark.py).
THEOREM RivalsWinByNames == ReportSpec => []RivalsAgree
<1>1. ReportIInv => RivalsAgree
  <2> SUFFICES ASSUME ReportIInv, Benchmarked, NEW c \in setup.rivals,
                      ~Over(RivalMentions(c), 0), ~Over(RivalCitations(c), 0)
               PROVE  HeadToHead(c).losses = 0
    BY DEF RivalsAgree, CompetitorSummary
  <2> DEFINE there == {i \in DOMAIN rivals[c] : rivals[c][i] # NoResult}
             named == {i \in there : rivals[c][i].mentioned}
             linked == {i \in there : rivals[c][i].cited}
             lost == {i \in Asked : Matchup(i, c) = "loss"}
  <2>1. PICK n \in Nat : n = Len(rivals[c]) /\ DOMAIN rivals[c] = 1..n
    BY DEF ReportIInv
  <2>2. DOMAIN results = DOMAIN rivals[c]
    BY <2>1 DEF ReportIInv, Benchmarked, Compared
  <2>3. IsFiniteSet(1..n)
    BY FS_Interval
  <2>4. /\ IsFiniteSet(there) /\ IsFiniteSet(named) /\ IsFiniteSet(linked)
    <3>1. there \subseteq 1..n /\ named \subseteq 1..n /\ linked \subseteq 1..n
      BY <2>1
    <3> HIDE DEF there, named, linked
    <3> QED
      BY <3>1, <2>3, FS_Subset
  <2>5. /\ RivalMentions(c) = Rate(Cardinality(named), Cardinality(there))
        /\ RivalCitations(c) = Rate(Cardinality(linked), Cardinality(there))
    BY DEF RivalMentions, RivalCitations, RivalRate
  <2>6. named = {} /\ linked = {}
    <3> HIDE DEF there, named, linked
    <3>1. ASSUME NEW S, IsFiniteSet(S), NEW T, IsFiniteSet(T), S \subseteq T,
                 ~Over(Rate(Cardinality(S), Cardinality(T)), 0)
          PROVE  S = {}
      <4>1. PICK s \in Nat, t \in Nat : s = Cardinality(S) /\ t = Cardinality(T) /\ s <= t
        BY <3>1, FS_CardinalityType, FS_Subset
      <4>2. s = 0
        BY <3>1, <4>1 DEF Over, Rate
      <4> QED
        BY <3>1, <4>1, <4>2, FS_EmptySet
    <3>2. named \subseteq there /\ linked \subseteq there
      BY DEF named, linked
    <3> QED
      BY <2>4, <2>5, <3>1, <3>2
  <2>7. lost = {}
    <3> SUFFICES ASSUME NEW i \in Asked
                 PROVE  Matchup(i, c) # "loss"
      OBVIOUS
    <3>1. i \in DOMAIN results /\ i \in DOMAIN rivals[c]
      BY <2>2 DEF Asked
    <3>2. PICK you : you = results[i]
      OBVIOUS
    <3>3. PICK them : them = rivals[c][i]
      OBVIOUS
    <3>4. ~them.mentioned /\ ~them.cited
      BY <2>6, <3>1, <3>3 DEF NoResult
    <3>5. ~VisibleIn(them)
      BY <3>4 DEF VisibleIn
    <3>6. VisibleIn(you) \in BOOLEAN
      BY <3>1, <3>2 DEF ReportIInv, VisibleIn
    <3> QED
      BY <3>2, <3>3, <3>5, <3>6 DEF Matchup
  <2>8. HeadToHead(c).losses = Cardinality(lost)
    <3>1. lost = {i \in Asked : Matchup(i, c) \in {"loss"}}
      OBVIOUS
    <3> HIDE DEF lost
    <3> QED
      BY <3>1 DEF HeadToHead
  <2> QED
    BY <2>7, <2>8, FS_EmptySet
<1> QED
  BY <1>1, ReportInvariance, PTL
-----------------------------------------------------------------------------
(* The causes *)

Weaker(p, q) == raw[p] < raw[q] \/ (raw[p] = raw[q] /\ PillarOrder[p] < PillarOrder[q])

LEMMA TwoAtLeast ==
  ASSUME NEW S, IsFiniteSet(S), NEW a \in S, NEW b \in S, a # b
  PROVE  Cardinality(S) \in Nat /\ Cardinality(S) >= 2
<1>1. Cardinality({a}) = 1 /\ IsFiniteSet({a})
  BY FS_Singleton
<1>2. Cardinality({a} \cup {b}) = Cardinality({a}) + 1
  BY <1>1, FS_AddElement
<1>3. {a} \cup {b} \subseteq S
  OBVIOUS
<1>4. Cardinality({a} \cup {b}) <= Cardinality(S) /\ Cardinality(S) \in Nat
  BY <1>3, FS_Subset, FS_CardinalityType
<1> QED
  BY <1>1, <1>2, <1>4

\* There are finitely many pillars, all in one order.
LEMMA PillarsOrdered ==
  ASSUME ReportIInv
  PROVE  /\ IsFiniteSet(Evaluated)
         /\ \A p \in Evaluated : raw[p] \in Nat /\ PillarOrder[p] \in Nat
         /\ \A p, q \in Evaluated : p # q => Weaker(p, q) \/ Weaker(q, p)
         /\ \A p, q, r \in Evaluated : Weaker(p, q) /\ Weaker(q, r) => Weaker(p, r)
<1>1. Evaluated \subseteq Score!Pillars /\ \A p \in Evaluated : raw[p] \in Nat
  BY DEF Evaluated, ReportIInv
<1>2. \A p \in Score!Pillars : PillarOrder[p] \in 1..7
  BY DEF PillarOrder, Score!Pillars
<1>3. \A p, q \in Score!Pillars : p # q => PillarOrder[p] # PillarOrder[q]
  BY DEF PillarOrder, Score!Pillars
<1>4. IsFiniteSet(Score!Pillars)
  <2>1. PillarOrder \in Injection(Score!Pillars, 1..7)
    <3>1. PillarOrder \in [Score!Pillars -> 1..7]
      BY <1>2 DEF PillarOrder, Score!Pillars
    <3> QED
      BY <3>1, <1>3 DEF Injection, IsInjective
  <2>2. IsFiniteSet(1..7)
    <3>1. PICK m \in Int, n \in Int : m = 1 /\ n = 7
      OBVIOUS
    <3>2. IsFiniteSet(m..n)
      BY FS_Interval
    <3> QED
      BY <3>1, <3>2
  <2> QED
    BY <2>1, <2>2, FS_Injection
<1>5. IsFiniteSet(Evaluated)
  BY <1>1, <1>4, FS_Subset
<1>6. \A p \in Evaluated : raw[p] \in Nat /\ PillarOrder[p] \in Nat
  BY <1>1, <1>2
<1>7. \A p, q \in Evaluated : p # q => Weaker(p, q) \/ Weaker(q, p)
  <2> SUFFICES ASSUME NEW p \in Evaluated, NEW q \in Evaluated, p # q
               PROVE  Weaker(p, q) \/ Weaker(q, p)
    OBVIOUS
  <2>1. PillarOrder[p] # PillarOrder[q]
    BY <1>1, <1>3
  <2>2. PICK x \in Nat, y \in Nat, m \in Nat, n \in Nat :
          x = raw[p] /\ y = raw[q] /\ m = PillarOrder[p] /\ n = PillarOrder[q]
    BY <1>6
  <2> QED
    BY <2>1, <2>2 DEF Weaker
<1>8. \A p, q, r \in Evaluated : Weaker(p, q) /\ Weaker(q, r) => Weaker(p, r)
  BY <1>6 DEF Weaker
<1> QED
  BY <1>5, <1>6, <1>7, <1>8

LEMMA WeakestHasFewBelow ==
  Weakest = {p \in Evaluated : Cardinality({q \in Evaluated : Weaker(q, p)}) < 2}
BY DEF Weakest, Weaker

\* One of the weakest has no two others of them below it.
LEMMA NotThreeWeakest ==
  ASSUME ReportIInv, NEW a \in Weakest, NEW b \in Weakest, NEW c \in Weakest,
         a # b, a # c, Weaker(a, c), Weaker(b, c)
  PROVE  FALSE
<1> DEFINE B == {q \in Evaluated : Weaker(q, c)}
<1>1. a \in B /\ b \in B /\ B \subseteq Evaluated
  BY WeakestHasFewBelow
<1>2. Cardinality(B) < 2
  BY WeakestHasFewBelow
<1> HIDE DEF B
<1>3. IsFiniteSet(B)
  BY <1>1, PillarsOrdered, FS_Subset
<1>4. Cardinality(B) \in Nat /\ Cardinality(B) >= 2
  BY <1>1, <1>3, TwoAtLeast
<1> QED
  BY <1>2, <1>4

\* The pillars named as causes are none but the weakest, and no more than two: of
\* two as weak the first one counts as weaker, so that the order is total, and a third
\* cause can only be one of an observation (assembler.py, the top causes).
THEOREM CausesAreWeakest == ReportSpec => []CausesAgree
<1>1. ReportIInv => CausesAgree
  <2> SUFFICES ASSUME ReportIInv, "top_causes" \in Sections
               PROVE  /\ \A p \in Evaluated \ Weakest, q \in Weakest : raw[p] >= raw[q]
                      /\ Cardinality(TopCauses) = 3 => "observation" \in Sections
    BY DEF CausesAgree
  <2>1. ASSUME NEW p \in Evaluated \ Weakest, NEW q \in Weakest
        PROVE  raw[p] >= raw[q]
    <3> SUFFICES ASSUME ~(raw[p] >= raw[q])
                 PROVE  FALSE
      OBVIOUS
    <3> DEFINE P == {r \in Evaluated : Weaker(r, p)}
               Q == {r \in Evaluated : Weaker(r, q)}
    <3>1. q \in Evaluated /\ Cardinality(Q) < 2 /\ ~(Cardinality(P) < 2)
      BY WeakestHasFewBelow
    <3>2. Weaker(p, q)
      BY <3>1, PillarsOrdered DEF Weaker
    <3>3. P \subseteq Q
      BY <3>1, <3>2, PillarsOrdered
    <3>4. Q \subseteq Evaluated
      OBVIOUS
    <3> HIDE DEF P, Q
    <3>5. IsFiniteSet(Q) /\ IsFiniteSet(P)
      BY <3>3, <3>4, PillarsOrdered, FS_Subset
    <3>6. Cardinality(P) \in Nat /\ Cardinality(Q) \in Nat /\ Cardinality(P) <= Cardinality(Q)
      BY <3>3, <3>5, FS_CardinalityType, FS_Subset
    <3> QED
      BY <3>1, <3>6
  <2>2. ASSUME Cardinality(TopCauses) = 3, ~Observed
        PROVE  FALSE
    <3>1. TopCauses \subseteq Weakest
      <4>1. ObservedCause = <<>>
        BY <2>2 DEF ObservedCause
      <4>2. Range(<<>>) = {}
        BY DEF Range
      <4> QED
        BY <4>1, <4>2 DEF TopCauses
    <3>2. IsFiniteSet(TopCauses) /\ TopCauses \subseteq Evaluated
      BY <3>1, WeakestHasFewBelow, PillarsOrdered, FS_Subset
    <3>3. PICK a \in TopCauses : TRUE
      BY <2>2, FS_EmptySet
    <3>4. IsFiniteSet(TopCauses \ {a}) /\ Cardinality(TopCauses \ {a}) = 2
      BY <2>2, <3>2, <3>3, FS_RemoveElement
    <3>5. PICK b \in TopCauses \ {a} : TRUE
      BY <3>4, FS_EmptySet
    <3>6. Cardinality((TopCauses \ {a}) \ {b}) = 1
      BY <3>4, <3>5, FS_RemoveElement
    <3>7. PICK c \in (TopCauses \ {a}) \ {b} : TRUE
      BY <3>6, FS_EmptySet
    <3>8. /\ {a, b, c} \subseteq Weakest /\ {a, b, c} \subseteq Evaluated
          /\ a # b /\ a # c /\ b # c
      BY <3>1, <3>2, <3>3, <3>5, <3>7
    <3>9. /\ Weaker(a, b) \/ Weaker(b, a)
          /\ Weaker(a, c) \/ Weaker(c, a)
          /\ Weaker(b, c) \/ Weaker(c, b)
      BY <3>8, PillarsOrdered
    <3>10. \/ Weaker(a, c) /\ Weaker(b, c)
           \/ Weaker(a, b) /\ Weaker(c, b)
           \/ Weaker(b, a) /\ Weaker(c, a)
      BY <3>8, <3>9, PillarsOrdered
    <3> QED
      BY <3>8, <3>10, NotThreeWeakest
  <2> QED
    BY <2>1, <2>2 DEF Sections
<1> QED
  BY <1>1, ReportInvariance, PTL
-----------------------------------------------------------------------------
(* The position among the competitors *)

\* If of the pairs the number for each second component is bounded, so is that of all:
\* take the smallest set of components for which it is not, and remove one of them.
LEMMA SlicesBound ==
  ASSUME NEW W, IsFiniteSet(W), NEW Cs, IsFiniteSet(Cs), \A m \in W : m[2] \in Cs,
         NEW lo \in Int, NEW hi \in Int,
         \A c \in Cs : /\ lo <= 100 * Cardinality({m \in W : m[2] = c})
                      /\ 100 * Cardinality({m \in W : m[2] = c}) <= hi
  PROVE  /\ lo * Cardinality(Cs) <= 100 * Cardinality(W)
         /\ 100 * Cardinality(W) <= hi * Cardinality(Cs)
<1> DEFINE Part(S) == {m \in W : m[2] \in S}
           Slice(c) == {m \in W : m[2] = c}
           Good(S) == /\ lo * Cardinality(S) <= 100 * Cardinality(Part(S))
                      /\ 100 * Cardinality(Part(S)) <= hi * Cardinality(S)
           Bad == {n \in Nat : \E S \in SUBSET Cs : Cardinality(S) = n /\ ~Good(S)}
<1>1. Bad = {}
  <2> SUFFICES ASSUME Bad # {}
               PROVE  FALSE
    OBVIOUS
  <2>1. PICK k \in Bad : \A n \in Bad : k <= n
    <3>1. Bad \in SUBSET Nat
      OBVIOUS
    <3> HIDE DEF Bad
    <3> QED
      BY <3>1, LeastNat
  <2>2. PICK S \in SUBSET Cs : k \in Nat /\ Cardinality(S) = k /\ ~Good(S)
    OBVIOUS
  <2>3. S # {}
    <3> SUFFICES ASSUME S = {}
                 PROVE  FALSE
      OBVIOUS
    <3>1. Part(S) = {}
      OBVIOUS
    <3>2. Cardinality(S) = 0 /\ Cardinality(Part(S)) = 0
      <4> HIDE DEF Part
      <4> QED
        BY <3>1, FS_EmptySet
    <3> QED
      BY <2>2, <3>2
  <2>4. PICK c \in S : TRUE
    BY <2>3
  <2>5. PICK rest : rest = S \ {c}
    OBVIOUS
  <2>6. IsFiniteSet(S) /\ rest \in SUBSET Cs /\ Cardinality(rest) = k - 1 /\ k - 1 \in Nat
    <3>1. IsFiniteSet(S)
      BY FS_Subset
    <3>2. IsFiniteSet(rest) /\ Cardinality(rest) = k - 1
      BY <2>2, <2>4, <2>5, <3>1, FS_RemoveElement
    <3>3. Cardinality(rest) \in Nat
      BY <3>2, FS_CardinalityType
    <3> QED
      BY <2>5, <3>1, <3>2, <3>3
  <2>7. Good(rest)
    <3>1. k - 1 \notin Bad
      <4>1. ~(k <= k - 1)
        BY <2>2
      <4> HIDE DEF Bad
      <4> QED
        BY <2>1, <4>1
    <3> HIDE DEF Good
    <3> QED
      BY <2>6, <3>1
  <2>8. Part(S) = Part(rest) \cup Slice(c) /\ Part(rest) \cap Slice(c) = {}
    BY <2>4, <2>5
  <2>9. /\ Part(rest) \subseteq W /\ Slice(c) \subseteq W
        /\ lo <= 100 * Cardinality(Slice(c)) /\ 100 * Cardinality(Slice(c)) <= hi
    OBVIOUS
  <2> HIDE DEF Part, Slice
  <2>10. IsFiniteSet(Part(rest)) /\ IsFiniteSet(Slice(c))
    BY <2>9, FS_Subset
  <2>11. PICK p \in Nat, q \in Nat : p = Cardinality(Part(rest)) /\ q = Cardinality(Slice(c))
    BY <2>10, FS_CardinalityType
  <2>12. Cardinality(Part(S)) = p + q
    <3>1. Cardinality(Part(rest) \cap Slice(c)) = 0
      BY <2>8, FS_EmptySet
    <3>2. Cardinality(Part(rest) \cup Slice(c)) = p + q - Cardinality(Part(rest) \cap Slice(c))
      BY <2>10, <2>11, FS_Union
    <3> QED
      BY <2>8, <3>1, <3>2
  <2>13. lo * k = lo * (k - 1) + lo /\ hi * k = hi * (k - 1) + hi
    BY <2>2
  <2>14. lo * (k - 1) \in Int /\ hi * (k - 1) \in Int
    BY <2>2
  <2>15. lo * (k - 1) <= 100 * p /\ 100 * p <= hi * (k - 1)
    BY <2>6, <2>7, <2>11
  <2>16. lo <= 100 * q /\ 100 * q <= hi
    BY <2>9, <2>11
  <2>17. lo * k <= 100 * (p + q) /\ 100 * (p + q) <= hi * k
    BY <2>13, <2>14, <2>15, <2>16
  <2> QED
    BY <2>2, <2>12, <2>17
<1>2. Part(Cs) = W
  OBVIOUS
<1>3. Good(Cs)
  <2>1. Cardinality(Cs) \in Nat
    BY FS_CardinalityType
  <2> HIDE DEF Good
  <2> QED
    BY <1>1, <2>1
<1> QED
  BY <1>2, <1>3

\* A question and a competitor with a result come out in one of four ways.
LEMMA MatchupIsOneOfFour ==
  ASSUME ReportIInv, Benchmarked, NEW c \in setup.rivals, NEW i \in Asked
  PROVE  Matchup(i, c) \in {"win", "loss", "mutual win", "mutual loss"}
<1>1. PICK you : you = results[i]
  OBVIOUS
<1>2. PICK them : them = rivals[c][i]
  OBVIOUS
<1>3. i \in DOMAIN results
  BY DEF Asked
<1>4. you.mentioned \in BOOLEAN /\ you.cited \in BOOLEAN
  BY <1>1, <1>3 DEF ReportIInv
<1>5. them.mentioned \in BOOLEAN /\ them.cited \in BOOLEAN
  <2>1. rivals[c] \in Seq(RivalAnswers \cup {NoResult}) /\ i \in 1..Len(rivals[c])
    BY <1>3 DEF ReportIInv, Benchmarked, Compared
  <2>2. them \in RivalAnswers \cup {NoResult}
    BY <1>2, <2>1
  <2>3. NoResult.mentioned \in BOOLEAN /\ NoResult.cited \in BOOLEAN
    BY DEF NoResult
  <2>4. \A r \in RivalAnswers : r.mentioned \in BOOLEAN /\ r.cited \in BOOLEAN
    BY ObservationAssumption
  <2> HIDE DEF NoResult
  <2> QED
    BY <2>2, <2>3, <2>4
<1>6. VisibleIn(you) \in BOOLEAN /\ VisibleIn(them) \in BOOLEAN
  BY <1>4, <1>5 DEF VisibleIn
<1> QED
  BY <1>1, <1>2, <1>4, <1>5, <1>6 DEF Matchup

\* The pairs of a question and a competitor the company wins.
WonPairs == {m \in Asked \X setup.rivals : Matchup(m[1], m[2]) = "win"}

\* The totals where every competitor has a result for every question: the pairs that were
\* won, of all pairs.
LEMMA WinsOfPairs ==
  ASSUME ReportIInv, Benchmarked, setup.rivals # {},
         \A c \in setup.rivals, i \in Asked : rivals[c][i] # NoResult
  PROVE  /\ IsFiniteSet(Asked) /\ IsFiniteSet(setup.rivals) /\ IsFiniteSet(WonPairs)
         /\ WinRate = Rate(Cardinality(WonPairs), Cardinality(Asked) * Cardinality(setup.rivals))
<1> DEFINE All == Asked \X setup.rivals
           W == {m \in All : Matchup(m[1], m[2]) = "win"}
           L == {m \in All : Matchup(m[1], m[2]) = "loss"}
           T == {m \in All : Matchup(m[1], m[2]) \in {"mutual win", "mutual loss"}}
<1>1. IsFiniteSet(Asked)
  BY ResultsFinite, FS_Subset DEF Asked
<1>2. IsFiniteSet(setup.rivals)
  BY ObservationAssumption DEF ReportIInv
<1>3. IsFiniteSet(All) /\ Cardinality(All) = Cardinality(Asked) * Cardinality(setup.rivals)
  BY <1>1, <1>2, FS_Product
<1>4. \A m \in All : m[1] \in Asked /\ m[2] \in setup.rivals /\ m[2] \in Counted(m[1])
  BY DEF Counted
<1>5. /\ Overall.wins = Cardinality(W) /\ Overall.losses = Cardinality(L)
      /\ Overall.ties = Cardinality(T)
  <2>1. /\ W = {m \in All : m[2] \in Counted(m[1]) /\ Matchup(m[1], m[2]) \in {"win"}}
        /\ L = {m \in All : m[2] \in Counted(m[1]) /\ Matchup(m[1], m[2]) \in {"loss"}}
        /\ T = {m \in All : m[2] \in Counted(m[1])
                              /\ Matchup(m[1], m[2]) \in {"mutual win", "mutual loss"}}
    BY <1>4
  <2> HIDE DEF W, L, T
  <2> QED
    BY <2>1 DEF Overall
<1>6. All = W \cup (L \cup T) /\ W \cap (L \cup T) = {} /\ L \cap T = {}
  <2>1. \A m \in All : Matchup(m[1], m[2]) \in {"win", "loss", "mutual win", "mutual loss"}
    BY <1>4, MatchupIsOneOfFour
  <2> QED
    BY <2>1
<1>7. W \subseteq All /\ L \subseteq All /\ T \subseteq All
  OBVIOUS
<1> HIDE DEF W, L, T, All
<1>8. IsFiniteSet(W) /\ IsFiniteSet(L) /\ IsFiniteSet(T) /\ IsFiniteSet(L \cup T)
  BY <1>3, <1>6, <1>7, FS_Subset
<1>9. Cardinality(L \cup T) = Cardinality(L) + Cardinality(T) - 0
  BY <1>6, <1>8, FS_Union, FS_EmptySet
<1>10. Cardinality(All) = Cardinality(W) + Cardinality(L \cup T) - 0
  BY <1>6, <1>8, FS_Union, FS_EmptySet
<1>11. PICK w \in Nat, l \in Nat, t \in Nat :
         w = Cardinality(W) /\ l = Cardinality(L) /\ t = Cardinality(T)
  BY <1>8, FS_CardinalityType
<1>12. Matchups = Cardinality(All)
  BY <1>5, <1>9, <1>10, <1>11 DEF Matchups
<1> QED
  BY <1>1, <1>2, <1>3, <1>5, <1>8, <1>12 DEF WinRate, WonPairs, W, All

\* The questions won against one competitor are as many as the pairs that were won with it.
LEMMA WinsOfOne ==
  ASSUME ReportIInv, NEW c \in setup.rivals
  PROVE  Cardinality({m \in WonPairs : m[2] = c}) = HeadToHead(c).wins
<1> DEFINE S == {i \in Asked : Matchup(i, c) \in {"win"}}
           T == {m \in WonPairs : m[2] = c}
           One == {c}
<1>1. HeadToHead(c).wins = Cardinality(S)
  BY DEF HeadToHead
<1>2. T = S \X One
  BY DEF WonPairs
<1>3. IsFiniteSet(S)
  <2>1. S \subseteq DOMAIN results
    BY DEF Asked
  <2> HIDE DEF S
  <2> QED
    BY <2>1, ResultsFinite, FS_Subset
<1>4. IsFiniteSet(One) /\ Cardinality(One) = 1
  BY FS_Singleton
<1> SUFFICES Cardinality(T) = HeadToHead(c).wins
  OBVIOUS
<1> HIDE DEF S, T, One
<1>5. Cardinality(T) = Cardinality(S) * Cardinality(One)
  BY <1>2, <1>3, <1>4, FS_Product
<1>6. Cardinality(S) \in Nat
  BY <1>3, FS_CardinalityType
<1> QED
  BY <1>1, <1>4, <1>5, <1>6

\* The position of the company is earned against some competitor, for any number of them:
\* where each has a result for every question, the share of all pairs that were won lies
\* between the smallest and the largest share of one head to head (benchmark.py counts
\* the two apart).
THEOREM PositionsAreEarned == ReportSpec => []PositionIsEarned
<1>1. ReportIInv => PositionIsEarned
  <2> SUFFICES ASSUME ReportIInv, Benchmarked, setup.rivals # {},
                      \A c \in setup.rivals, i \in Asked : rivals[c][i] # NoResult
               PROVE  /\ "strong" \in Position => \E c \in setup.rivals : Ahead(c) # "trailing"
                      /\ "weak" \in Position => \E c \in setup.rivals : Ahead(c) # "outperforming"
    BY DEF PositionIsEarned
  <2>1. /\ IsFiniteSet(Asked) /\ IsFiniteSet(setup.rivals) /\ IsFiniteSet(WonPairs)
        /\ WinRate = Rate(Cardinality(WonPairs), Cardinality(Asked) * Cardinality(setup.rivals))
    BY WinsOfPairs
  <2>2. \A c \in setup.rivals : Cardinality({m \in WonPairs : m[2] = c}) = HeadToHead(c).wins
    BY WinsOfOne
  <2>3. \A m \in WonPairs : m[2] \in setup.rivals
    BY DEF WonPairs
  <2>4. PICK n \in Nat, r \in Nat, w \in Nat :
          n = Cardinality(Asked) /\ r = Cardinality(setup.rivals) /\ w = Cardinality(WonPairs)
    BY <2>1, FS_CardinalityType
  <2>5. \A c \in setup.rivals : HeadToHead(c).wins \in Nat
    <3> TAKE c \in setup.rivals
    <3> DEFINE S == {m \in WonPairs : m[2] = c}
    <3>1. S \subseteq WonPairs
      OBVIOUS
    <3>2. Cardinality(S) = HeadToHead(c).wins
      BY <2>2
    <3> HIDE DEF S
    <3> QED
      BY <2>1, <3>1, <3>2, FS_Subset, FS_CardinalityType
  <2>6. r # 0
    BY <2>1, <2>4, FS_EmptySet
  <2>7. ASSUME "strong" \in Position, \A c \in setup.rivals : Ahead(c) = "trailing"
        PROVE  FALSE
    <3>1. Over(Rate(w, n * r), 60)
      BY <2>1, <2>4, <2>7 DEF Position, Named
    <3>2. n * r # 0 /\ 100 * w > 60 * (n * r)
      BY <3>1 DEF Over, Rate
    <3>3. n # 0
      BY <3>2
    <3>4. \A c \in setup.rivals : 100 * HeadToHead(c).wins <= 30 * n
      <4> TAKE c \in setup.rivals
      <4>1. PICK v \in Nat : v = HeadToHead(c).wins
        BY <2>5
      <4>2. ~AtLeast(Rate(v, n), 30)
        BY <2>4, <2>7, <4>1 DEF Ahead
      <4> QED
        BY <3>3, <4>1, <4>2 DEF AtLeast, Rate
    <3>5. \A c \in setup.rivals : /\ 0 <= 100 * Cardinality({m \in WonPairs : m[2] = c})
                                  /\ 100 * Cardinality({m \in WonPairs : m[2] = c}) <= 30 * n
      BY <2>2, <2>5, <3>4
    <3>6. 100 * Cardinality(WonPairs) <= (30 * n) * Cardinality(setup.rivals)
      <4>1. PICK lo \in Int, hi \in Int : lo = 0 /\ hi = 30 * n
        OBVIOUS
      <4>2. 100 * Cardinality(WonPairs) <= hi * Cardinality(setup.rivals)
        BY <2>1, <2>3, <3>5, <4>1, SlicesBound
      <4> QED
        BY <4>1, <4>2
    <3>7. (30 * n) * r = 30 * (n * r) /\ n * r \in Nat
      OBVIOUS
    <3> QED
      BY <2>4, <3>2, <3>6, <3>7
  <2>8. ASSUME "weak" \in Position, \A c \in setup.rivals : Ahead(c) = "outperforming"
        PROVE  FALSE
    <3>1. ~AtLeast(Rate(w, n * r), 40)
      BY <2>1, <2>4, <2>8 DEF Position, Named
    <3>2. n # 0
      <4>1. PICK c \in setup.rivals : TRUE
        OBVIOUS
      <4>2. PICK v \in Nat : v = HeadToHead(c).wins
        BY <2>5
      <4>3. Over(Rate(v, n), 70)
        BY <2>4, <2>8, <4>2 DEF Ahead
      <4> QED
        BY <4>3 DEF Over, Rate
    <3>3. n * r # 0 /\ n * r \in Nat
      BY <2>6, <3>2
    <3>4. 100 * w < 40 * (n * r)
      BY <3>1, <3>3 DEF AtLeast, Rate
    <3>5. \A c \in setup.rivals : 70 * n <= 100 * HeadToHead(c).wins /\ HeadToHead(c).wins <= n
      <4> TAKE c \in setup.rivals
      <4>1. PICK v \in Nat : v = HeadToHead(c).wins
        BY <2>5
      <4>2. Over(Rate(v, n), 70)
        BY <2>4, <2>8, <4>1 DEF Ahead
      <4>3. 70 * n <= 100 * v
        BY <3>2, <4>2 DEF Over, Rate
      <4>4. v <= n
        <5> DEFINE S == {i \in Asked : Matchup(i, c) \in {"win"}}
        <5>1. S \subseteq Asked
          OBVIOUS
        <5>2. v = Cardinality(S)
          BY <4>1 DEF HeadToHead
        <5> HIDE DEF S
        <5> QED
          BY <2>1, <2>4, <5>1, <5>2, FS_Subset
      <4> QED
        BY <4>1, <4>3, <4>4
    <3>6. \A c \in setup.rivals : /\ 70 * n <= 100 * Cardinality({m \in WonPairs : m[2] = c})
                                  /\ 100 * Cardinality({m \in WonPairs : m[2] = c}) <= 100 * n
      BY <2>2, <2>5, <3>5
    <3>7. (70 * n) * Cardinality(setup.rivals) <= 100 * Cardinality(WonPairs)
      <4>1. PICK lo \in Int, hi \in Int : lo = 70 * n /\ hi = 100 * n
        OBVIOUS
      <4>2. \A c \in setup.rivals : /\ lo <= 100 * Cardinality({m \in WonPairs : m[2] = c})
                                    /\ 100 * Cardinality({m \in WonPairs : m[2] = c}) <= hi
        BY <3>6, <4>1
      <4>3. lo * Cardinality(setup.rivals) <= 100 * Cardinality(WonPairs)
        BY <2>1, <2>3, <4>2, SlicesBound
      <4> QED
        BY <4>1, <4>3
    <3>8. (70 * n) * r = 70 * (n * r)
      OBVIOUS
    <3> QED
      BY <2>4, <3>3, <3>4, <3>7, <3>8
  <2> QED
    BY <2>7, <2>8
<1> QED
  BY <1>1, ReportInvariance, PTL

-----------------------------------------------------------------------------
(* The readings of an answer *)

\* Of several matches at one place the most certain stays, of equals the first.
LEMMA KeptIs ==
  ASSUME NEW place, NEW k \in DOMAIN place, DOMAIN place \subseteq Nat,
         \A j \in DOMAIN place : place[j] \in DOMAIN Certainty,
         \A j \in DOMAIN place :
           \/ Certainty[place[j]] < Certainty[place[k]]
           \/ Certainty[place[j]] = Certainty[place[k]] /\ k <= j
  PROVE  Kept(place) = place[k]
<1> DEFINE Stays(i) == \A j \in DOMAIN place :
             \/ Certainty[place[j]] < Certainty[place[i]]
             \/ Certainty[place[j]] = Certainty[place[i]] /\ i <= j
           first == CHOOSE i \in DOMAIN place : Stays(i)
<1>1. Kept(place) = place[first]
  BY DEF Kept
<1>2. first \in DOMAIN place /\ Stays(first)
  <2>1. \E i \in DOMAIN place : Stays(i)
    OBVIOUS
  <2> HIDE DEF Stays
  <2> QED
    BY <2>1
<1> HIDE DEF first
<1>3. \A j \in DOMAIN place : Certainty[place[j]] \in Nat
  BY DEF Certainty
<1>4. first = k
  BY <1>2, <1>3
<1> QED
  BY <1>1, <1>4

LEMMA KeptOfOne ==
  ASSUME NEW match \in DOMAIN Certainty
  PROVE  Kept(<<match>>) = match
<1>1. PICK place : place = <<match>>
  OBVIOUS
<1>2. DOMAIN place = {1} /\ place[1] = match
  BY <1>1
<1>3. Certainty[match] \in Nat
  BY DEF Certainty
<1>4. Kept(place) = place[1]
  BY <1>2, <1>3, KeptIs
<1> QED
  BY <1>1, <1>2, <1>4

LEMMA KeptOfName == Kept(<<"exact", "partial">>) = "exact"
<1>1. PICK place : place = <<"exact", "partial">>
  OBVIOUS
<1>2. DOMAIN place = {1, 2} /\ place[1] = "exact" /\ place[2] = "partial"
  BY <1>1
<1>3. \A j \in DOMAIN place : place[j] \in DOMAIN Certainty
  BY <1>2 DEF Certainty
<1>4. Certainty["partial"] < Certainty["exact"]
  BY DEF Certainty
<1>5. Kept(place) = place[1]
  BY <1>2, <1>3, <1>4, KeptIs
<1> QED
  BY <1>1, <1>2, <1>5

\* The place of a domain: where the domain starts with the name, the whole name, as
\* certain, was found first.
DomainPlace(d) == InDomain(d) \o <<"domain">>

MatchTypes == {"exact", "partial", "domain", "url", "branded"}

LEMMA DomainLast ==
  ASSUME NEW d, NEW n \in Nat, InDomain(d) \in Seq(MatchTypes), Len(InDomain(d)) = n
  PROVE  /\ DOMAIN DomainPlace(d) = 1..(n + 1)
         /\ \A j \in 1..n : DomainPlace(d)[j] = InDomain(d)[j]
         /\ DomainPlace(d)[n + 1] = "domain"
<1>1. PICK front \in Seq(MatchTypes) : front = InDomain(d) /\ Len(front) = n
  OBVIOUS
<1>2. DomainPlace(d) = Append(front, "domain")
  <2>1. "domain" \in MatchTypes
    BY DEF MatchTypes
  <2> QED
    BY <1>1, <2>1, AppendIsConcat DEF DomainPlace
<1>3. PICK place : place = Append(front, "domain")
  OBVIOUS
<1>4. /\ DOMAIN place = 1..(n + 1) /\ place[n + 1] = "domain"
      /\ \A j \in 1..n : place[j] = front[j]
  BY <1>1, <1>3
<1> QED
  BY <1>1, <1>2, <1>3, <1>4

LEMMA KeptOfDomain ==
  ASSUME NEW d
  PROVE  Kept(DomainPlace(d)) = IF d = "name" THEN "exact" ELSE "domain"
<1>1. PICK place : place = DomainPlace(d)
  OBVIOUS
<1>2. CASE d = "name"
  <2>1. /\ InDomain(d) \in Seq(MatchTypes) /\ Len(InDomain(d)) = 2
        /\ InDomain(d)[1] = "exact" /\ InDomain(d)[2] = "partial"
    BY <1>2 DEF InDomain, MatchTypes
  <2>2. /\ DOMAIN place = {1, 2, 3}
        /\ place[1] = "exact" /\ place[2] = "partial" /\ place[3] = "domain"
    <3>1. /\ DOMAIN DomainPlace(d) = 1..(2 + 1)
          /\ \A j \in 1..2 : DomainPlace(d)[j] = InDomain(d)[j]
          /\ DomainPlace(d)[2 + 1] = "domain"
      BY <2>1, DomainLast
    <3> QED
      BY <1>1, <2>1, <3>1
  <2>3. \A j \in DOMAIN place : place[j] \in DOMAIN Certainty
    BY <2>2 DEF Certainty
  <2>4. Certainty["partial"] < Certainty["exact"] /\ Certainty["domain"] = Certainty["exact"]
    BY DEF Certainty
  <2>5. Kept(place) = place[1]
    BY <2>2, <2>3, <2>4, KeptIs
  <2> QED
    BY <1>1, <1>2, <2>2, <2>5
<1>3. CASE d = "short"
  <2>1. /\ InDomain(d) \in Seq(MatchTypes) /\ Len(InDomain(d)) = 1
        /\ InDomain(d)[1] = "partial"
    BY <1>3 DEF InDomain, MatchTypes
  <2>2. DOMAIN place = {1, 2} /\ place[1] = "partial" /\ place[2] = "domain"
    <3>1. /\ DOMAIN DomainPlace(d) = 1..(1 + 1)
          /\ \A j \in 1..1 : DomainPlace(d)[j] = InDomain(d)[j]
          /\ DomainPlace(d)[1 + 1] = "domain"
      BY <2>1, DomainLast
    <3> QED
      BY <1>1, <2>1, <3>1
  <2>3. \A j \in DOMAIN place : place[j] \in DOMAIN Certainty
    BY <2>2 DEF Certainty
  <2>4. Certainty["partial"] < Certainty["domain"]
    BY DEF Certainty
  <2>5. Kept(place) = place[2]
    BY <2>2, <2>3, <2>4, KeptIs
  <2> QED
    BY <1>1, <1>3, <2>2, <2>5
<1>4. CASE d \notin {"name", "short"}
  <2>1. InDomain(d) \in Seq(MatchTypes) /\ Len(InDomain(d)) = 0
    BY <1>4 DEF InDomain, MatchTypes
  <2>2. DOMAIN place = {1} /\ place[1] = "domain"
    <3>1. PICK n \in Nat : n = 0
      OBVIOUS
    <3>2. DOMAIN DomainPlace(d) = 1..(n + 1) /\ DomainPlace(d)[n + 1] = "domain"
      BY <2>1, <3>1, DomainLast
    <3> QED
      BY <1>1, <3>1, <3>2
  <2>3. \A j \in DOMAIN place : place[j] \in DOMAIN Certainty
    BY <2>2 DEF Certainty
  <2>4. Kept(place) = place[1]
    BY <2>2, <2>3, KeptIs
  <2> QED
    BY <1>1, <1>4, <2>2, <2>4
<1> QED
  BY <1>2, <1>3, <1>4

\* The places of each word.
LEMMA PlacesOfWord ==
  ASSUME NEW w, NEW d
  PROVE  /\ w = "name" => Range(Places(w, d)) = {<<"exact", "partial">>}
         /\ w = "short" => Range(Places(w, d)) = {<<"partial">>}
         /\ w \in {"url", "URL"} => Range(Places(w, d)) = {<<"url">>, DomainPlace(d)}
         /\ w \in {"domain", "suburl", "otherurl"} => Range(Places(w, d)) = {DomainPlace(d)}
         /\ w = "brand" => Range(Places(w, d)) = {<<"branded">>}
         /\ w = "other" => Range(Places(w, d)) = {}
<1>1. \A x, y : Range(<<x, y>>) = {x, y}
  <2> TAKE x, y
  <2>1. PICK s : s = <<x, y>>
    OBVIOUS
  <2>2. DOMAIN s = {1, 2} /\ s[1] = x /\ s[2] = y
    BY <2>1
  <2> QED
    BY <2>1, <2>2 DEF Range
<1>2. Range(<<>>) = {}
  BY DEF Range
<1>3. CASE w \in {"url", "URL"}
  BY <1>1, <1>3 DEF Places, DomainPlace
<1>4. CASE w = "other"
  BY <1>2, <1>4 DEF Places
<1>5. CASE w = "name"
  <2>1. Places(w, d) = <<<<"exact", "partial">>>>
    BY <1>5 DEF Places
  <2> QED
    BY <1>5, <2>1, RangeOfOne
<1>6. CASE w = "short"
  <2>1. Places(w, d) = <<<<"partial">>>>
    BY <1>6 DEF Places
  <2> QED
    BY <1>6, <2>1, RangeOfOne
<1>7. CASE w = "brand"
  <2>1. Places(w, d) = <<<<"branded">>>>
    BY <1>7 DEF Places
  <2> QED
    BY <1>7, <2>1, RangeOfOne
<1>8. CASE w \in {"domain", "suburl", "otherurl"}
  <2>1. Places(w, d) = <<DomainPlace(d)>>
    BY <1>8 DEF Places, DomainPlace
  <2>2. Range(<<DomainPlace(d)>>) = {DomainPlace(d)}
    BY RangeOfOne
  <2> QED
    BY <1>8, <2>1, <2>2
<1> QED
  BY <1>3, <1>4, <1>5, <1>6, <1>7, <1>8

\* What is kept of each word.
KeptOf(w, d) == {Kept(place) : place \in Range(Places(w, d))}

LEMMA KeptOfWord ==
  ASSUME NEW w \in Words, NEW d
  PROVE  /\ w = "name" => "exact" \in KeptOf(w, d)
         /\ w \in WithDomain /\ d = "name" => "exact" \in KeptOf(w, d)
         /\ "url" \in KeptOf(w, d) => w \in {"url", "URL"}
         /\ "domain" \in KeptOf(w, d) => w \in WithDomain
<1>1. /\ Kept(<<"partial">>) = "partial" /\ Kept(<<"url">>) = "url"
      /\ Kept(<<"branded">>) = "branded"
  <2>1. {"partial", "url", "branded"} \subseteq DOMAIN Certainty
    BY DEF Certainty
  <2> QED
    BY <2>1, KeptOfOne
<1>2. CASE w \in {"domain", "suburl", "otherurl"}
  <2>1. KeptOf(w, d) = {Kept(DomainPlace(d))}
    BY <1>2, PlacesOfWord DEF KeptOf
  <2> QED
    BY <1>2, <2>1, KeptOfDomain DEF WithDomain
<1>3. CASE w \in {"url", "URL"}
  <2>1. KeptOf(w, d) = {"url", Kept(DomainPlace(d))}
    BY <1>1, <1>3, PlacesOfWord DEF KeptOf
  <2> QED
    BY <1>3, <2>1, KeptOfDomain DEF WithDomain
<1>4. CASE w = "name"
  <2>1. KeptOf(w, d) = {"exact"}
    BY <1>4, KeptOfName, PlacesOfWord DEF KeptOf
  <2> QED
    BY <1>4, <2>1 DEF WithDomain
<1>5. CASE w = "short"
  <2>1. KeptOf(w, d) = {"partial"}
    BY <1>1, <1>5, PlacesOfWord DEF KeptOf
  <2> QED
    BY <1>5, <2>1 DEF WithDomain
<1>6. CASE w = "brand"
  <2>1. KeptOf(w, d) = {"branded"}
    BY <1>1, <1>6, PlacesOfWord DEF KeptOf
  <2> QED
    BY <1>6, <2>1 DEF WithDomain
<1>7. CASE w = "other"
  <2>1. KeptOf(w, d) = {}
    BY <1>7, PlacesOfWord DEF KeptOf
  <2> QED
    BY <1>7, <2>1 DEF WithDomain
<1> QED
  BY <1>2, <1>3, <1>4, <1>5, <1>6, <1>7 DEF Words

LEMMA MentionedByAWord ==
  ASSUME NEW a \in Texts, NEW types
  PROVE  Mentioned(a, types) <=>
           \E i \in DOMAIN a.words : KeptOf(a.words[i], a.domain) \cap types # {}
<1>1. Mentions(a) = UNION {KeptOf(a.words[i], a.domain) : i \in DOMAIN a.words}
  BY DEF Mentions, KeptOf
<1> QED
  BY <1>1 DEF Mentioned

\* Where the place of the name is not found the name is not either.
LEMMA AbsentIsUnnamed ==
  ASSUME NEW a \in Texts, MentionPosition(a) = "absent"
  PROVE  ~MentionsCompany(a)
<1> DEFINE bearing == {i \in DOMAIN a.words : MentionsCompany([a EXCEPT !.words = <<a.words[i]>>])}
<1>1. bearing = {}
  BY DEF MentionPosition
<1> SUFFICES ASSUME MentionsCompany(a)
             PROVE  FALSE
  OBVIOUS
<1>2. PICK ws : ws = {"name"} \cup IF a.domain = "name" THEN WithDomain ELSE {}
  OBVIOUS
<1>3. PICK i \in DOMAIN a.words : a.words[i] \in ws
  BY <1>2 DEF MentionsCompany, Holds
<1>4. PICK one : one = [a EXCEPT !.words = <<a.words[i]>>]
  OBVIOUS
<1>5. one.words = <<a.words[i]>> /\ one.domain = a.domain
  BY <1>4 DEF Texts
<1>6. DOMAIN one.words = {1} /\ one.words[1] = a.words[i]
  BY <1>5
<1>7. Holds(one, ws)
  BY <1>3, <1>6 DEF Holds
<1>8. MentionsCompany(one)
  BY <1>2, <1>5, <1>7 DEF MentionsCompany
<1> QED
  BY <1>1, <1>4, <1>8

\* The three readings of an answer nest, whatever its words: what the runner takes for
\* the name the parser finds too, although at a place where the name and the domain begin
\* it keeps one match only; what the parser takes for a domain or a link has a domain for
\* the runner; and the one link that the runner misses is that with its scheme in capitals
\* (parser.py and runner.py search the text with rules of their own).
THEOREM ReadingsAlwaysNest == ReportSpec => []ReadingsNest
<1>1. ReportIInv => ReadingsNest
  <2> SUFFICES ASSUME ReportIInv, NEW i \in DOMAIN results, Answered(i)
               PROVE  LET text == results[i].text
                      IN  /\ results[i].mentioned => HasCompanyMention(text)
                          /\ HasDomainMention(text) \/ HasUrlCitation(text) => MentionsDomain(text)
                          /\ HasUrlCitation(text) => results[i].cited \/ Holds(text, {"URL"})
                          /\ MentionPosition(text) = "absent" => HeuristicDepth(text) = 0
    BY DEF ReadingsNest, Answered
  <2>1. PICK a : a = results[i].text
    OBVIOUS
  <2>2. /\ a \in Texts /\ results[i].mentioned = MentionsCompany(a)
        /\ results[i].cited = MentionsUrl(a)
    BY <2>1, ObservationAssumption DEF ReportIInv
  <2>3. \A j \in DOMAIN a.words : a.words[j] \in Words
    <3>1. a.words \in Seq(Words)
      BY <2>2 DEF Texts
    <3> QED
      BY <3>1
  <2>4. MentionsCompany(a) => HasCompanyMention(a)
    <3> SUFFICES ASSUME MentionsCompany(a)
                 PROVE  HasCompanyMention(a)
      OBVIOUS
    <3>1. PICK j \in DOMAIN a.words : \/ a.words[j] = "name"
                                      \/ a.words[j] \in WithDomain /\ a.domain = "name"
      BY DEF MentionsCompany, Holds
    <3>2. "exact" \in KeptOf(a.words[j], a.domain)
      BY <2>3, <3>1, KeptOfWord
    <3>3. KeptOf(a.words[j], a.domain) \cap {"exact", "partial"} # {}
      BY <3>2
    <3> QED
      BY <2>2, <3>3, MentionedByAWord DEF HasCompanyMention
  <2>5. HasUrlCitation(a) => MentionsDomain(a) /\ (MentionsUrl(a) \/ Holds(a, {"URL"}))
    <3> SUFFICES ASSUME HasUrlCitation(a)
                 PROVE  MentionsDomain(a) /\ (MentionsUrl(a) \/ Holds(a, {"URL"}))
      OBVIOUS
    <3>1. PICK j \in DOMAIN a.words : KeptOf(a.words[j], a.domain) \cap {"url"} # {}
      BY <2>2, MentionedByAWord DEF HasUrlCitation
    <3>2. a.words[j] \in {"url", "URL"}
      BY <2>3, <3>1, KeptOfWord
    <3> QED
      BY <3>2 DEF MentionsUrl, MentionsDomain, WithDomain, Holds
  <2>6. HasDomainMention(a) => MentionsDomain(a)
    <3> SUFFICES ASSUME HasDomainMention(a)
                 PROVE  MentionsDomain(a)
      OBVIOUS
    <3>1. PICK j \in DOMAIN a.words : KeptOf(a.words[j], a.domain) \cap {"domain"} # {}
      BY <2>2, MentionedByAWord DEF HasDomainMention
    <3>2. a.words[j] \in WithDomain
      BY <2>3, <3>1, KeptOfWord
    <3> QED
      BY <3>2 DEF MentionsDomain, Holds
  <2>7. MentionPosition(a) = "absent" => HeuristicDepth(a) = 0
    BY <2>2, AbsentIsUnnamed DEF HeuristicDepth, SourceFraming
  <2> QED
    BY <2>1, <2>2, <2>4, <2>5, <2>6, <2>7
<1> QED
  BY <1>1, ReportInvariance, PTL

-----------------------------------------------------------------------------
(* The benchmark. *)

LEMMA FoldIsSum == ASSUME NEW w PROVE FoldFunction(+, 0, w) = SumOn(w, DOMAIN w)
BY DEF FoldFunction, FoldFunctionOnSet, MapThenFoldSet, SumOn, AddsUp

\* The first components of the pairs with a second one.
Slice(P, A, c) == {i \in A : <<i, c>> \in P}
Pairs(P, A, C) == IsFiniteSet(A) /\ IsFiniteSet(C) /\ P \subseteq A \X C
Counts(w, P, A, C) == \A c \in C : w[c] = Cardinality(Slice(P, A, c))

\* Pairs are as many as there are for each second component together.
LEMMA PairsAddUp ==
  ASSUME NEW A, NEW C, NEW P, Pairs(P, A, C), NEW w, Counts(w, P, A, C)
  PROVE  /\ Numbers(w, C) /\ \A c \in C : w[c] \in Nat
         /\ Cardinality(P) = SumOn(w, C)
<1> DEFINE Of(U) == {m \in P : m[2] \in U}
           S(c) == Slice(P, A, c)
           F == {U \in SUBSET C : Cardinality(Of(U)) = SumOn(w, U)}
<1>0. IsFiniteSet(A) /\ IsFiniteSet(C) /\ P \subseteq A \X C
  BY DEF Pairs
<1>1. IsFiniteSet(P)
  BY <1>0, FS_Product, FS_Subset
<1>2. \A c \in C : w[c] = Cardinality(S(c)) /\ IsFiniteSet(S(c)) /\ w[c] \in Nat
  <2> TAKE c \in C
  <2>1. S(c) \subseteq A /\ w[c] = Cardinality(S(c))
    BY DEF Slice, Counts
  <2> HIDE DEF S
  <2> QED BY <1>0, <2>1, FS_Subset, FS_CardinalityType
<1>3. Numbers(w, C)
  BY <1>0, <1>2, SumNat
<1>4. {} \in F
  <2>1. Of({}) = {}
    OBVIOUS
  <2> HIDE DEF Of
  <2> QED BY <2>1, SumNone, FS_EmptySet
<1>5. ASSUME NEW U \in SUBSET C, NEW c \in C, U \in F, c \notin U
      PROVE  U \cup {c} \in F
  <2> DEFINE One == {c}
             Here == S(c) \X One
  <2>1. Of(U \cup {c}) = Of(U) \cup Here /\ Of(U) \cap Here = {}
    <3>1. \A m \in P : m = <<m[1], m[2]>> /\ m[1] \in A /\ m[2] \in C
      BY <1>0
    <3>2. Here = {m \in P : m[2] = c}
      BY <3>1 DEF Slice
    <3> HIDE DEF Here
    <3> QED BY <1>5, <3>2
  <2>2. IsFiniteSet(Of(U))
    <3>1. Of(U) \subseteq P
      OBVIOUS
    <3> HIDE DEF Of
    <3> QED BY <1>1, <3>1, FS_Subset
  <2>3. IsFiniteSet(Here) /\ Cardinality(Here) = w[c]
    <3>1. IsFiniteSet(One) /\ Cardinality(One) = 1
      BY FS_Singleton
    <3> HIDE DEF One, S
    <3>2. IsFiniteSet(S(c) \X One) /\ Cardinality(S(c) \X One) = Cardinality(S(c)) * 1
      BY <1>2, <3>1, FS_Product
    <3> QED BY <1>2, <3>2
  <2> HIDE DEF Of, Here
  <2>4. Cardinality(Of(U) \cup Here) = Cardinality(Of(U)) + Cardinality(Here) - 0
    BY <2>1, <2>2, <2>3, FS_Union, FS_EmptySet
  <2>5. SumOn(w, U \cup {c}) = w[c] + SumOn(w, U) /\ SumOn(w, U) \in Int /\ w[c] \in Int
    <3> HIDE DEF F
    <3>1. U \in SUBSET C /\ c \in C /\ c \notin U
      BY <1>5
    <3>2. U \cup {c} \in SUBSET C /\ (U \cup {c}) \ {c} = U /\ c \in U \cup {c}
      BY <3>1
    <3>3. PICK V \in SUBSET C : V = U \cup {c} /\ V \ {c} = U /\ c \in V
      BY <3>2
    <3>4. Numbers(w, V) /\ Numbers(w, U) /\ SumOn(w, U) \in Int
      BY <1>3, NumbersOfPart
    <3>5. SumOn(w, V) = w[c] + SumOn(w, V \ {c})
      BY <3>3, <3>4, SumStep
    <3>6. w[c] \in Int
      BY <1>2
    <3> QED BY <3>3, <3>4, <3>5, <3>6
  <2>6. Cardinality(Of(U)) = SumOn(w, U)
    BY <1>5
  <2>7. Cardinality(Of(U \cup {c})) = SumOn(w, U \cup {c})
    <3>1. PICK a, b, d : a = Cardinality(Of(U)) /\ b = Cardinality(Here) /\ d = Cardinality(Of(U) \cup Here)
      OBVIOUS
    <3>2. PICK x \in Int, y \in Int : x = w[c] /\ y = SumOn(w, U)
      BY <2>5
    <3>3. d = x + y
      BY <2>3, <2>4, <2>6, <3>1, <3>2
    <3> QED BY <2>1, <2>5, <3>1, <3>2, <3>3
  <2> QED BY <1>5, <2>7
<1>6. SUBSET C \subseteq F
  <2> HIDE DEF F
  <2> QED BY <1>0, <1>4, <1>5, SetByStep
<1>7. Of(C) = P
  BY <1>0
<1> QED BY <1>2, <1>3, <1>6, <1>7

\* A set for each second component has the pairs' first ones.
Covers(S, P, A, C) == (\A c \in C : S[c] \subseteq A) /\ \A m \in P : m[1] \in S[m[2]]

\* Some of the pairs of a question and a competitor are no more than all, for which the
\* head to heads add up; and as many, if they are all.
LEMMA PairsOfHeadToHeads ==
  ASSUME NEW A, NEW C, NEW P, Pairs(P, A, C), NEW S, Covers(S, P, A, C),
         NEW v, DOMAIN v = C, \A c \in C : v[c] = Cardinality(S[c])
  PROVE  /\ Cardinality(P) <= SumOn(v, C)
         /\ (\A c \in C : \A i \in S[c] : <<i, c>> \in P) => Cardinality(P) = SumOn(v, C)
<1>0. PICK w : w = [c \in C |-> Cardinality(Slice(P, A, c))]
  OBVIOUS
<1>1. /\ Numbers(w, C) /\ \A c \in C : w[c] \in Nat
      /\ Cardinality(P) = SumOn(w, C)
  <2>1. Counts(w, P, A, C)
    BY <1>0 DEF Counts
  <2> QED BY <2>1, PairsAddUp
<1>2. \A c \in C : v[c] \in Nat /\ w[c] <= v[c]
  <2> TAKE c \in C
  <2>1. /\ Slice(P, A, c) \subseteq S[c] /\ S[c] \subseteq A
        /\ w[c] = Cardinality(Slice(P, A, c)) /\ v[c] = Cardinality(S[c])
    BY <1>0 DEF Slice, Covers, Pairs
  <2>2. IsFiniteSet(A)
    BY DEF Pairs
  <2> QED BY <2>2, <2>1, FS_Subset, FS_CardinalityType
<1>3. Numbers(v, C)
  BY <1>2, SumNat DEF Pairs
<1>4. ASSUME \A c \in C : \A i \in S[c] : <<i, c>> \in P PROVE \A c \in C : w[c] = v[c]
  <2> TAKE c \in C
  <2>1. Slice(P, A, c) = S[c]
    BY <1>4 DEF Slice, Covers
  <2> QED BY <1>0, <2>1
<1>5. SumOn(w, C) <= SumOn(v, C)
  BY <1>1, <1>2, <1>3, SumMono
<1>6. (\A c \in C : w[c] = v[c]) => SumOn(w, C) = SumOn(v, C)
  BY <1>1, SumAgree
<1> QED BY <1>1, <1>3, <1>4, <1>5, <1>6

\* The questions a competitor comes out of in one of some ways, and the pairs with a result.
OutOf(c, os) == {i \in Asked : Matchup(i, c) \in os}
CountedPairs(os) ==
  {m \in Asked \X setup.rivals : m[2] \in Counted(m[1]) /\ Matchup(m[1], m[2]) \in os}

LEMMA TotalsOfPairs ==
  ASSUME ReportIInv, Benchmarked, NEW os, NEW v, DOMAIN v = setup.rivals,
         \A c \in setup.rivals : v[c] = Cardinality(OutOf(c, os))
  PROVE  /\ Cardinality(CountedPairs(os)) <= FoldFunction(+, 0, v)
         /\ (\A c \in setup.rivals, i \in Asked : Matchup(i, c) \in os => rivals[c][i] # NoResult)
              => Cardinality(CountedPairs(os)) = FoldFunction(+, 0, v)
<1>0. PICK P, S, A, C : /\ P = CountedPairs(os) /\ S = [c \in setup.rivals |-> OutOf(c, os)]
                      /\ A = Asked /\ C = setup.rivals
  OBVIOUS
<1>1. IsFiniteSet(A) /\ IsFiniteSet(C) /\ DOMAIN v = C
  BY <1>0, ResultsFinite, FS_Subset, ObservationAssumption DEF Asked, ReportIInv
<1>2. P \subseteq A \X C
  BY <1>0 DEF CountedPairs
<1>3. /\ \A c \in C : S[c] \subseteq A /\ v[c] = Cardinality(S[c])
      /\ \A m \in P : m[1] \in S[m[2]]
  BY <1>0 DEF CountedPairs, OutOf
<1>4. (\A c \in setup.rivals, i \in Asked : Matchup(i, c) \in os => rivals[c][i] # NoResult)
        => \A c \in C : \A i \in S[c] : <<i, c>> \in P
  BY <1>0 DEF CountedPairs, OutOf, Counted
<1>5. /\ Cardinality(P) <= SumOn(v, C)
      /\ (\A c \in C : \A i \in S[c] : <<i, c>> \in P) => Cardinality(P) = SumOn(v, C)
  <2>1. Pairs(P, A, C) /\ Covers(S, P, A, C) /\ DOMAIN v = C /\ \A c \in C : v[c] = Cardinality(S[c])
    BY <1>1, <1>2, <1>3 DEF Pairs, Covers
  <2> QED BY <2>1, PairsOfHeadToHeads
<1>6. FoldFunction(+, 0, v) = SumOn(v, C)
  BY <1>1, FoldIsSum
<1> QED BY <1>0, <1>4, <1>5, <1>6

\* A question is lost to a competitor only with a result.
LEMMA LostWithResult ==
  ASSUME ReportIInv, Benchmarked, NEW c \in setup.rivals, NEW i \in Asked, Matchup(i, c) = "loss"
  PROVE  rivals[c][i] # NoResult
<1>1. PICK you : you = results[i]
  OBVIOUS
<1>2. PICK them : them = rivals[c][i]
  OBVIOUS
<1>3. them = NoResult => ~VisibleIn(them) /\ them.cited = FALSE
  BY DEF VisibleIn, NoResult
<1>4. ~VisibleIn(them) => Matchup(i, c) # "loss"
  BY <1>1, <1>2 DEF Matchup
<1> QED BY <1>2, <1>3, <1>4

\* The totals of a benchmark are those of its head to heads, for any number of competitors
\* and questions.
LEMMA TotalsAddUp == ReportIInv => HeadToHeadsAddUp
<1> SUFFICES ASSUME ReportIInv, Benchmarked PROVE HeadToHeadsAddUp
  BY DEF HeadToHeadsAddUp
<1>1. PICK W, L, T : /\ W = [c \in setup.rivals |-> HeadToHead(c)["wins"]]
                     /\ L = [c \in setup.rivals |-> HeadToHead(c)["losses"]]
                     /\ T = [c \in setup.rivals |-> HeadToHead(c)["ties"]]
  OBVIOUS
<1>2. PICK won, lost, tied : won = {"win"} /\ lost = {"loss"} /\ tied = {"mutual win", "mutual loss"}
  OBVIOUS
<1>3. /\ DOMAIN W = setup.rivals /\ \A c \in setup.rivals : W[c] = Cardinality(OutOf(c, won))
      /\ DOMAIN L = setup.rivals /\ \A c \in setup.rivals : L[c] = Cardinality(OutOf(c, lost))
      /\ DOMAIN T = setup.rivals /\ \A c \in setup.rivals : T[c] = Cardinality(OutOf(c, tied))
  BY <1>1, <1>2 DEF HeadToHead, OutOf
<1>4. /\ Overall.wins = Cardinality(CountedPairs(won)) /\ Overall.losses = Cardinality(CountedPairs(lost))
      /\ Overall.ties = Cardinality(CountedPairs(tied))
  BY <1>2 DEF Overall, CountedPairs
<1>5. \A c \in setup.rivals, i \in Asked : Matchup(i, c) \in lost => rivals[c][i] # NoResult
  BY <1>2, LostWithResult
<1>6. Overall.losses = FoldFunction(+, 0, L)
  BY <1>3, <1>4, <1>5, TotalsOfPairs
<1>7. Overall.wins <= FoldFunction(+, 0, W) /\ Overall.ties <= FoldFunction(+, 0, T)
  BY <1>3, <1>4, TotalsOfPairs
<1>8. ASSUME \A c \in setup.rivals, i \in Asked : rivals[c][i] # NoResult
      PROVE  Overall.wins = FoldFunction(+, 0, W) /\ Overall.ties = FoldFunction(+, 0, T)
  BY <1>3, <1>4, <1>8, TotalsOfPairs
<1> QED BY <1>1, <1>6, <1>7, <1>8, Zenon DEF HeadToHeadsAddUp

-----------------------------------------------------------------------------
(* The gap to the competitors. *)

Fractions == Int \X (Nat \ {0})
Nothing == <<0, 1>>

LEMMA NothingIs == Nothing \in Fractions /\ Nothing[1] = 0 /\ Nothing[2] = 1
<1>1. PICK a \in Int, b \in Nat \ {0} : a = 0 /\ b = 1
  OBVIOUS
<1>2. Nothing = <<a, b>>
  BY <1>1 DEF Nothing
<1> QED BY <1>1, <1>2 DEF Fractions

\* What the rates of some competitors come to, added up as fractions.
RatesAddUp(g, S) ==
  g = [s \in SUBSET S |-> IF s = {} THEN <<0, 1>>
                          ELSE LET x == CHOOSE x \in s : TRUE IN Plus(RivalMentions(x), g[s \ {x}])]
TotalRate == (CHOOSE g : RatesAddUp(g, setup.rivals))[setup.rivals]

LEMMA AverageOfRates ==
  setup.rivals # {} =>
    Average(RivalMentions) = <<TotalRate[1], TotalRate[2] * Cardinality(setup.rivals)>>
BY DEF Average, FoldSet, MapThenFoldSet, TotalRate, RatesAddUp

LEMMA SumOfFractions ==
  ASSUME NEW x \in Fractions, NEW y \in Fractions
  PROVE  /\ Plus(x, y) \in Fractions
         /\ Plus(x, y)[1] = x[1] * y[2] + y[1] * x[2] /\ Plus(x, y)[2] = x[2] * y[2]
<1>1. PICK a \in Int, b \in Nat \ {0}, c \in Int, d \in Nat \ {0} : x = <<a, b>> /\ y = <<c, d>>
  BY DEF Fractions
<1>2. a * d + c * b \in Int /\ b * d \in Nat \ {0}
  <2>1. b >= 1 /\ d >= 1
    OBVIOUS
  <2>2. b * d \in Nat /\ b * d >= b
    BY <2>1
  <2> QED BY <2>1, <2>2
<1>3. Plus(x, y) = <<a * d + c * b, b * d>>
  BY <1>1 DEF Plus
<1> QED BY <1>1, <1>2, <1>3 DEF Fractions

LEMMA TimesKeepsOrder ==
  ASSUME NEW a \in Int, NEW b \in Int, NEW n \in Nat, a <= b PROVE n * a <= n * b
OBVIOUS

\* A fraction that is behind the share of each is behind that of one more.
LEMMA BehindOneMore ==
  ASSUME NEW m \in Int, NEW n \in Nat, NEW k \in Nat,
         NEW a \in Int, NEW b \in Nat, NEW c \in Int, NEW d \in Nat,
         100 * (m * b - a * n) <= -20 * (n * b),
         100 * (k * (m * d) - c * n) <= -20 * (k * (n * d))
  PROVE  100 * ((k + 1) * (m * (b * d)) - (a * d + c * b) * n) <= -20 * ((k + 1) * (n * (b * d)))
<1>1. d * (100 * (m * b - a * n)) <= d * (-20 * (n * b))
  BY TimesKeepsOrder
<1>2. b * (100 * (k * (m * d) - c * n)) <= b * (-20 * (k * (n * d)))
  BY TimesKeepsOrder
<1> QED BY <1>1, <1>2

\* A rate is behind a share m / n by a fifth at least.
Behind(m, n, y) == 100 * (m * y[2] - y[1] * n) <= -20 * (n * y[2])
\* So many of them together are.
BehindAll(m, n, k, y) == 100 * (k * (m * y[2]) - y[1] * n) <= -20 * (k * (n * y[2]))

LEMMA BehindOne ==
  ASSUME NEW m \in Int, NEW n \in Nat, NEW k \in Nat, NEW x \in Fractions, NEW y \in Fractions,
         Behind(m, n, x), BehindAll(m, n, k, y)
  PROVE  BehindAll(m, n, k + 1, Plus(x, y))
<1>1. PICK a \in Int, b \in Nat, c \in Int, d \in Nat : a = x[1] /\ b = x[2] /\ c = y[1] /\ d = y[2]
  BY DEF Fractions
<1>2. PICK z : z = Plus(x, y) /\ z[1] = a * d + c * b /\ z[2] = b * d
  BY <1>1, SumOfFractions
<1>3. /\ 100 * (m * b - a * n) <= -20 * (n * b)
      /\ 100 * (k * (m * d) - c * n) <= -20 * (k * (n * d))
  BY <1>1 DEF Behind, BehindAll
<1>4. 100 * ((k + 1) * (m * (b * d)) - (a * d + c * b) * n) <= -20 * ((k + 1) * (n * (b * d)))
  BY <1>3, BehindOneMore
<1> QED BY <1>2, <1>4 DEF BehindAll

\* The rates y of the members of S are added up in g.
AddsRates(g, y, S) ==
  /\ g \in [SUBSET S -> Fractions] /\ y \in [S -> Fractions] /\ g[{}] = Nothing
  /\ \A s \in SUBSET S : s # {} => \E x \in s : g[s] = Plus(y[x], g[s \ {x}])

\* The company is behind every member of S.
AllBehind(m, n, y, S) == \A c \in S : Behind(m, n, y[c])

LEMMA NotEmptyByOne ==
  ASSUME NEW U, NEW k \in Nat, Cardinality(U) = k + 1
  PROVE  U # {}
BY FS_EmptySet

LEMMA TotalIsBehind ==
  ASSUME NEW S, IsFiniteSet(S), NEW g, NEW y, AddsRates(g, y, S),
         NEW m \in Int, NEW n \in Nat, AllBehind(m, n, y, S)
  PROVE  BehindAll(m, n, Cardinality(S), g[S])
<1>0. /\ g \in [SUBSET S -> Fractions] /\ y \in [S -> Fractions] /\ g[{}] = Nothing
      /\ \A s \in SUBSET S : s # {} => \E x \in s : g[s] = Plus(y[x], g[s \ {x}])
      /\ \A c \in S : Behind(m, n, y[c])
  BY DEF AddsRates, AllBehind
<1> DEFINE good == {k \in Nat : \A U \in SUBSET S : Cardinality(U) = k => BehindAll(m, n, k, g[U])}
<1>1. \A U \in SUBSET S : IsFiniteSet(U) /\ Cardinality(U) \in Nat
  BY FS_Subset, FS_CardinalityType
<1>2. 0 \in good
  <2>1. BehindAll(m, n, 0, Nothing)
    BY NothingIs DEF BehindAll
  <2>2. \A U \in SUBSET S : Cardinality(U) = 0 => U = {}
    BY <1>1, FS_EmptySet
  <2> QED BY <1>0, <2>1, <2>2
<1>3. ASSUME NEW k \in Nat, k \in good PROVE k + 1 \in good
  <2> SUFFICES ASSUME NEW U \in SUBSET S, Cardinality(U) = k + 1 PROVE BehindAll(m, n, k + 1, g[U])
    OBVIOUS
  <2>1. U # {}
    BY NotEmptyByOne
  <2>2. PICK x \in U : g[U] = Plus(y[x], g[U \ {x}])
    BY <1>0, <2>1
  <2>3. PICK w : w = U \ {x} /\ w \in SUBSET S
    OBVIOUS
  <2>4. Cardinality(w) = k
    <3>1. Cardinality(U \ {x}) = Cardinality(U) - 1
      BY <1>1, FS_RemoveElement
    <3> QED BY <2>3, <3>1
  <2>5. BehindAll(m, n, k, g[w])
    BY <1>3, <2>3, <2>4
  <2>6. y[x] \in Fractions /\ g[w] \in Fractions /\ Behind(m, n, y[x])
    BY <1>0, <2>3
  <2>7. BehindAll(m, n, k + 1, Plus(y[x], g[w]))
    BY <2>5, <2>6, BehindOne
  <2> QED BY <2>2, <2>3, <2>7
<1>4. Nat \subseteq good
  <2> HIDE DEF good
  <2> QED BY <1>2, <1>3, NatByStep
<1>5. Cardinality(S) \in Nat /\ S \in SUBSET S
  BY FS_CardinalityType
<1> QED BY <1>4, <1>5

\* The rate of the mentions of a competitor.
LEMMA RateOfRival ==
  ASSUME ReportIInv, NEW c \in setup.rivals
  PROVE  RivalMentions(c) \in Fractions
<1> DEFINE there == {i \in DOMAIN rivals[c] : rivals[c][i] # NoResult}
           named == {i \in there : rivals[c][i].mentioned}
<1>1. RivalMentions(c) = Rate(Cardinality(named), Cardinality(there))
  BY DEF RivalMentions, RivalRate
<1>2. IsFiniteSet(there) /\ IsFiniteSet(named)
  <2>1. PICK s \in Seq(RivalAnswers \cup {NoResult}) : s = rivals[c]
    BY DEF ReportIInv
  <2>2. PICK n \in Nat : DOMAIN rivals[c] = 1..n
    BY <2>1
  <2>3. there \subseteq 1..n /\ named \subseteq 1..n
    BY <2>2
  <2> HIDE DEF there, named
  <2>4. IsFiniteSet(1..n)
    <3>1. PICK one \in Int : one = 1
      OBVIOUS
    <3>2. IsFiniteSet(one..n)
      BY FS_Interval
    <3> QED BY <3>1, <3>2
  <2> QED BY <2>3, <2>4, FS_Subset
<1> HIDE DEF there, named
<1>3. Cardinality(there) \in Nat /\ Cardinality(named) \in Nat
  BY <1>2, FS_CardinalityType
<1> QED BY <1>1, <1>3 DEF Rate, Fractions

\* The sums of the rates are there, and each takes one out.
LEMMA RatesAreAdded ==
  ASSUME ReportIInv
  PROVE  \E g \in [SUBSET setup.rivals -> Fractions] :
           /\ TotalRate = g[setup.rivals] /\ g[{}] = Nothing
           /\ \A s \in SUBSET setup.rivals :
                s # {} => \E x \in s : g[s] = Plus(RivalMentions(x), g[s \ {x}])
<1>0. PICK S : S = setup.rivals
  OBVIOUS
<1> DEFINE pick == [s \in SUBSET S |-> CHOOSE x \in s : TRUE]
           step == [p \in S \X Fractions |-> Plus(RivalMentions(p[1]), p[2])]
<1>1. IsFiniteSet(S)
  BY <1>0, ObservationAssumption DEF ReportIInv
<1>2. Picks(pick, S)
  BY DEF Picks
<1>3. \A x \in S : \A v \in Fractions :
        step[<<x, v>>] = Plus(RivalMentions(x), v) /\ step[<<x, v>>] \in Fractions
  <2> TAKE x \in S
  <2> TAKE v \in Fractions
  <2>1. step[<<x, v>>] = Plus(RivalMentions(x), v)
    OBVIOUS
  <2>2. RivalMentions(x) \in Fractions
    BY <1>0, RateOfRival
  <2> HIDE DEF step
  <2> QED BY <2>1, <2>2, SumOfFractions
<1>4. PICK f \in [SUBSET S -> Fractions] : Folded(f, Nothing, pick, step, S)
  <2>1. StaysIn(step, S, Fractions)
    BY <1>3 DEF StaysIn
  <2>2. PICK base : base = Nothing /\ base \in Fractions
    BY NothingIs
  <2> HIDE DEF pick, step
  <2>3. \E f \in [SUBSET S -> Fractions] : Folded(f, base, pick, step, S)
    BY <1>1, <1>2, <2>1, <2>2, FoldExists
  <2> QED BY <2>2, <2>3
<1>5. \A s \in SUBSET S : s # {} => pick[s] \in s /\ f[s] = Plus(RivalMentions(pick[s]), f[s \ {pick[s]}])
  <2> TAKE s \in SUBSET S
  <2> HAVE s # {}
  <2>1. pick[s] \in s
    BY <1>2 DEF Picks
  <2>2. f[s \ {pick[s]}] \in Fractions /\ pick[s] \in S
    BY <2>1
  <2> HIDE DEF pick, step
  <2>3. f[s] = step[<<pick[s], f[s \ {pick[s]}]>>]
    BY <1>4 DEF Folded
  <2> QED BY <1>3, <2>1, <2>2, <2>3
<1>6. f[{}] = Nothing
  BY <1>4 DEF Folded
<1>7. RatesAddUp(f, S)
  <2>1. \A s \in SUBSET S : f[s] = IF s = {} THEN Nothing
                          ELSE LET x == CHOOSE x \in s : TRUE IN Plus(RivalMentions(x), f[s \ {x}])
    <3> TAKE s \in SUBSET S
    <3>1. CASE s = {}
      BY <1>6, <3>1
    <3>2. CASE s # {}
      BY <1>5, <3>2
    <3> QED BY <3>1, <3>2
  <2> QED BY <2>1 DEF RatesAddUp, Nothing
<1>8. PICK g : g = (CHOOSE h : RatesAddUp(h, S)) /\ RatesAddUp(g, S)
  BY <1>7
<1>9. g[{}] = Nothing /\ TotalRate = g[S] /\ DOMAIN g = SUBSET S /\ g = [s \in SUBSET S |-> g[s]]
  BY <1>0, <1>8 DEF RatesAddUp, TotalRate, Nothing
<1>10. \A s \in SUBSET S : s # {} => \E x \in s : g[s] = Plus(RivalMentions(x), g[s \ {x}])
  <2> TAKE s \in SUBSET S
  <2> HAVE s # {}
  <2>1. (CHOOSE x \in s : TRUE) \in s
    OBVIOUS
  <2>2. PICK x : x = (CHOOSE z \in s : TRUE)
    OBVIOUS
  <2>3. g[s] = Plus(RivalMentions(x), g[s \ {x}])
    BY <1>8, <2>2 DEF RatesAddUp
  <2> QED BY <2>1, <2>2, <2>3
<1>11. \A s \in SUBSET S : g[s] \in Fractions
  <2> DEFINE F == {k \in Nat : \A s \in SUBSET S : Cardinality(s) = k => g[s] \in Fractions}
  <2>1. \A s \in SUBSET S : IsFiniteSet(s) /\ Cardinality(s) \in Nat
    BY <1>1, FS_Subset, FS_CardinalityType
  <2>2. 0 \in F
    <3>1. \A s \in SUBSET S : Cardinality(s) = 0 => s = {}
      BY <2>1, FS_EmptySet
    <3>2. Nothing \in Fractions
      BY NothingIs
    <3> QED BY <1>9, <3>1, <3>2
  <2>3. ASSUME NEW k \in Nat, k \in F PROVE k + 1 \in F
    <3> SUFFICES ASSUME NEW s \in SUBSET S, Cardinality(s) = k + 1 PROVE g[s] \in Fractions
      OBVIOUS
    <3>1. s # {}
      <4>1. Cardinality({}) = 0
        BY FS_EmptySet
      <4> HIDE DEF F
      <4> QED BY <4>1
    <3>2. PICK x \in s : g[s] = Plus(RivalMentions(x), g[s \ {x}])
      BY <1>10, <3>1
    <3>3. PICK w : w = s \ {x} /\ w \in SUBSET S
      OBVIOUS
    <3>4. Cardinality(w) = k
      <4>1. Cardinality(s \ {x}) = Cardinality(s) - 1
        BY <2>1, FS_RemoveElement
      <4> QED BY <3>3, <4>1
    <3>5. g[w] \in Fractions
      BY <2>3, <3>3, <3>4
    <3>6. RivalMentions(x) \in Fractions
      BY <1>0, RateOfRival
    <3> QED BY <3>2, <3>3, <3>5, <3>6, SumOfFractions
  <2>4. Nat \subseteq F
    <3> HIDE DEF F
    <3> QED BY <2>2, <2>3, NatByStep
  <2> QED BY <2>1, <2>4
<1>12. g \in [SUBSET S -> Fractions]
  BY <1>9, <1>11
<1> QED BY <1>0, <1>9, <1>10, <1>12

\* The company's rate of mentions.
LEMMA MentionRateIs == ASSUME ReportIInv PROVE MentionRate(results) \in Fractions
<1> DEFINE named == {i \in DOMAIN results : results[i].got = "answered" /\ results[i].mentioned}
           there == {i \in DOMAIN results : results[i].got = "answered"}
<1>1. MentionRate(results) = Rate(Cardinality(named), Cardinality(there))
  BY DEF MentionRate, Count, Answers
<1>2. named \subseteq DOMAIN results /\ there \subseteq DOMAIN results
  OBVIOUS
<1> HIDE DEF named, there
<1>3. Cardinality(named) \in Nat /\ Cardinality(there) \in Nat
  BY <1>2, ResultsFinite, FS_Subset, FS_CardinalityType
<1> QED BY <1>1, <1>3 DEF Rate, Fractions

\* A company that is behind each of its competitors by more than a fifth is told of the
\* gap to their average, for any number of them.
LEMMA GapTold == ReportIInv => GapIsTold
<1> SUFFICES ASSUME ReportIInv, setup.rivals # {}, \A c \in setup.rivals : Studied(c)
             PROVE  "mention_gap" \in Position
  BY DEF GapIsTold
<1>1. PICK m \in Int, n \in Nat \ {0} : MentionRate(results) = <<m, n>>
  BY MentionRateIs DEF Fractions
<1>2. PICK S : S = setup.rivals /\ IsFiniteSet(S) /\ S # {}
  BY ObservationAssumption DEF ReportIInv
<1>3. PICK y : y = [c \in S |-> RivalMentions(c)] /\ y \in [S -> Fractions]
  <2>1. [c \in S |-> RivalMentions(c)] \in [S -> Fractions]
    BY <1>2, RateOfRival
  <2> QED BY <2>1
<1>4. \A c \in S : Behind(m, n, y[c])
  <2> TAKE c \in S
  <2>1. PICK a \in Int, b \in Nat : y[c] = <<a, b>> /\ RivalMentions(c) = <<a, b>>
    BY <1>3 DEF Fractions
  <2>2. ~AtLeast(Lead(<<m, n>>, <<a, b>>), -20)
    BY <1>1, <1>2, <2>1 DEF Studied
  <2>3. ~(100 * (m * b - a * n) >= -20 * (n * b))
    BY <2>2 DEF AtLeast, Lead
  <2> QED BY <2>1, <2>3 DEF Behind
<1>5. PICK g \in [SUBSET S -> Fractions] :
        /\ TotalRate = g[S] /\ g[{}] = Nothing
        /\ \A s \in SUBSET S : s # {} => \E x \in s : g[s] = Plus(RivalMentions(x), g[s \ {x}])
  BY <1>2, RatesAreAdded
<1>6. \A s \in SUBSET S : s # {} => \E x \in s : g[s] = Plus(y[x], g[s \ {x}])
  BY <1>3, <1>5
<1>7. BehindAll(m, n, Cardinality(S), TotalRate)
  <2>1. AddsRates(g, y, S)
    BY <1>3, <1>5, <1>6 DEF AddsRates
  <2>2. AllBehind(m, n, y, S)
    BY <1>4 DEF AllBehind
  <2>3. m \in Int /\ n \in Nat /\ IsFiniteSet(S)
    BY <1>1, <1>2
  <2>4. BehindAll(m, n, Cardinality(S), g[S])
    BY <2>1, <2>2, <2>3, TotalIsBehind
  <2> QED BY <1>5, <2>4
<1>8. PICK p \in Int, q \in Nat \ {0} : TotalRate = <<p, q>>
  BY <1>5 DEF Fractions
<1>9. PICK k \in Nat : k = Cardinality(S) /\ k # 0
  BY <1>2, FS_CardinalityType, FS_EmptySet
<1>10. MentionLead = <<m * (q * k) - p * n, n * (q * k)>>
  <2>1. Average(RivalMentions) = <<p, q * k>>
    BY <1>2, <1>8, <1>9, AverageOfRates
  <2> QED BY <1>1, <2>1 DEF MentionLead, Lead
<1>11. 100 * (m * (q * k) - p * n) < -15 * (n * (q * k))
  <2>1. 100 * (k * (m * q) - p * n) <= -20 * (k * (n * q))
    BY <1>7, <1>8, <1>9 DEF BehindAll
  <2>2. n * (q * k) > 0
    <3>1. q * k \in Nat /\ q * k >= k
      BY <1>9
    <3>2. PICK v \in Nat : v = q * k /\ v > 0
      BY <1>9, <3>1
    <3> QED BY <3>2
  <2>3. k * (m * q) = m * (q * k) /\ k * (n * q) = n * (q * k)
    OBVIOUS
  <2>4. PICK v \in Int : v = n * (q * k)
    OBVIOUS
  <2> QED BY <2>1, <2>2, <2>3, <2>4
<1>12. ~AtLeast(MentionLead, -15)
  BY <1>10, <1>11 DEF AtLeast
<1> QED BY <1>12 DEF Position, Named

\* What is derived from the same answers by the comparison, the benchmark, the runner and
\* the parser does not contradict itself, for any observation.
THEOREM ObservationsAgree == ReportSpec => []ObservationAgrees
<1>1. ReportSpec => []InsightsAgree
  BY InsightsNeverContradict
<1>2. ReportSpec => []HeadToHeadsAddUp
  BY TotalsAddUp, ReportInvariance, PTL
<1>3. ReportSpec => []PositionIsEarned
  BY PositionsAreEarned
<1>4. ReportSpec => []GapIsTold
  BY GapTold, ReportInvariance, PTL
<1>5. ReportSpec => []ReadingsNest
  BY ReadingsAlwaysNest
<1>6. InsightsAgree /\ HeadToHeadsAddUp /\ PositionIsEarned /\ GapIsTold /\ ReadingsNest => ObservationAgrees
  BY DEF ObservationAgrees
<1> QED BY <1>1, <1>2, <1>3, <1>4, <1>5, <1>6, PTL

-----------------------------------------------------------------------------
(* The numbers of the answers. *)

\* The members of A of the kinds E, and how many there are of each kind.
OfKinds(k, A, E) == {i \in A : k[i] \in E}
OfKind(k, A, d) == {i \in A : k[i] = d}
CountedByKind(w, k, A, D) == \A d \in D : w[d] = Cardinality(OfKind(k, A, d))

\* What is counted by kind adds up.
LEMMA KindsAddUp ==
  ASSUME NEW A, IsFiniteSet(A), NEW D, IsFiniteSet(D), NEW k, NEW w, CountedByKind(w, k, A, D)
  PROVE  SumOn(w, D) = Cardinality(OfKinds(k, A, D))
<1> DEFINE F == {E \in SUBSET D : SumOn(w, E) = Cardinality(OfKinds(k, A, E))}
<1>1. \A E : IsFiniteSet(OfKinds(k, A, E)) /\ Cardinality(OfKinds(k, A, E)) \in Nat
  <2> TAKE E
  <2>1. OfKinds(k, A, E) \subseteq A
    BY DEF OfKinds
  <2> QED BY <2>1, FS_Subset, FS_CardinalityType
<1>2. \A d \in D : IsFiniteSet(OfKind(k, A, d)) /\ w[d] = Cardinality(OfKind(k, A, d)) /\ w[d] \in Nat
  <2> TAKE d \in D
  <2>1. OfKind(k, A, d) \subseteq A
    BY DEF OfKind
  <2>2. w[d] = Cardinality(OfKind(k, A, d))
    BY DEF CountedByKind
  <2> QED BY <2>1, <2>2, FS_Subset, FS_CardinalityType
<1>3. Numbers(w, D)
  BY <1>2, SumNat
<1>4. {} \in F
  <2>1. OfKinds(k, A, {}) = {}
    BY DEF OfKinds
  <2> QED BY <2>1, SumNone, FS_EmptySet
<1>5. ASSUME NEW E \in SUBSET D, NEW d \in D, E \in F, d \notin E
      PROVE  E \cup {d} \in F
  <2>1. /\ OfKinds(k, A, E \cup {d}) = OfKinds(k, A, E) \cup OfKind(k, A, d)
        /\ OfKinds(k, A, E) \cap OfKind(k, A, d) = {}
    BY <1>5 DEF OfKinds, OfKind
  <2>2. PICK V, W : V = OfKinds(k, A, E) /\ W = OfKind(k, A, d)
    OBVIOUS
  <2>3. Cardinality(V \cup W) = Cardinality(V) + Cardinality(W) - 0
    BY <1>1, <1>2, <2>1, <2>2, FS_Union, FS_EmptySet
  <2>4. SumOn(w, E \cup {d}) = w[d] + SumOn(w, E)
    <3> HIDE DEF F
    <3> QED BY <1>3, <1>5, SumAdd
  <2>5. SumOn(w, E) = Cardinality(V)
    BY <1>5, <2>2
  <2>6. PICK x \in Nat, y \in Nat : x = Cardinality(V) /\ y = Cardinality(W)
    BY <1>1, <1>2, <2>2
  <2>7. SumOn(w, E \cup {d}) = Cardinality(OfKinds(k, A, E \cup {d}))
    <3>1. w[d] = y
      BY <1>2, <2>2, <2>6
    <3>2. SumOn(w, E \cup {d}) = y + x
      BY <2>4, <2>5, <2>6, <3>1
    <3>3. Cardinality(V \cup W) = x + y - 0
      BY <2>3, <2>6
    <3>4. OfKinds(k, A, E \cup {d}) = V \cup W
      BY <2>1, <2>2
    <3>5. SumOn(w, E \cup {d}) = Cardinality(V \cup W)
      <4> HIDE DEF F
      <4> QED BY <3>2, <3>3
    <3> QED BY <3>4, <3>5, Zenon
  <2> QED BY <1>5, <2>7
<1>6. SUBSET D \subseteq F
  <2> HIDE DEF F
  <2> QED BY <1>4, <1>5, SetByStep
<1> QED BY <1>6

LEMMA TotalIsSum == ASSUME NEW f PROVE MapThenSumSet(LAMBDA x : f[x], DOMAIN f) = SumOn(f, DOMAIN f)
BY Zenon DEF SumOn, AddsUp, MapThenSumSet, MapThenFoldSet

\* The histogram has every answer shown, and its deep part each of these.
LEMMA HistogramAddsUp ==
  ASSUME ReportIInv, NEW E, E \subseteq DOMAIN Histogram, NEW w, w = [d \in E |-> Histogram[d]]
  PROVE  SumOn(w, E) = Cardinality({i \in Shown : DepthOf(i) \in E})
<1> DEFINE D == {DepthOf(i) : i \in Shown}
<1>1. PICK k : k = [i \in Shown |-> DepthOf(i)]
  OBVIOUS
<1>2. IsFiniteSet(Shown) /\ DOMAIN Histogram = D
  BY ShownFinite DEF Histogram
<1>3. IsFiniteSet(D)
  <2>1. DOMAIN k = Shown /\ D = {k[i] : i \in Shown}
    BY <1>1
  <2> HIDE DEF D
  <2> QED BY <1>2, <2>1, ImageIsFinite
<1>4. \A d \in D : Histogram[d] = Cardinality(OfKind(k, Shown, d))
  <2> TAKE d \in D
  <2>1. Histogram[d] = Cardinality({i \in Shown : DepthOf(i) = d})
    BY DEF Histogram
  <2>2. OfKind(k, Shown, d) = {i \in Shown : DepthOf(i) = d}
    BY <1>1 DEF OfKind
  <2> QED BY <2>1, <2>2
<1> HIDE DEF D
<1>5. IsFiniteSet(E)
  BY <1>2, <1>3, FS_Subset
<1>6. CountedByKind(w, k, Shown, E)
  BY <1>2, <1>4 DEF CountedByKind
<1>7. OfKinds(k, Shown, E) = {i \in Shown : DepthOf(i) \in E}
  BY <1>1 DEF OfKinds
<1>8. SumOn(w, E) = Cardinality(OfKinds(k, Shown, E))
  BY <1>2, <1>5, <1>6, KindsAddUp
<1> QED BY <1>7, <1>8

\* The framings have every answer.
LEMMA FramingsAddUp ==
  ASSUME ReportIInv
  PROVE  SumOn(FramingDistribution, DOMAIN FramingDistribution) = Cardinality(Completed)
<1> DEFINE D == {SourceFraming(results[i].text) : i \in Completed}
<1>1. PICK k : k = [i \in Completed |-> SourceFraming(results[i].text)]
  OBVIOUS
<1>2. IsFiniteSet(Completed) /\ DOMAIN FramingDistribution = D
  BY ResultsFinite DEF FramingDistribution
<1>3. IsFiniteSet(D)
  <2>1. DOMAIN k = Completed /\ D = {k[i] : i \in Completed}
    BY <1>1
  <2> HIDE DEF D
  <2> QED BY <1>2, <2>1, ImageIsFinite
<1>4. \A d \in D : FramingDistribution[d] = Cardinality(OfKind(k, Completed, d))
  <2> TAKE d \in D
  <2>1. FramingDistribution[d] = Cardinality({i \in Completed : SourceFraming(results[i].text) = d})
    BY DEF FramingDistribution
  <2>2. OfKind(k, Completed, d) = {i \in Completed : SourceFraming(results[i].text) = d}
    BY <1>1 DEF OfKind
  <2> QED BY <2>1, <2>2
<1>5. OfKinds(k, Completed, D) = Completed
  BY <1>1 DEF OfKinds
<1> HIDE DEF D
<1>6. CountedByKind(FramingDistribution, k, Completed, D)
  BY <1>4 DEF CountedByKind
<1>7. SumOn(FramingDistribution, D) = Cardinality(OfKinds(k, Completed, D))
  BY <1>2, <1>3, <1>6, KindsAddUp
<1> QED BY <1>2, <1>5, <1>7

\* The numbers of the answers add up: each answer shown is in the histogram once, each of
\* those completed has one framing, and a link makes an answer a deep one, if the
\* classifier was called; else there are none.
THEOREM AnswersAddUp == ReportSpec => []NumbersAddUp
<1>1. ReportIInv => NumbersAddUp
  <2> SUFFICES ASSUME ReportIInv
               PROVE  NumbersAddUp
    OBVIOUS
  <2> DEFINE deep == {d \in DOMAIN Histogram : d >= 3}
             w == [d \in deep |-> Histogram[d]]
             DeepOnes == {i \in Shown : DepthOf(i) \in deep}
             cited == {i \in Shown : results[i].cited}
  <2>1. SumOn(Histogram, DOMAIN Histogram) = Cardinality(Shown)
    <3>1. Histogram = [d \in DOMAIN Histogram |-> Histogram[d]]
      BY DEF Histogram
    <3>2. Shown = {i \in Shown : DepthOf(i) \in DOMAIN Histogram}
      BY DEF Histogram
    <3>3. PICK h, D : h = Histogram /\ D = DOMAIN Histogram
      OBVIOUS
    <3>4. D \subseteq DOMAIN Histogram /\ h = [d \in D |-> Histogram[d]]
      BY <3>1, <3>3
    <3>5. SumOn(h, D) = Cardinality({i \in Shown : DepthOf(i) \in D})
      BY <3>4, HistogramAddsUp
    <3> QED BY <3>2, <3>3, <3>5
  <2>2. SumOn(FramingDistribution, DOMAIN FramingDistribution) <= Cardinality(Shown)
    <3>1. Cardinality(Completed) <= Cardinality(Shown)
      BY ShownFinite, FS_Subset
    <3> QED BY <3>1, FramingsAddUp
  <2>3. SumOn(w, deep) = Cardinality(DeepOnes)
    BY HistogramAddsUp
  <2>4. Rated => cited \subseteq DeepOnes
    <3> SUFFICES ASSUME Rated PROVE cited \subseteq DeepOnes
      OBVIOUS
    <3> SUFFICES ASSUME NEW i \in Shown, results[i].cited
                 PROVE  DepthOf(i) \in DOMAIN Histogram /\ DepthOf(i) >= 3
      OBVIOUS
    <3>1. i \in Completed
      BY DEF ReportIInv, Answered, Shown, Completed
    <3> QED BY <3>1, ShownDepth DEF Histogram
  <2>5. IsFiniteSet(DeepOnes)
    <3>1. DeepOnes \subseteq Shown
      OBVIOUS
    <3> HIDE DEF DeepOnes
    <3> QED BY <3>1, ShownFinite, FS_Subset
  <2>6. Rated => Cardinality(cited) <= SumOn(w, deep)
    <3> SUFFICES ASSUME Rated PROVE Cardinality(cited) <= SumOn(w, deep)
      OBVIOUS
    <3> HIDE DEF DeepOnes, cited, w, deep
    <3>1. Cardinality(cited) <= Cardinality(DeepOnes)
      BY <2>4, <2>5, FS_Subset
    <3> QED BY <2>3, <3>1
  <2>7. DOMAIN w = deep
    OBVIOUS
  <2>8. ObservationSection.total = Cardinality(Shown) /\ ObservationSection.cited = Cardinality(cited)
    BY DEF ObservationSection
  <2>9. /\ MapThenSumSet(LAMBDA x : w[x], DOMAIN w) = SumOn(w, DOMAIN w)
        /\ MapThenSumSet(LAMBDA x : Histogram[x], DOMAIN Histogram) = SumOn(Histogram, DOMAIN Histogram)
        /\ MapThenSumSet(LAMBDA x : FramingDistribution[x], DOMAIN FramingDistribution)
             = SumOn(FramingDistribution, DOMAIN FramingDistribution)
    BY TotalIsSum
  <2>10. ~Rated => DOMAIN Histogram \subseteq {0}
    BY ShownDepth DEF Histogram
  <2> QED BY <2>1, <2>2, <2>6, <2>7, <2>8, <2>9, <2>10 DEF NumbersAddUp
<1> QED BY <1>1, ReportInvariance, PTL

-----------------------------------------------------------------------------
(* The headline. *)

LEMMA ScoreWeightIs == ASSUME NEW w, NEW S PROVE Score!Weight(w, S) = SumOn(w, S)
BY Zenon DEF SumOn, AddsUp, Score!Weight, Score!MapThenSumSet, Score!MapThenFoldSet

LEMMA DefaultsAre == \A p \in Score!Pillars : Score!DefaultWeights[p] \in Nat /\ Score!DefaultWeights[p] >= 1
BY DEF Score!DefaultWeights, Score!Pillars

\* The total is a number between two of the scores it is made of.
LEMMA TotalLies ==
  ASSUME ReportIInv, Checked
  PROVE  /\ Score!Total(Score!DefaultWeights, raw) \in Nat
         /\ \E p \in Evaluated : raw[p] <= Score!Total(Score!DefaultWeights, raw)
         /\ \E p \in Evaluated : raw[p] >= Score!Total(Score!DefaultWeights, raw)
<1>1. PICK S : S = Evaluated /\ S # {} /\ IsFiniteSet(S) /\ S \subseteq Score!Pillars
  BY PillarsOrdered DEF Checked, ReportIInv, Evaluated
<1>2. PICK t : t = Score!DefaultWeights
  OBVIOUS
<1>3. PICK v : v = [p \in S |-> t[p] * raw[p]]
  OBVIOUS
<1>4. \A p \in S : t[p] \in Nat /\ t[p] >= 1
  BY <1>1, <1>2, DefaultsAre
<1>5. \A p \in S : raw[p] \in Nat
  BY <1>1, PillarsOrdered
<1>6. \A p \in S : v[p] \in Nat /\ v[p] = t[p] * raw[p]
  <2> TAKE p \in S
  <2>1. PICK a \in Nat, b \in Nat : a = t[p] /\ b = raw[p]
    BY <1>4, <1>5
  <2>2. v[p] = a * b
    BY <1>3, <2>1
  <2>3. a * b \in Nat
    BY SMT
  <2> QED BY <2>1, <2>2, <2>3
<1>7. Score!Total(t, raw) = SumOn(v, S) \div SumOn(t, S)
  <2>1. Score!InForce(t) = t
    BY <1>2, Zenon DEF Score!InForce
  <2>2. DOMAIN raw = S /\ S \cap Score!Checks # {}
    BY <1>1 DEF Checked, Evaluated
  <2>3. Score!Total(t, raw) = Score!Weight(v, S) \div Score!Weight(t, S)
    BY <1>3, <2>1, <2>2, Zenon DEF Score!Total, Score!Evaluated
  <2> QED BY <2>3, ScoreWeightIs
<1>8. PICK m : m = SumOn(v, S) \div SumOn(t, S)
  OBVIOUS
<1>9. (\E p \in S : raw[p] <= m) /\ \E p \in S : raw[p] >= m
  BY <1>1, <1>4, <1>5, <1>6, <1>8, MeanLies
<1>10. m \in Nat
  <2>1. SumOn(v, S) \in Nat /\ SumOn(t, S) \in Nat /\ SumOn(t, S) > 0
    BY <1>1, <1>4, <1>6, SumPositive, SumNat
  <2>2. PICK a \in Nat, b \in Nat : a = SumOn(v, S) /\ b = SumOn(t, S) /\ b > 0
    BY <2>1
  <2>3. 0 * b <= a
    BY <2>2
  <2>4. PICK k \in Nat : k = 0
    OBVIOUS
  <2>5. a \div b \in Nat
    BY <2>2, <2>3, <2>4, QuotientAtLeast
  <2> QED BY <1>8, <2>2, <2>5
<1> QED BY <1>1, <1>2, <1>7, <1>8, <1>9, <1>10

\* The highest and the lowest milestone.
Highest(n) == n >= 85000
Lowest(n) == n >= 40000

LEMMA ScoreCounts == ASSUME NEW S PROVE Score!Cardinality(S) = Cardinality(S)
BY Zenon DEF Score!Cardinality, Cardinality

\* The highest level has all milestones, and the lowest none.
LEMMA LevelsAtTheEnds ==
  ASSUME NEW n \in Nat
  PROVE  /\ Score!Level(n) = "optimized" => Highest(n)
         /\ Score!Level(n) = "not_yet_findable" => ~Lowest(n)
<1>1. PICK M : M = {m \in Score!Milestones : n >= 1000 * m}
  OBVIOUS
<1>2. Score!Level(n) = Score!Levels[1 + Cardinality(M)]
  <2>1. Score!Level(n) = Score!Levels[1 + Score!Cardinality(M)]
    BY <1>1 DEF Score!Level
  <2> QED BY <2>1, ScoreCounts
<1>3. \A a, b, c : IsFiniteSet({a, b, c}) /\ Cardinality({a, b, c}) <= 3
  <2> TAKE a, b, c
  <2>1. IsFiniteSet({a}) /\ Cardinality({a}) = 1
    BY FS_Singleton
  <2>2. PICK B : B = {a} \cup {b}
    OBVIOUS
  <2>3. IsFiniteSet(B) /\ Cardinality(B) <= 2 /\ Cardinality(B) \in Nat
    <3>1. PICK A : A = {a} /\ IsFiniteSet(A) /\ Cardinality(A) = 1
      BY <2>1
    <3>2. B = A \cup {b}
      BY <2>2, <3>1
    <3>3. IsFiniteSet(B) /\ Cardinality(B) = IF b \in A THEN Cardinality(A) ELSE Cardinality(A) + 1
      BY <3>1, <3>2, FS_AddElement
    <3> QED BY <3>1, <3>3
  <2>4. IsFiniteSet(B \cup {c}) /\ Cardinality(B \cup {c}) <= 3
    BY <2>3, FS_AddElement
  <2>5. B \cup {c} = {a, b, c}
    BY <2>2
  <2> QED BY <2>4, <2>5
<1>4. ASSUME ~Highest(n) PROVE Score!Level(n) # "optimized"
  <2>1. M \subseteq {40, 55, 70}
    BY <1>1, <1>4, SMT DEF Score!Milestones, Highest
  <2>2. Cardinality(M) \in Nat /\ Cardinality(M) <= 3
    <3>1. PICK N : N = {40, 55, 70} /\ IsFiniteSet(N) /\ Cardinality(N) <= 3
      BY <1>3
    <3>2. Cardinality(N) \in Nat /\ Cardinality(M) \in Nat /\ Cardinality(M) <= Cardinality(N)
      BY <2>1, <3>1, FS_Subset, FS_CardinalityType
    <3> QED BY <3>1, <3>2
  <2>3. PICK k \in 1..4 : k = 1 + Cardinality(M)
    BY <2>2, SMT
  <2> QED BY <1>2, <2>3, SMT DEF Score!Levels
<1>5. ASSUME Lowest(n) PROVE Score!Level(n) # "not_yet_findable"
  <2>1. 40 \in M /\ M \subseteq {40, 55, 70} \cup {85}
    BY <1>1, <1>5, SMT DEF Score!Milestones, Lowest
  <2>2. Cardinality(M) \in Nat /\ Cardinality(M) >= 1 /\ Cardinality(M) <= 4
    <3>1. PICK N : N = {40, 55, 70} /\ IsFiniteSet(N) /\ Cardinality(N) <= 3
      BY <1>3
    <3>2. PICK Z, top : Z = N \cup {top} /\ top = 85
      OBVIOUS
    <3>3. /\ IsFiniteSet(Z) /\ Cardinality(N) \in Nat
          /\ Cardinality(Z) = IF top \in N THEN Cardinality(N) ELSE Cardinality(N) + 1
      <4>1. IsFiniteSet(N)
        BY <3>1
      <4> QED BY <4>1, <3>2, Zenon, FS_AddElement, FS_CardinalityType
    <3>4. M \subseteq Z /\ IsFiniteSet(Z) /\ Cardinality(Z) <= 4
      BY <2>1, <3>1, <3>2, <3>3
    <3>5. IsFiniteSet(M) /\ Cardinality(M) <= Cardinality(Z)
      BY <3>4, FS_Subset
    <3>6. Cardinality(M) \in Nat /\ Cardinality(Z) \in Nat
      BY <3>4, <3>5, FS_CardinalityType
    <3>7. Cardinality(M) # 0
      BY <2>1, <3>5, FS_EmptySet
    <3> QED BY <3>4, <3>5, <3>6, <3>7
  <2>3. PICK k \in 2..5 : k = 1 + Cardinality(M)
    BY <2>2, SMT
  <2> QED BY <1>2, <2>3, SMT DEF Score!Levels
<1> QED BY <1>4, <1>5

\* Of the pillars, one of the weakest is as weak as any other.
LEMMA WeakestIsAsWeak ==
  ASSUME ReportIInv, NEW p \in Evaluated
  PROVE  \E q \in Weakest : raw[q] <= raw[p]
<1> DEFINE U == {raw[q] : q \in Evaluated}
<1>1. PICK lo \in Evaluated : \A q \in Evaluated : raw[lo] <= raw[q]
  <2>1. U \in SUBSET Nat /\ U # {}
    BY PillarsOrdered
  <2>2. PICK n \in U : \A m \in U : n <= m
    BY <2>1, LeastNat
  <2> QED BY <2>2
<1> DEFINE E == {q \in Evaluated : raw[q] = raw[lo]}
           O == {PillarOrder[q] : q \in E}
<1>2. PICK first \in E : \A q \in E : PillarOrder[first] <= PillarOrder[q]
  <2>1. O \in SUBSET Nat /\ O # {}
    BY PillarsOrdered
  <2>2. PICK n \in O : \A m \in O : n <= m
    BY <2>1, LeastNat
  <2> QED BY <2>2
<1>3. {q \in Evaluated : Weaker(q, first)} = {}
  <2> SUFFICES ASSUME NEW q \in Evaluated, Weaker(q, first) PROVE FALSE
    OBVIOUS
  <2>1. PICK a \in Nat, b \in Nat, m \in Nat, n \in Nat :
          a = raw[q] /\ b = raw[first] /\ m = PillarOrder[q] /\ n = PillarOrder[first]
    BY PillarsOrdered
  <2>2. b <= a
    BY <1>1, <1>2, <2>1
  <2>3. a = b => n <= m
    BY <1>2, <2>1
  <2> QED BY <2>1, <2>2, <2>3 DEF Weaker
<1>4. first \in Weakest
  <2>1. Cardinality({}) < 2
    BY FS_EmptySet
  <2> QED BY <1>2, <1>3, <2>1, WeakestHasFewBelow
<1> QED BY <1>1, <1>2, <1>4

\* The headline is not far from the pillars: it is called optimized only where a pillar is
\* full, and not yet findable only where one of the weakest is not.
THEOREM HeadlineFits == ReportSpec => []HeadlineAgrees
<1>1. ReportIInv => HeadlineAgrees
  <2> SUFFICES ASSUME ReportIInv, Checked
               PROVE  /\ Headline.level = "optimized" => ScoreSection.good # {}
                      /\ Headline.level = "not_yet_findable" => \E p \in Weakest : Section(p).level # "full"
    BY DEF HeadlineAgrees, Sections
  <2>1. PICK total \in Nat : /\ total = Score!Total(Score!DefaultWeights, raw)
                             /\ \E p \in Evaluated : raw[p] <= total
                             /\ \E p \in Evaluated : raw[p] >= total
    BY TotalLies
  <2>2. Headline.level = Score!Level(total)
    BY <2>1 DEF Headline, ScoreSection
  <2>3. ScoreSection.good = {p \in Evaluated : Section(p).level = "full"}
    BY DEF ScoreSection
  <2>4. \A p \in Evaluated : /\ Highest(raw[p]) => Section(p).level = "full"
                             /\ ~Lowest(raw[p]) => Section(p).level # "full"
    <3> TAKE p \in Evaluated
    <3>1. PICK x \in Nat : x = raw[p]
      BY PillarsOrdered
    <3>2. Section(p).level = Score!PillarLevel(p, x)
      BY <3>1 DEF Section
    <3>3. Score!Full(p) \in {80, 50, 70}
      BY DEF Score!Full
    <3> QED BY <3>1, <3>2, <3>3, SMT DEF Score!PillarLevel, Highest, Lowest
  <2>5. ASSUME Headline.level = "optimized" PROVE ScoreSection.good # {}
    <3>1. Highest(total)
      BY <2>2, <2>5, LevelsAtTheEnds
    <3>2. PICK p \in Evaluated : raw[p] >= total
      BY <2>1
    <3>3. Highest(raw[p])
      <4>1. raw[p] \in Nat
        BY PillarsOrdered
      <4> QED BY <2>1, <3>1, <3>2, <4>1, SMT DEF Highest
    <3> QED BY <2>3, <2>4, <3>2, <3>3
  <2>6. ASSUME Headline.level = "not_yet_findable" PROVE \E p \in Weakest : Section(p).level # "full"
    <3>1. ~Lowest(total)
      BY <2>2, <2>6, LevelsAtTheEnds
    <3>2. PICK p \in Evaluated : raw[p] <= total
      BY <2>1
    <3>3. PICK q \in Weakest : raw[q] <= raw[p]
      BY WeakestIsAsWeak
    <3>4. q \in Evaluated
      BY WeakestHasFewBelow
    <3>5. ~Lowest(raw[q])
      <4>1. raw[p] \in Nat /\ raw[q] \in Nat
        BY <3>4, PillarsOrdered
      <4> QED BY <2>1, <3>1, <3>2, <3>3, <4>1, SMT DEF Lowest
    <3> QED BY <2>4, <3>3, <3>4, <3>5
  <2> QED BY <2>5, <2>6
<1> QED BY <1>1, ReportInvariance, PTL

=============================================================================
