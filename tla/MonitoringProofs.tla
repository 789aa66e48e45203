----------------------------- MODULE MonitoringProofs -----------------------------
(***************************************************************************)
(* The safety of what a worker does for the owner of a site: the chain of    *)
(* snapshot jobs (Monitoring) is never cut without a failure, for any number *)
(* of users, hours and periods; and the alerts about the snapshots           *)
(* (SnapshotAlerts) are told once and apart, for any number of jobs and      *)
(* tabs, any outcomes of the audits, any settings and any bounds.            *)
(***************************************************************************)
EXTENDS Monitoring, SnapshotAlerts, FiniteSetTheorems, SequenceTheorems, TLAPS

-----------------------------------------------------------------------------
(* The chain of jobs. *)

Pcs == {"idle"} \cup EnableSteps \cup DisableSteps \cup SnapshotSteps
SlotOrNone == Slots \cup {NoSlot}
ActType == [pc : Pcs, hour : Hours \cup {0}, slot : SlotOrNone, old : SlotOrNone,
            row : {"none", "live", "gone"}, wrote : BOOLEAN, wasOn : BOOLEAN,
            ticked : BOOLEAN]
RowType == [on : BOOLEAN, hour : Hours \cup {0}, next : SlotOrNone, job : SlotOrNone]

\* Where a slot must be a real one: in the row, and in the hands of an actor
\* that is about to store or to schedule it.
Held(a) ==
  /\ act[a].pc \in {"enRead", "enCommit", "enSchedule", "enJob"} => act[a].hour \in Hours
  /\ act[a].pc \in {"enCommit", "enSchedule", "enJob", "job"} => act[a].slot \in Slots
  /\ act[a].pc = "save" /\ act[a].row # "none" => act[a].slot \in Slots
Placed ==
  /\ sched.on => sched.hour \in Hours /\ sched.next \in Slots
  /\ \A a \in Actors : Held(a)

\* Every slot the calendar gives is within two periods.
LEMMA SlotFacts ==
  /\ NoSlot \in SlotOrNone /\ NoSlot \in Int
  /\ Slots \subseteq Int
  /\ \A hour \in Hours : phase \in 0..(Period - 1) => NextRun(hour) \in Slots
  /\ \A slot \in SlotOrNone : Nearer(slot) \in SlotOrNone
  /\ \A slot \in Slots : slot > 0 => Nearer(slot) \in Slots
BY MonitoringAssumption DEF Slots, SlotOrNone, NoSlot, Long, NextRun, Nearer

\* The type of what an actor holds is kept by each way an action changes it.
LEMMA IdleType == Idle \in ActType /\ NoSchedule \in RowType
BY SlotFacts DEF Idle, ActType, NoSchedule, RowType, Pcs

\* Every variable keeps its type in every step.
THEOREM ChainTyping == ChainSpec => [](ChainTypeOK /\ Placed)
<1>1. ChainInit => ChainTypeOK /\ Placed
  <2> SUFFICES ASSUME ChainInit PROVE ChainTypeOK /\ Placed
    OBVIOUS
  <2>1. act \in [Actors -> ActType] /\ sched \in RowType
    BY IdleType DEF ChainInit
  <2>2. phase \in 0..(Period - 1) /\ requests \in 0..MaxUserRequests /\ failures \in 0..MaxFaults
    BY MonitoringAssumption DEF ChainInit
  <2>3. Placed
    BY DEF ChainInit, Placed, Held, Idle, NoSchedule
  <2> QED
    BY <2>1, <2>2, <2>3 DEF ChainInit, ChainTypeOK, ActType, RowType, Pcs, SlotOrNone
<1>2. ChainTypeOK /\ Placed /\ [ChainNext]_chainVars => (ChainTypeOK /\ Placed)'
  <2> SUFFICES ASSUME ChainTypeOK, Placed, [ChainNext]_chainVars PROVE ChainTypeOK' /\ Placed'
    OBVIOUS
  <2>0. act \in [Actors -> ActType] /\ sched \in RowType
    BY DEF ChainTypeOK, ActType, RowType, Pcs, SlotOrNone
  <2>t. ASSUME act' \in [Actors -> ActType], sched' \in RowType,
               frequency' \in Frequencies, phase' \in 0..(Period - 1),
               enabled' \in BOOLEAN, timers' \subseteq Slots, queue' \in Nat,
               broken' \in BOOLEAN, requests' \in 0..MaxUserRequests,
               failures' \in 0..MaxFaults, Placed'
        PROVE  ChainTypeOK' /\ Placed'
    BY <2>t DEF ChainTypeOK, ActType, RowType, Pcs, SlotOrNone
  <2>f. Fault => broken' \in BOOLEAN /\ failures' \in 0..MaxFaults
    BY MonitoringAssumption DEF Fault, ChainTypeOK
  <2>n. NoFault => broken' \in BOOLEAN /\ failures' \in 0..MaxFaults
    BY DEF NoFault, ChainTypeOK
  <2>d. ASSUME NEW a \in Actors, Done(a) PROVE act' \in [Actors -> ActType]
    BY <2>0, <2>d, IdleType DEF Done
  <2>g. ASSUME NEW a \in Actors, NEW pc \in Pcs, GoTo(a, pc) PROVE act' \in [Actors -> ActType]
    BY <2>0, <2>g DEF GoTo, ActType
  <2>r. \A u : Request(u) => requests' \in 0..MaxUserRequests
    BY MonitoringAssumption DEF Request, ChainTypeOK
  <2>s. ASSUME NEW a \in Actors, StoreJob(a) PROVE sched' \in RowType
    BY <2>0, <2>s DEF StoreJob, RowType, ActType
  <2>w. RowNow \in {"none", "live", "gone"} BY DEF RowNow
  <2>1. ASSUME NEW u \in Users, NEW hour \in Hours, EnableCheck(u, hour) PROVE ChainTypeOK' /\ Placed'
    <3>1. act' \in [Actors -> ActType]
      BY <2>0, <2>1, SlotFacts DEF EnableCheck, Idle, ActType, Pcs, EnableSteps
    <3>p. Placed'
      BY <2>0, <2>1, SlotFacts
      DEF EnableCheck, Placed, Held, ActType, RowType, Actors, At, Idle, Request
    <3> QED BY <2>1, <2>0, <2>t, <2>r, <3>1, <3>p DEF EnableCheck, ChainTypeOK
  <2>2. ASSUME NEW u \in Users, EnableRead(u) PROVE ChainTypeOK' /\ Placed'
    <3>0. u \in Actors BY DEF Actors
    <3>2. NextRun(act[u].hour) \in SlotOrNone
      BY <2>2, <3>0, SlotFacts DEF EnableRead, At, Placed, Held, ChainTypeOK, SlotOrNone
    <3>4. enabled \in BOOLEAN BY DEF ChainTypeOK
    <3>1. act' \in [Actors -> ActType]
      <4>1. PICK slot \in SlotOrNone, row \in {"none", "live", "gone"}, wasOn \in BOOLEAN,
                 wrote \in BOOLEAN :
              act' = [act EXCEPT ![u] = [@ EXCEPT !.pc = "enCommit", !.slot = slot, !.row = row,
                                                  !.wasOn = wasOn, !.wrote = wrote]]
        BY <2>2, <2>w, <3>2, <3>4 DEF EnableRead
      <4> QED BY <2>0, <3>0, <4>1 DEF ActType, Pcs, EnableSteps
    <3>p. Placed'
      BY <2>0, <2>2, SlotFacts
      DEF EnableRead, Placed, Held, ActType, RowType, Actors, At, RowNow, ChainTypeOK
    <3> QED BY <2>2, <2>0, <2>t, <3>1, <3>p DEF EnableRead, ChainTypeOK
  <2>3. ASSUME NEW u \in Users, EnableCommit(u) PROVE ChainTypeOK' /\ Placed'
    <3>0. u \in Actors BY DEF Actors
    <3>1. act' \in [Actors -> ActType]
      BY <2>0, <2>3, <2>d, <3>0 DEF EnableCommit, ActType, Pcs, EnableSteps
    <3>2. sched' \in RowType
      <4>1. Row(act[u].hour, act[u].slot, sched.job) \in RowType
        BY <2>0, <3>0 DEF ActType, RowType, Row
      <4> QED BY <2>0, <2>3, <4>1 DEF EnableCommit
    <3>3. enabled' \in BOOLEAN
      BY <2>0, <2>3, <3>0 DEF EnableCommit, ActType, ChainTypeOK
    <3>p. Placed'
      BY <2>0, <2>3, SlotFacts
      DEF EnableCommit, Placed, Held, ActType, RowType, Actors, At, Done, Idle, Row
    <3> QED BY <2>3, <2>t, <3>1, <3>2, <3>3, <3>p DEF EnableCommit, ChainTypeOK
  <2>4. ASSUME NEW u \in Users, EnableSchedule(u) PROVE ChainTypeOK' /\ Placed'
    <3>0. u \in Actors BY DEF Actors
    <3>1. act' \in [Actors -> ActType]
      BY <2>0, <2>4, <2>d, <3>0 DEF EnableSchedule, ActType, RowType, Pcs, EnableSteps
    <3>2. timers' \subseteq Slots
      BY <2>0, <2>4, <3>0 DEF EnableSchedule, ChainTypeOK, Placed, Held, At
    <3>3. broken' \in BOOLEAN /\ failures' \in 0..MaxFaults
      BY <2>4, <2>f DEF EnableSchedule, ChainTypeOK
    <3>p. Placed'
      BY <2>0, <2>4, SlotFacts
      DEF EnableSchedule, Placed, Held, ActType, RowType, Actors, At, Done, Idle
    <3> QED BY <2>0, <2>4, <2>t, <3>1, <3>2, <3>3, <3>p DEF EnableSchedule, ChainTypeOK
  <2>5. ASSUME NEW u \in Users, EnableJob(u) PROVE ChainTypeOK' /\ Placed'
    <3>0. u \in Actors BY DEF Actors
    <3>p. Placed'
      BY <2>0, <2>5, SlotFacts
      DEF EnableJob, Placed, Held, ActType, RowType, Actors, At, Done, Idle, StoreJob
    <3> QED BY <2>5, <2>s, <2>d, <2>t, <3>0, <3>p DEF EnableJob, ChainTypeOK
  <2>6. ASSUME NEW u \in Users, DisableCheck(u) PROVE ChainTypeOK' /\ Placed'
    <3>1. act' \in [Actors -> ActType]
      BY <2>0, <2>6, SlotFacts DEF DisableCheck, Idle, ActType, Pcs, DisableSteps
    <3>p. Placed'
      BY <2>0, <2>6, SlotFacts
      DEF DisableCheck, Placed, Held, ActType, RowType, Actors, Idle
    <3> QED BY <2>6, <2>0, <2>t, <2>r, <3>1, <3>p DEF DisableCheck, ChainTypeOK
  <2>7. ASSUME NEW u \in Users, DisableRead(u) PROVE ChainTypeOK' /\ Placed'
    <3>0. u \in Actors BY DEF Actors
    <3>1. act' \in [Actors -> ActType]
      <4>1. sched.job \in SlotOrNone BY <2>0 DEF RowType
      <4>2. PICK pc \in {"disCommit", "disCancel"}, row \in {"none", "live", "gone"},
                 old \in SlotOrNone :
              act' = [act EXCEPT ![u] = [@ EXCEPT !.pc = pc, !.row = row, !.old = old]]
        BY <2>7, <2>w, <4>1 DEF DisableRead
      <4> QED BY <2>0, <3>0, <4>2 DEF ActType, Pcs, DisableSteps
    <3>p. Placed'
      BY <2>0, <2>7, SlotFacts DEF DisableRead, Placed, Held, ActType, RowType, Actors, At
    <3> QED BY <2>7, <2>0, <2>t, <3>1, <3>p DEF DisableRead, ChainTypeOK
  <2>8. ASSUME NEW u \in Users, DisableCancel(u) PROVE ChainTypeOK' /\ Placed'
    <3>0. u \in Actors /\ "disCommit" \in Pcs BY DEF Actors, Pcs, DisableSteps
    <3>1. timers' \subseteq Slots BY <2>8 DEF DisableCancel, ChainTypeOK
    <3>p. Placed'
      BY <2>0, <2>8, SlotFacts
      DEF DisableCancel, Placed, Held, ActType, RowType, Actors, At, GoTo
    <3> QED
      BY <2>8, <2>0, <2>f, <2>n, <2>g, <2>t, <3>0, <3>1, <3>p
      DEF DisableCancel, ChainTypeOK
  <2>9. ASSUME NEW u \in Users, DisableCommit(u) PROVE ChainTypeOK' /\ Placed'
    <3>0. u \in Actors BY DEF Actors
    <3>1. act' \in [Actors -> ActType]
      BY <2>0, <2>9, <2>d, <3>0, IdleType DEF DisableCommit, ActType
    <3>2. sched' \in RowType
      BY <2>0, <2>9, IdleType DEF DisableCommit
    <3>p. Placed'
      BY <2>0, <2>9, SlotFacts
      DEF DisableCommit, Placed, Held, ActType, RowType, Actors, Done, Idle, NoSchedule
    <3> QED BY <2>9, <2>t, <3>1, <3>2, <3>p DEF DisableCommit, ChainTypeOK
  <2>b. ASSUME NEW a \in Actors, Begin(a) PROVE act' \in [Actors -> ActType]
    BY <2>0, <2>b, SlotFacts, IdleType DEF Begin, Idle, ActType, Pcs, SnapshotSteps
  <2>10. ASSUME TakeJob PROVE ChainTypeOK' /\ Placed'
    <3>0. Worker \in Actors BY DEF Actors
    <3>1. queue' \in Nat BY <2>10 DEF TakeJob, ChainTypeOK
    <3>p. Placed'
      BY <2>0, <2>10, SlotFacts
      DEF TakeJob, Placed, Held, ActType, RowType, Actors, Begin, Idle
    <3> QED BY <2>10, <2>0, <2>b, <2>t, <3>0, <3>1, <3>p DEF TakeJob, ChainTypeOK
  <2>11. ASSUME NEW u \in Users, ManualSnapshot(u) PROVE ChainTypeOK' /\ Placed'
    <3>0. u \in Actors BY DEF Actors
    <3>p. Placed'
      BY <2>0, <2>11, SlotFacts
      DEF ManualSnapshot, Placed, Held, ActType, RowType, Actors, Begin, Idle
    <3> QED BY <2>11, <2>0, <2>b, <2>r, <2>t, <3>0, <3>p DEF ManualSnapshot, ChainTypeOK
  <2>12. ASSUME NEW a \in Actors, Audit(a) PROVE ChainTypeOK' /\ Placed'
    <3>0. {"saveRead", "fail"} \subseteq Pcs BY DEF Pcs, SnapshotSteps
    <3>1. act' \in [Actors -> ActType] BY <2>12, <2>g, <3>0 DEF Audit
    <3>p. Placed'
      BY <2>0, <2>12, SlotFacts DEF Audit, Placed, Held, ActType, RowType, Actors, GoTo, At
    <3> QED BY <2>12, <2>0, <2>f, <2>n, <2>t, <3>1, <3>p DEF Audit, ChainTypeOK
  <2>13. ASSUME NEW a \in Actors, SaveRead(a) PROVE ChainTypeOK' /\ Placed'
    <3>2. (IF sched.on THEN NextRun(sched.hour) ELSE NoSlot) \in SlotOrNone
      BY SlotFacts DEF ChainTypeOK, SlotOrNone, Placed
    <3>3. act' \in [Actors -> ActType]
      <4>1. PICK slot \in SlotOrNone, row \in {"none", "live", "gone"} :
              act' = [act EXCEPT ![a] = [@ EXCEPT !.pc = "save", !.row = row, !.slot = slot]]
        BY <2>13, <2>w, <3>2 DEF SaveRead
      <4> QED BY <2>0, <4>1 DEF ActType, Pcs, SnapshotSteps
    <3>p. Placed'
      BY <2>0, <2>13, SlotFacts
      DEF SaveRead, Placed, Held, ActType, RowType, Actors, RowNow, ChainTypeOK
    <3> QED BY <2>13, <2>0, <2>t, <3>3, <3>p DEF SaveRead, ChainTypeOK
  <2>14. ASSUME NEW a \in Actors, SaveSnapshot(a) PROVE ChainTypeOK' /\ Placed'
    <3>0. {"fail", "plan"} \subseteq Pcs BY DEF Pcs, SnapshotSteps
    <3>1. act' \in [Actors -> ActType] BY <2>14, <2>g, <3>0 DEF SaveSnapshot
    <3>2. sched' \in RowType BY <2>0, <2>14 DEF SaveSnapshot, ActType, RowType
    <3>p. Placed'
      BY <2>0, <2>14, SlotFacts DEF SaveSnapshot, Placed, Held, ActType, RowType, Actors, GoTo, At
    <3> QED BY <2>14, <2>t, <3>1, <3>2, <3>p DEF SaveSnapshot, ChainTypeOK
  <2>15. ASSUME NEW a \in Actors, Plan(a) PROVE ChainTypeOK' /\ Placed'
    <3>0. {"job", "fail"} \subseteq Pcs BY DEF Pcs, SnapshotSteps
    <3>1. act' \in [Actors -> ActType]
      BY <2>0, <2>15, <2>d, <2>g, <3>0 DEF Plan, ActType, RowType
    <3>2. timers' \subseteq Slots BY <2>0, <2>15 DEF Plan, ChainTypeOK, Placed
    <3>3. broken' \in BOOLEAN /\ failures' \in 0..MaxFaults
      BY <2>15, <2>f, <2>n DEF Plan
    <3>p. Placed'
      BY <2>0, <2>15, SlotFacts
      DEF Plan, Placed, Held, ActType, RowType, Actors, GoTo, At, Done, Idle
    <3> QED BY <2>15, <2>0, <2>t, <3>1, <3>2, <3>3, <3>p DEF Plan, ChainTypeOK
  <2>16. ASSUME NEW a \in Actors, PlanJob(a) PROVE ChainTypeOK' /\ Placed'
    <3>0. "fail" \in Pcs BY DEF Pcs, SnapshotSteps
    <3>1. act' \in [Actors -> ActType] BY <2>16, <2>d, <2>g, <3>0 DEF PlanJob
    <3>p. Placed'
      BY <2>0, <2>16
      DEF PlanJob, Placed, Held, ActType, RowType, GoTo, Done, Idle, StoreJob, At
    <3> QED BY <2>16, <2>s, <2>t, <3>1, <3>p DEF PlanJob, ChainTypeOK
  <2>17. ASSUME NEW a \in Actors, NoteFailure(a) PROVE ChainTypeOK' /\ Placed'
    <3>p. Placed'
      BY <2>0, <2>17 DEF NoteFailure, Placed, Held, ActType, Done, Idle
    <3> QED BY <2>17, <2>0, <2>d, <2>t, <3>p DEF NoteFailure, ChainTypeOK
  <2>18. ASSUME JobKilled PROVE ChainTypeOK' /\ Placed'
    <3>0. Worker \in Actors BY DEF Actors
    <3>p. Placed'
      BY <2>0, <2>18, <3>0 DEF JobKilled, Placed, Held, ActType, Done, Idle
    <3> QED BY <2>18, <2>0, <2>f, <2>d, <2>t, <3>0, <3>p DEF JobKilled, ChainTypeOK
  <2>19. ASSUME NEW slot \in Slots, Release(slot) PROVE ChainTypeOK' /\ Placed'
    <3>p. Placed' BY <2>19 DEF Release, Placed, Held
    <3>1. queue' \in Nat /\ timers' \subseteq Slots BY <2>19 DEF Release, ChainTypeOK
    <3> QED BY <2>19, <2>0, <2>t, <3>p, <3>1 DEF Release, ChainTypeOK
  <2>20. ASSUME TimePasses PROVE ChainTypeOK' /\ Placed'
    <3>1. act' \in [Actors -> ActType]
      BY <2>0, <2>20, SlotFacts, IdleType DEF TimePasses, ActType
    <3>2. sched' \in RowType
      BY <2>0, <2>20, SlotFacts DEF TimePasses, RowType
    <3>5. \A slot \in Slots : Nearer(slot) \in Slots
      BY MonitoringAssumption DEF Nearer, Slots, Long, NoSlot
    <3>3. timers' \subseteq Slots
      <4>1. timers \subseteq Slots BY DEF ChainTypeOK
      <4>2. timers' = {Nearer(slot) : slot \in timers} BY <2>20 DEF TimePasses
      <4> QED BY <3>5, <4>1, <4>2
    <3>4. phase' \in 0..(Period - 1)
      <4>1. phase \in 0..(Period - 1) BY DEF ChainTypeOK
      <4>2. phase' = IF phase = Period - 1 THEN 0 ELSE phase + 1 BY <2>20 DEF TimePasses
      <4> QED BY <4>1, <4>2, MonitoringAssumption
    <3>6. \A a \in Actors : Held(a)'
      BY <2>0, <2>20, <3>5 DEF TimePasses, Placed, Held, ActType, Idle
    <3>7. sched'.on => sched'.hour \in Hours /\ sched'.next \in Slots
      BY <2>0, <2>20, <3>5 DEF TimePasses, Placed, RowType
    <3>p. Placed' BY <3>6, <3>7 DEF Placed
    <3> QED BY <2>20, <2>t, <3>1, <3>2, <3>3, <3>4, <3>p DEF TimePasses, ChainTypeOK
  <2>21. ASSUME ChangePlan PROVE ChainTypeOK' /\ Placed'
    <3>p. Placed' BY <2>21 DEF ChangePlan, Placed, Held
    <3>1. frequency' \in Frequencies BY <2>21 DEF ChangePlan
    <3> QED BY <2>21, <2>0, <2>t, <3>p, <3>1 DEF ChangePlan, ChainTypeOK
  <2>22. ASSUME UNCHANGED chainVars PROVE ChainTypeOK' /\ Placed'
    <3>p. Placed' BY <2>22 DEF chainVars, Placed, Held
    <3> QED BY <2>22, <2>0, <2>t, <3>p DEF chainVars, ChainTypeOK
  <2> QED
    BY <2>1, <2>2, <2>3, <2>4, <2>5, <2>6, <2>7, <2>8, <2>9, <2>10, <2>11, <2>12, <2>13,
       <2>14, <2>15, <2>16, <2>17, <2>18, <2>19, <2>20, <2>21, <2>22
    DEF ChainNext, RequestStep, ChainStep
<1> QED BY <1>1, <1>2, PTL DEF ChainSpec

-----------------------------------------------------------------------------
\* An actor whose next steps keep the chain alive: it runs a snapshot whose
\* commit is not refused, or a request that will schedule, fail or disable.
Carries(a) ==
  \/ act[a].pc \in {"audit", "saveRead", "plan", "enSchedule", "disCommit"}
  \/ act[a].pc = "save" /\ act[a].row # "gone"

\* The strengthening of ChainAlive: an actor that is about to fail on a row that
\* is gone does not count.
Carried ==
  enabled /\ ~broken => timers # {} \/ queue > 0 \/ \E a \in Actors : Carries(a)

\* Who holds the row holds the row that is there.
LiveRows == \A a \in Actors : act[a].row = "live" => sched.on

\* An enabled site without a row is one whose enabling request is about to fail.
Failing(u) == act[u].pc = "enSchedule" /\ act[u].row = "gone"
RowExplained == enabled /\ ~broken /\ ~sched.on => \E u \in Users : Failing(u)

ChainInv == LiveRows /\ RowExplained /\ Carried

\* While monitoring is on and nothing has failed since it was scheduled, the
\* chain of snapshots is never cut, whatever requests and jobs overlap
\* (run_snapshot, enable_monitoring, disable_monitoring).
THEOREM ChainSafety == ChainSpec => []ChainAlive
<1>1. ChainInit => ChainInv
  BY DEF ChainInit, ChainInv, LiveRows, RowExplained, Carried, Idle
<1>2. ChainTypeOK /\ Placed /\ ChainInv /\ [ChainNext]_chainVars => ChainInv'
  <2> SUFFICES ASSUME ChainTypeOK, Placed, ChainInv, [ChainNext]_chainVars PROVE ChainInv'
    OBVIOUS
  <2>0. act \in [Actors -> ActType] /\ sched \in RowType /\ queue \in Nat
        /\ enabled \in BOOLEAN /\ broken \in BOOLEAN
    BY DEF ChainTypeOK, ActType, RowType, Pcs, SlotOrNone
  <2>1. ASSUME NEW u \in Users, NEW hour \in Hours, EnableCheck(u, hour) PROVE ChainInv'
    <3>0. u \in Actors BY DEF Actors
    <3>1. LiveRows'
      BY <2>0, <2>1, <3>0
      DEF EnableCheck, Request, At, Idle, LiveRows, ChainInv, ActType, RowType, Actors
    <3>2. RowExplained'
      BY <2>0, <2>1, <3>0
      DEF EnableCheck, Request, At, Idle, RowExplained, Failing, LiveRows, ChainInv,
          ActType, RowType, Actors
    <3>3. Carried'
      BY <2>0, <2>1, <3>0
      DEF EnableCheck, Request, At, Idle, Carried, Carries, RowExplained, Failing,
          LiveRows, ChainInv, ActType, RowType, Actors
    <3> QED BY <3>1, <3>2, <3>3 DEF ChainInv
  <2>2. ASSUME NEW u \in Users, EnableRead(u) PROVE ChainInv'
    <3>0. u \in Actors BY DEF Actors
    <3>1. LiveRows'
      BY <2>0, <2>2, <3>0
      DEF EnableRead, RowNow, At, LiveRows, ChainInv, ActType, RowType, Actors
    <3>2. RowExplained'
      BY <2>0, <2>2, <3>0
      DEF EnableRead, RowNow, At, RowExplained, Failing, LiveRows, ChainInv, ActType,
          RowType, Actors
    <3>3. Carried'
      BY <2>0, <2>2, <3>0
      DEF EnableRead, RowNow, At, Carried, Carries, RowExplained, Failing, LiveRows,
          ChainInv, ActType, RowType, Actors
    <3> QED BY <3>1, <3>2, <3>3 DEF ChainInv
  <2>3. ASSUME NEW u \in Users, EnableCommit(u) PROVE ChainInv'
    <3>0. u \in Actors BY DEF Actors
    <3>1. CASE CommitRefused(u)
      <4>1. act' = [act EXCEPT ![u] = Idle] /\ enabled' = enabled /\ sched' = sched
        BY <2>3, <3>1 DEF EnableCommit, Done
      <4> QED BY <2>0, <2>3, <3>0, <4>1
          DEF EnableCommit, Idle, At, ChainInv, LiveRows, RowExplained, Failing, Carried, Carries
    <3>2. CASE ~CommitRefused(u)
      <4>1. /\ sched' = IF act[u].row = "gone" THEN sched ELSE Row(act[u].hour, act[u].slot, sched.job)
            /\ act' = [act EXCEPT ![u].pc = "enSchedule", ![u].row = IF @ = "gone" THEN @ ELSE "live"]
            /\ enabled' = (enabled \/ ~act[u].wasOn) /\ broken' = broken
        BY <2>3, <3>2 DEF EnableCommit
      <4>2. act'[u].pc = "enSchedule" /\ (act[u].row = "gone" <=> act'[u].row = "gone")
        BY <2>0, <3>0, <4>1 DEF ActType
      <4>3. \A a \in Actors : a # u => act'[a] = act[a]
        BY <2>0, <3>0, <4>1
      <4>4. LiveRows'
        BY <2>0, <4>1, <4>2, <4>3 DEF ChainInv, LiveRows, Row, ActType
      <4>5. RowExplained'
        BY <4>1, <4>2 DEF RowExplained, Failing, Row
      <4>6. Carried'
        BY <3>0, <4>2 DEF Carried, Carries
      <4> QED BY <4>4, <4>5, <4>6 DEF ChainInv
    <3> QED BY <3>1, <3>2
  <2>4. ASSUME NEW u \in Users, EnableSchedule(u) PROVE ChainInv'
    <3>0. u \in Actors BY DEF Actors
    <3>1. LiveRows'
      BY <2>0, <2>4, <3>0
      DEF EnableSchedule, Fault, Done, Idle, At, LiveRows, ChainInv, ActType, RowType,
          Actors
    <3>2. RowExplained'
      BY <2>0, <2>4, <3>0
      DEF EnableSchedule, Fault, Done, Idle, At, RowExplained, Failing, LiveRows,
          ChainInv, ActType, RowType, Actors
    <3>3. Carried'
      BY <2>0, <2>4, <3>0
      DEF EnableSchedule, Fault, Done, Idle, At, Carried, Carries, RowExplained, Failing,
          LiveRows, ChainInv, ActType, RowType, Actors
    <3> QED BY <3>1, <3>2, <3>3 DEF ChainInv
  <2>5. ASSUME NEW u \in Users, EnableJob(u) PROVE ChainInv'
    <3>0. u \in Actors BY DEF Actors
    <3>1. LiveRows'
      BY <2>0, <2>5, <3>0
      DEF EnableJob, StoreJob, Done, Idle, At, LiveRows, ChainInv, ActType, RowType, Actors
    <3>2. RowExplained'
      BY <2>0, <2>5, <3>0
      DEF EnableJob, StoreJob, Done, Idle, At, RowExplained, Failing, LiveRows, ChainInv,
          ActType, RowType, Actors
    <3>3. Carried'
      BY <2>0, <2>5, <3>0
      DEF EnableJob, StoreJob, Done, Idle, At, Carried, Carries, RowExplained, Failing,
          LiveRows, ChainInv, ActType, RowType, Actors
    <3> QED BY <3>1, <3>2, <3>3 DEF ChainInv
  <2>6. ASSUME NEW u \in Users, DisableCheck(u) PROVE ChainInv'
    <3>0. u \in Actors BY DEF Actors
    <3>1. LiveRows'
      BY <2>0, <2>6, <3>0
      DEF DisableCheck, Request, At, Idle, LiveRows, ChainInv, ActType, RowType, Actors
    <3>2. RowExplained'
      BY <2>0, <2>6, <3>0
      DEF DisableCheck, Request, At, Idle, RowExplained, Failing, LiveRows, ChainInv,
          ActType, RowType, Actors
    <3>3. Carried'
      BY <2>0, <2>6, <3>0
      DEF DisableCheck, Request, At, Idle, Carried, Carries, RowExplained, Failing,
          LiveRows, ChainInv, ActType, RowType, Actors
    <3> QED BY <3>1, <3>2, <3>3 DEF ChainInv
  <2>7. ASSUME NEW u \in Users, DisableRead(u) PROVE ChainInv'
    <3>0. u \in Actors BY DEF Actors
    <3>1. LiveRows'
      BY <2>0, <2>7, <3>0
      DEF DisableRead, RowNow, At, LiveRows, ChainInv, ActType, RowType, Actors
    <3>2. RowExplained'
      BY <2>0, <2>7, <3>0
      DEF DisableRead, RowNow, At, RowExplained, Failing, LiveRows, ChainInv, ActType,
          RowType, Actors
    <3>3. Carried'
      BY <2>0, <2>7, <3>0
      DEF DisableRead, RowNow, At, Carried, Carries, RowExplained, Failing, LiveRows,
          ChainInv, ActType, RowType, Actors
    <3> QED BY <3>1, <3>2, <3>3 DEF ChainInv
  <2>8. ASSUME NEW u \in Users, DisableCancel(u) PROVE ChainInv'
    <3>0. u \in Actors BY DEF Actors
    <3>1. LiveRows'
      BY <2>0, <2>8, <3>0
      DEF DisableCancel, GoTo, Fault, NoFault, At, LiveRows, ChainInv, ActType, RowType,
          Actors
    <3>2. RowExplained'
      BY <2>0, <2>8, <3>0
      DEF DisableCancel, GoTo, Fault, NoFault, At, RowExplained, Failing, LiveRows,
          ChainInv, ActType, RowType, Actors
    <3>3. Carried'
      BY <2>0, <2>8, <3>0
      DEF DisableCancel, GoTo, Fault, NoFault, At, Carried, Carries, RowExplained,
          Failing, LiveRows, ChainInv, ActType, RowType, Actors
    <3> QED BY <3>1, <3>2, <3>3 DEF ChainInv
  <2>9. ASSUME NEW u \in Users, DisableCommit(u) PROVE ChainInv'
    <3>0. u \in Actors BY DEF Actors
    <3>1. LiveRows'
      BY <2>0, <2>9, <3>0
      DEF DisableCommit, Done, Idle, NoSchedule, At, LiveRows, ChainInv, ActType, RowType, Actors
    <3>2. RowExplained'
      BY <2>0, <2>9, <3>0
      DEF DisableCommit, Done, Idle, NoSchedule, At, RowExplained, Failing, LiveRows,
          ChainInv, ActType, RowType, Actors
    <3>3. Carried'
      BY <2>0, <2>9, <3>0
      DEF DisableCommit, Done, Idle, NoSchedule, At, Carried, Carries, RowExplained, Failing,
          LiveRows, ChainInv, ActType, RowType, Actors
    <3> QED BY <3>1, <3>2, <3>3 DEF ChainInv
  <2>10. ASSUME TakeJob PROVE ChainInv'
    <3>0. Worker \in Actors BY DEF Actors
    <3>1. LiveRows'
      BY <2>0, <2>10, <3>0, MonitoringAssumption
      DEF TakeJob, Begin, At, Idle, LiveRows, ChainInv, ActType, RowType, Actors
    <3>2. RowExplained'
      BY <2>0, <2>10, <3>0, MonitoringAssumption
      DEF TakeJob, Begin, At, Idle, RowExplained, Failing, LiveRows, ChainInv, ActType,
          RowType, Actors
    <3>3. Carried'
      BY <2>0, <2>10, <3>0, MonitoringAssumption
      DEF TakeJob, Begin, At, Idle, Carried, Carries, RowExplained, Failing, LiveRows,
          ChainInv, ActType, RowType, Actors
    <3> QED BY <3>1, <3>2, <3>3 DEF ChainInv
  <2>11. ASSUME NEW u \in Users, ManualSnapshot(u) PROVE ChainInv'
    <3>0. u \in Actors BY DEF Actors
    <3>1. LiveRows'
      BY <2>0, <2>11, <3>0
      DEF ManualSnapshot, Request, Begin, At, Idle, LiveRows, ChainInv, ActType, RowType,
          Actors
    <3>2. RowExplained'
      BY <2>0, <2>11, <3>0
      DEF ManualSnapshot, Request, Begin, At, Idle, RowExplained, Failing, LiveRows,
          ChainInv, ActType, RowType, Actors
    <3>3. Carried'
      BY <2>0, <2>11, <3>0
      DEF ManualSnapshot, Request, Begin, At, Idle, Carried, Carries, RowExplained,
          Failing, LiveRows, ChainInv, ActType, RowType, Actors
    <3> QED BY <3>1, <3>2, <3>3 DEF ChainInv
  <2>12. ASSUME NEW a \in Actors, Audit(a) PROVE ChainInv'
    <3>1. LiveRows'
      BY <2>0, <2>12, MonitoringAssumption
      DEF Audit, GoTo, Fault, NoFault, At, LiveRows, ChainInv, ActType, RowType, Actors
    <3>2. RowExplained'
      BY <2>0, <2>12, MonitoringAssumption
      DEF Audit, GoTo, Fault, NoFault, At, RowExplained, Failing, LiveRows, ChainInv,
          ActType, RowType, Actors
    <3>3. Carried'
      BY <2>0, <2>12, MonitoringAssumption
      DEF Audit, GoTo, Fault, NoFault, At, Carried, Carries, RowExplained, Failing,
          LiveRows, ChainInv, ActType, RowType, Actors
    <3> QED BY <3>1, <3>2, <3>3 DEF ChainInv
  <2>13. ASSUME NEW a \in Actors, SaveRead(a) PROVE ChainInv'
    <3>1. LiveRows'
      BY <2>0, <2>13, MonitoringAssumption
      DEF SaveRead, RowNow, At, LiveRows, ChainInv, ActType, RowType, Actors
    <3>2. RowExplained'
      BY <2>0, <2>13, MonitoringAssumption
      DEF SaveRead, RowNow, At, RowExplained, Failing, LiveRows, ChainInv, ActType,
          RowType, Actors
    <3>3. Carried'
      BY <2>0, <2>13, MonitoringAssumption
      DEF SaveRead, RowNow, At, Carried, Carries, RowExplained, Failing, LiveRows,
          ChainInv, ActType, RowType, Actors
    <3> QED BY <3>1, <3>2, <3>3 DEF ChainInv
  <2>14. ASSUME NEW a \in Actors, SaveSnapshot(a) PROVE ChainInv'
    <3>1. LiveRows'
      BY <2>0, <2>14, MonitoringAssumption
      DEF SaveSnapshot, GoTo, At, LiveRows, ChainInv, ActType, RowType, Actors
    <3>2. RowExplained'
      BY <2>0, <2>14, MonitoringAssumption
      DEF SaveSnapshot, GoTo, At, RowExplained, Failing, LiveRows, ChainInv, ActType, RowType,
          Actors
    <3>3. Carried'
      BY <2>0, <2>14, MonitoringAssumption
      DEF SaveSnapshot, GoTo, At, Carried, Carries, RowExplained, Failing, LiveRows, ChainInv,
          ActType, RowType, Actors
    <3> QED BY <3>1, <3>2, <3>3 DEF ChainInv
  <2>15. ASSUME NEW a \in Actors, Plan(a) PROVE ChainInv'
    <3>1. LiveRows'
      BY <2>0, <2>15, MonitoringAssumption
      DEF Plan, GoTo, Done, Idle, Fault, NoFault, At, LiveRows, ChainInv, ActType,
          RowType, Actors
    <3>2. RowExplained'
      BY <2>0, <2>15, MonitoringAssumption
      DEF Plan, GoTo, Done, Idle, Fault, NoFault, At, RowExplained, Failing, LiveRows,
          ChainInv, ActType, RowType, Actors
    <3>3. Carried'
      BY <2>0, <2>15, MonitoringAssumption
      DEF Plan, GoTo, Done, Idle, Fault, NoFault, At, Carried, Carries, RowExplained,
          Failing, LiveRows, ChainInv, ActType, RowType, Actors
    <3> QED BY <3>1, <3>2, <3>3 DEF ChainInv
  <2>16. ASSUME NEW a \in Actors, PlanJob(a) PROVE ChainInv'
    <3>1. LiveRows'
      BY <2>0, <2>16, MonitoringAssumption
      DEF PlanJob, StoreJob, GoTo, Done, Idle, At, LiveRows, ChainInv, ActType, RowType,
          Actors
    <3>2. RowExplained'
      BY <2>0, <2>16, MonitoringAssumption
      DEF PlanJob, StoreJob, GoTo, Done, Idle, At, RowExplained, Failing, LiveRows,
          ChainInv, ActType, RowType, Actors
    <3>3. Carried'
      BY <2>0, <2>16, MonitoringAssumption
      DEF PlanJob, StoreJob, GoTo, Done, Idle, At, Carried, Carries, RowExplained,
          Failing, LiveRows, ChainInv, ActType, RowType, Actors
    <3> QED BY <3>1, <3>2, <3>3 DEF ChainInv
  <2>17. ASSUME NEW a \in Actors, NoteFailure(a) PROVE ChainInv'
    <3>1. LiveRows'
      BY <2>0, <2>17, MonitoringAssumption
      DEF NoteFailure, Done, Idle, At, LiveRows, ChainInv, ActType, RowType, Actors
    <3>2. RowExplained'
      BY <2>0, <2>17, MonitoringAssumption
      DEF NoteFailure, Done, Idle, At, RowExplained, Failing, LiveRows, ChainInv, ActType,
          RowType, Actors
    <3>3. Carried'
      BY <2>0, <2>17, MonitoringAssumption
      DEF NoteFailure, Done, Idle, At, Carried, Carries, RowExplained, Failing, LiveRows,
          ChainInv, ActType, RowType, Actors
    <3> QED BY <3>1, <3>2, <3>3 DEF ChainInv
  <2>18. ASSUME JobKilled PROVE ChainInv'
    <3>0. Worker \in Actors BY DEF Actors
    <3>1. LiveRows'
      BY <2>0, <2>18, <3>0, MonitoringAssumption
      DEF JobKilled, Fault, Done, Idle, At, LiveRows, ChainInv, ActType, RowType, Actors
    <3>2. RowExplained'
      BY <2>0, <2>18, <3>0, MonitoringAssumption
      DEF JobKilled, Fault, Done, Idle, At, RowExplained, Failing, LiveRows, ChainInv,
          ActType, RowType, Actors
    <3>3. Carried'
      BY <2>0, <2>18, <3>0, MonitoringAssumption
      DEF JobKilled, Fault, Done, Idle, At, Carried, Carries, RowExplained, Failing,
          LiveRows, ChainInv, ActType, RowType, Actors
    <3> QED BY <3>1, <3>2, <3>3 DEF ChainInv
  <2>19. ASSUME NEW slot \in Slots, Release(slot) PROVE ChainInv'
    <3>1. LiveRows' BY <2>0, <2>19 DEF Release, LiveRows, ChainInv, ActType, RowType, Actors
    <3>2. RowExplained'
      BY <2>0, <2>19
      DEF Release, RowExplained, Failing, LiveRows, ChainInv, ActType, RowType, Actors
    <3>3. Carried'
      BY <2>0, <2>19
      DEF Release, Carried, Carries, RowExplained, Failing, LiveRows, ChainInv, ActType,
          RowType, Actors
    <3> QED BY <3>1, <3>2, <3>3 DEF ChainInv
  <2>20. ASSUME TimePasses PROVE ChainInv'
    <3>1. \A a \in Actors : act'[a].pc = act[a].pc /\ (act'[a].row = act[a].row \/ act[a].pc = "idle")
      BY <2>0, <2>20 DEF TimePasses, Idle, ActType
    <3>2. \A a \in Actors : act'[a].row = "live" => act[a].row = "live"
      BY <2>0, <2>20 DEF TimePasses, Idle, ActType
    <3>3. timers # {} => timers' # {}
      BY <2>20 DEF TimePasses
    <3>4. sched'.on = sched.on
      BY <2>0, <2>20 DEF TimePasses, RowType
    <3>5. LiveRows' BY <3>2, <3>4 DEF ChainInv, LiveRows
    <3>6. RowExplained'
      BY <2>20, <3>1, <3>4 DEF TimePasses, ChainInv, RowExplained, Failing, Actors
    <3>7. Carried'
      BY <2>20, <3>1, <3>3 DEF TimePasses, ChainInv, Carried, Carries
    <3> QED BY <3>5, <3>6, <3>7 DEF ChainInv
  <2>21. ASSUME ChangePlan PROVE ChainInv'
    <3>1. LiveRows'
      BY <2>0, <2>21
      DEF ChangePlan, LiveRows, ChainInv, ActType, RowType, Actors
    <3>2. RowExplained'
      BY <2>0, <2>21
      DEF ChangePlan, RowExplained, Failing, LiveRows, ChainInv, ActType, RowType, Actors
    <3>3. Carried'
      BY <2>0, <2>21
      DEF ChangePlan, Carried, Carries, RowExplained, Failing, LiveRows, ChainInv,
          ActType, RowType, Actors
    <3> QED BY <3>1, <3>2, <3>3 DEF ChainInv
  <2>22. ASSUME UNCHANGED chainVars PROVE ChainInv'
    <3>1. LiveRows' BY <2>0, <2>22 DEF chainVars, LiveRows, ChainInv, ActType, RowType, Actors
    <3>2. RowExplained'
      BY <2>0, <2>22
      DEF chainVars, RowExplained, Failing, LiveRows, ChainInv, ActType, RowType, Actors
    <3>3. Carried'
      BY <2>0, <2>22
      DEF chainVars, Carried, Carries, RowExplained, Failing, LiveRows, ChainInv, ActType,
          RowType, Actors
    <3> QED BY <3>1, <3>2, <3>3 DEF ChainInv
  <2> QED
    BY <2>1, <2>2, <2>3, <2>4, <2>5, <2>6, <2>7, <2>8, <2>9, <2>10, <2>11, <2>12, <2>13,
       <2>14, <2>15, <2>16, <2>17, <2>18, <2>19, <2>20, <2>21, <2>22
    DEF ChainNext, RequestStep, ChainStep
<1>3. ChainInv => ChainAlive
  BY DEF ChainInv, Carried, Carries, ChainAlive, Unplanned
<1> QED BY <1>1, <1>2, <1>3, ChainTyping, PTL DEF ChainSpec

-----------------------------------------------------------------------------
(* The alerts. *)

-----------------------------------------------------------------------------
(* The invariant. *)

Snapshots == Outcomes \cup {NoSnapshot}
TaskType ==
  [pc : {"idle", "audit", "check", "tell", "failed", "tellFailed"}, prev : Snapshots,
   new : Snapshots, row : Nat, due : SUBSET Kinds, index : Nat, fresh : BOOLEAN, era : Nat,
   overtaken : BOOLEAN]
AlertType ==
  [kind : Kinds, status : {"pending", "acknowledged", "dismissed"}, acknowledged : BOOLEAN,
   dismissed : BOOLEAN]
Usage == {"snapshots", "requests", "answers", "failures", "ids"}

\* Settings with what the checks compute with.
SettingsOK(s) ==
  /\ DOMAIN s = DOMAIN Default
  /\ s.critical \in 0..100
  /\ s.window \in 1..MaxWindow

Typing ==
  /\ DOMAIN rows \subseteq 1..used.ids
  /\ \A i \in DOMAIN rows : SettingsOK(rows[i]) /\ rows[i].age \in batch.age..MaxWindow
  /\ latest \in Snapshots
  /\ task \in [Tasks -> TaskType]
  /\ DOMAIN tab = Tabs
  /\ \A u \in Tabs :
       /\ tab[u].pc \in {"idle", "set", "delete"}
       /\ tab[u].pc = "set" => tab[u].patch \in Patches
  /\ alerts \in Seq(AlertType)
  /\ \A i \in DOMAIN alerts :
       /\ alerts[i].status = "acknowledged" => alerts[i].acknowledged
       /\ alerts[i].status = "dismissed" => alerts[i].dismissed
  /\ used \in [Usage -> Nat]
  /\ saved \in Seq(0..100)
  /\ era \in Nat
  /\ batch \in [age : 0..MaxWindow, era : 0..era]
  /\ falls \subseteq [index : 1..Len(saved), fresh : BOOLEAN, era : 0..era]

\* The score of the snapshot before the k-th one.
Before(k) == IF k = 1 THEN 0 - 1 ELSE saved[k - 1]

\* A job whose previous snapshot is fresh compares neighbours.
JobKnows(t) ==
  /\ task[t].era <= era
  /\ task[t].pc = "tell" => task[t].due # {}
  /\ task[t].pc = "audit" /\ task[t].fresh => task[t].prev.score = Before(Len(saved) + 1)
  /\ task[t].pc \in {"check", "tell"} =>
       /\ task[t].index \in 1..Len(saved)
       /\ saved[task[t].index] = task[t].new.score
       /\ task[t].fresh => task[t].prev.score = Before(task[t].index)

\* The k-th snapshot fell below the critical threshold that is set, from a snapshot
\* at or above it if that one is known.
Fell(k, known) ==
  /\ TheRow \in DOMAIN rows
  /\ saved[k] < rows[TheRow].critical
  /\ known /\ k # 1 => saved[k - 1] >= rows[TheRow].critical

\* While the configuration has not changed, a critical alert that is told or about to
\* be is of such a fall.
FallsSound ==
  /\ \A t \in Tasks :
       task[t].pc = "tell" /\ "critical" \in task[t].due /\ task[t].era = era =>
         Fell(task[t].index, task[t].fresh)
  /\ \A f \in falls : f.era = era => Fell(f.index, f.fresh)

\* While the configuration has not changed since the last batch, its row is the one
\* that was stamped, and a job that has passed the limit since stays beyond it.
WindowsSound ==
  /\ batch.era = era /\ OneRow => rows[TheRow].age = batch.age
  /\ \A t \in Tasks :
       task[t].pc = "tell" /\ ~task[t].overtaken /\ batch.era = era =>
         task[t].row \in DOMAIN rows /\ batch.age >= rows[task[t].row].window

IInv ==
  /\ Typing
  /\ latest.score = Before(Len(saved) + 1)
  /\ \A t \in Tasks : JobKnows(t)
  /\ FallsSound
  /\ WindowsSound

-----------------------------------------------------------------------------
(* Facts about the operators *)

\* Every score that a check compares is an integer, and only the score of no snapshot
\* is below 0.
LEMMA Scores ==
  ASSUME NEW o \in Snapshots
  PROVE  /\ o.score \in Int
         /\ o # NoSnapshot => o \in Outcomes /\ o.score \in 0..100
         /\ o = NoSnapshot => o.score = 0 - 1
BY AlertsAssumption DEF Snapshots, NoSnapshot

\* The row that is found is one, if there is any; and it is the only one, if there is one.
LEMMA RowFound ==
  ASSUME Typing
  PROVE  /\ DOMAIN rows # {} => TheRow \in DOMAIN rows
         /\ OneRow => DOMAIN rows = {TheRow}
<1>1. DOMAIN rows # {} => TheRow \in DOMAIN rows
  BY Zenon DEF TheRow
<1>2. ASSUME OneRow
      PROVE  DOMAIN rows = {TheRow}
  <2>1. used.ids \in Nat
    BY DEF Typing, Usage
  <2>2. IsFiniteSet(DOMAIN rows)
    <3>1. IsFiniteSet(1..used.ids)
      BY <2>1, FS_Interval
    <3>2. DOMAIN rows \in SUBSET (1..used.ids)
      BY DEF Typing
    <3> QED BY <3>1, <3>2, FS_Subset
  <2>3. PICK i : DOMAIN rows = {i}
    <3>1. \A S : IsFiniteSet(S) /\ Cardinality(S) = 1 => \E i : S = {i}
      BY FS_Singleton, Zenon
    <3> QED BY <1>2, <2>2, <3>1, Zenon DEF OneRow
  <2> QED BY <1>1, <2>3, Zenon
<1> QED BY <1>1, <1>2

\* The row that is found depends on which rows there are alone.
LEMMA SameRow ==
  ASSUME DOMAIN rows' = DOMAIN rows
  PROVE  /\ TheRow' = TheRow
         /\ OneRow' <=> OneRow
BY Zenon DEF TheRow, OneRow

\* Ages grow up to the longest window.
LEMMA Ages ==
  ASSUME NEW a \in 0..MaxWindow
  PROVE  Older(a) \in a..MaxWindow
BY AlertsAssumption DEF Older

\* Taking settings over leaves settings.
LEMMA Patched ==
  ASSUME NEW s, SettingsOK(s), NEW p \in Patches, NEW D, D \subseteq DOMAIN p
  PROVE  /\ SettingsOK(Changed(s, [f \in D |-> p[f]]))
         /\ Changed(s, [f \in D |-> p[f]]).age = s.age
<1> DEFINE q == [f \in D |-> p[f]]
<1>1. DOMAIN q = D
  OBVIOUS
<1>2. \A f \in D : q[f] = p[f]
  OBVIOUS
<1> HIDE DEF q
<1>3. "age" \in DOMAIN s /\ "critical" \in DOMAIN s /\ "window" \in DOMAIN s
  BY AlertsAssumption DEF SettingsOK
<1>4. D \subseteq DOMAIN Default \ {"age"}
  BY AlertsAssumption
<1>5. Changed(s, q).age = s.age
  BY <1>1, <1>3, <1>4 DEF Changed
<1>6. Changed(s, q).critical \in 0..100
  BY <1>1, <1>2, <1>3, AlertsAssumption DEF Changed, SettingsOK
<1>7. Changed(s, q).window \in 1..MaxWindow
  BY <1>1, <1>2, <1>3, AlertsAssumption DEF Changed, SettingsOK
<1>8. DOMAIN Changed(s, q) = DOMAIN Default
  BY DEF Changed, SettingsOK
<1> QED BY <1>5, <1>6, <1>7, <1>8 DEF SettingsOK, q

LEMMA InitIInv == Init => IInv
<1> SUFFICES ASSUME Init PROVE IInv
  OBVIOUS
<1> USE DEF Init
<1>1. DOMAIN rows = {} /\ Len(saved) = 0
  OBVIOUS
<1>2. \A t \in Tasks : task[t] = IdleTask
  OBVIOUS
<1>3. IdleTask \in TaskType
  BY DEF IdleTask, TaskType, Snapshots, NoRow
<1>4. task \in [Tasks -> TaskType]
  BY <1>3
<1>5. used \in [Usage -> Nat]
  <2>1. used = [b \in Usage |-> 0]
    BY DEF Usage
  <2> QED BY <2>1
<1>13. batch \in [age : 0..MaxWindow, era : 0..era]
  BY AlertsAssumption
<1>6. \A u \in Tabs : tab[u].pc = "idle"
  BY DEF IdleTab
<1>7. Typing
  <2>1. saved \in Seq(0..100) /\ alerts \in Seq(AlertType) /\ DOMAIN alerts = {}
    OBVIOUS
  <2>2. DOMAIN tab = Tabs /\ era \in Nat /\ latest \in Snapshots
    BY DEF Snapshots
  <2> QED BY <1>1, <1>4, <1>5, <1>13, <1>6, <2>1, <2>2 DEF Typing
<1>8. latest.score = Before(Len(saved) + 1)
  BY <1>1 DEF NoSnapshot, Before
<1>9. \A t \in Tasks : JobKnows(t)
  BY <1>2 DEF JobKnows, IdleTask
<1>10. FallsSound
  BY <1>2 DEF FallsSound, IdleTask
<1>11. ~OneRow
  BY <1>1, FS_EmptySet DEF OneRow
<1>12. WindowsSound
  BY <1>2, <1>11 DEF WindowsSound, IdleTask
<1> QED BY <1>7, <1>8, <1>9, <1>10, <1>12 DEF IInv

-----------------------------------------------------------------------------
(* The steps that leave the configuration, the scores and what was told *)

\* What a job that is about to tell must know.
TellSound(t) ==
  task[t].pc = "tell" =>
    /\ "critical" \in task[t].due /\ task[t].era = era => Fell(task[t].index, task[t].fresh)
    /\ ~task[t].overtaken /\ batch.era = era =>
         task[t].row \in DOMAIN rows /\ batch.age >= rows[task[t].row].window

\* Only the jobs that moved have to be looked at.
LEMMA Framed ==
  ASSUME IInv, Typing', UNCHANGED <<rows, latest, saved, era, batch, falls>>,
         \A t \in Tasks : task'[t] # task[t] => JobKnows(t)' /\ TellSound(t)'
  PROVE  IInv'
<1> USE DEF IInv
<1>1. (latest.score = Before(Len(saved) + 1))'
  BY DEF Before
<1>2. \A t \in Tasks : task'[t] = task[t] => JobKnows(t)'
  BY DEF JobKnows, Before
<1>3. \A k, known : Fell(k, known)' <=> Fell(k, known)
  BY DEF Fell, TheRow
<1>4. FallsSound'
  BY <1>3 DEF FallsSound, TellSound
<1>5. WindowsSound'
  BY DEF WindowsSound, TellSound, OneRow, TheRow
<1> QED BY <1>1, <1>2, <1>4, <1>5

\* A job that moves, while the tables and the tabs rest.
LEMMA JobMoves ==
  ASSUME IInv, NEW t \in Tasks, NEW j \in TaskType, task' = [task EXCEPT ![t] = j],
         UNCHANGED <<rows, latest, tab, alerts, saved, era, batch, falls>>,
         used' \in [Usage -> Nat], used'.ids = used.ids,
         JobKnows(t)', TellSound(t)'
  PROVE  IInv'
<1>1. task' \in [Tasks -> TaskType]
  BY DEF IInv, Typing
<1>2. Typing'
  BY <1>1 DEF IInv, Typing, SettingsOK
<1>3. \A o \in Tasks : task'[o] # task[o] => o = t
  BY DEF IInv, Typing
<1> QED BY <1>2, <1>3, Framed, Zenon

\* A bound that is spent.
LEMMA Spent ==
  ASSUME IInv, NEW b \in {"snapshots", "requests", "answers", "failures"}, NEW max, Use(b, max)
  PROVE  used' \in [Usage -> Nat] /\ used'.ids = used.ids
BY DEF IInv, Typing, Usage, Use

LEMMA StartStep ==
  ASSUME IInv, NEW t \in Tasks, Start(t)
  PROVE  IInv'
<1> DEFINE j == [IdleTask EXCEPT !.pc = "audit", !.prev = latest]
<1>1. j \in TaskType
  BY DEF IInv, Typing, IdleTask, TaskType, Snapshots, NoRow
<1>2. task' = [task EXCEPT ![t] = j] /\ task'[t] = j
  BY DEF Start, IInv, Typing
<1>3. j.pc = "audit" /\ j.prev = latest /\ j.era = 0
  BY DEF IdleTask
<1>4. used' \in [Usage -> Nat] /\ used'.ids = used.ids
  BY Spent DEF Start
<1> HIDE DEF j
<1>5. JobKnows(t)'
  <2>1. latest.score = Before(Len(saved) + 1) /\ era \in Nat
    BY DEF IInv, Typing
  <2>2. saved' = saved /\ era' = era
    BY DEF Start, history
  <2> QED BY <1>2, <1>3, <2>1, <2>2 DEF JobKnows, Before
<1>6. TellSound(t)'
  BY <1>2, <1>3 DEF TellSound
<1> QED BY <1>1, <1>2, <1>4, <1>5, <1>6, JobMoves DEF Start, history

\* A job that ends or fails knows nothing that matters.
LEMMA JobStops ==
  ASSUME IInv, NEW t \in Tasks, NEW j \in TaskType, task' = [task EXCEPT ![t] = j],
         j.pc \in {"idle", "failed", "tellFailed"}, j.era <= era,
         UNCHANGED <<rows, latest, tab, alerts, saved, era, batch, falls>>,
         used' \in [Usage -> Nat], used'.ids = used.ids
  PROVE  IInv'
<1>1. task'[t] = j
  BY DEF IInv, Typing
<1>2. JobKnows(t)' /\ TellSound(t)'
  BY <1>1 DEF JobKnows, TellSound
<1> QED BY <1>2, JobMoves

LEMMA IdleStops == IdleTask \in TaskType /\ IdleTask.pc = "idle" /\ IdleTask.era = 0
BY DEF IdleTask, TaskType, Snapshots, NoRow

LEMMA FailStep ==
  ASSUME IInv, NEW t \in Tasks, Fail(t)
  PROVE  IInv'
<1> DEFINE j == [task[t] EXCEPT !.pc = "failed"]
<1>1. task[t] \in TaskType /\ task[t].era <= era
  BY DEF IInv, Typing, JobKnows
<1>2. j \in TaskType /\ j.pc = "failed" /\ j.era = task[t].era
  BY <1>1 DEF TaskType
<1>3. task' = [task EXCEPT ![t] = j]
  BY DEF Fail
<1>4. used' \in [Usage -> Nat] /\ used'.ids = used.ids
  BY Spent DEF Fail
<1> HIDE DEF j
<1> QED BY <1>1, <1>2, <1>3, <1>4, JobStops DEF Fail, history

LEMMA CrashStep ==
  ASSUME IInv, NEW t \in Tasks, Crash(t)
  PROVE  IInv'
<1>1. used' \in [Usage -> Nat] /\ used'.ids = used.ids
  BY Spent DEF Crash
<1>2. IdleTask.era <= era
  BY IdleStops DEF IInv, Typing
<1> QED BY <1>1, <1>2, IdleStops, JobStops DEF Crash, history

LEMMA CheckFailedStep ==
  ASSUME IInv, NEW t \in Tasks, CheckFailed(t)
  PROVE  IInv'
<1>1. task[t] \in TaskType /\ task[t].era <= era /\ used \in [Usage -> Nat]
  BY DEF IInv, Typing, JobKnows
<1>2. IdleTask.era <= era
  BY IdleStops DEF IInv, Typing
<1>3. CASE task' = [task EXCEPT ![t] = IdleTask]
  BY <1>1, <1>2, <1>3, IdleStops, JobStops DEF CheckFailed, history
<1>4. CASE task' = [task EXCEPT ![t] = [task[t] EXCEPT !.pc = "tellFailed"]]
  <2> DEFINE j == [task[t] EXCEPT !.pc = "tellFailed"]
  <2>1. j \in TaskType /\ j.pc = "tellFailed" /\ j.era = task[t].era
    BY <1>1 DEF TaskType
  <2>2. task' = [task EXCEPT ![t] = j]
    BY <1>4
  <2> HIDE DEF j
  <2> QED BY <1>1, <2>1, <2>2, JobStops DEF CheckFailed, history
<1>5. task' = [task EXCEPT ![t] = IdleTask] \/ task' = [task EXCEPT ![t] = [task[t] EXCEPT !.pc = "tellFailed"]]
  BY DEF CheckFailed
<1> QED BY <1>3, <1>4, <1>5

\* What is due is what the conditions name, and a critical alert is due for a fall.
LEMMA DueSound ==
  ASSUME NEW s, NEW prev \in Snapshots, NEW new \in Snapshots
  PROVE  /\ Due(s, prev, new) \subseteq Kinds
         /\ "critical" \in Due(s, prev, new) => FellBelow(prev, new, s.critical)
<1>1. ASSUME NEW k \in Due(s, prev, new)
      PROVE  k \in Kinds
  BY <1>1 DEF Due, Holds, Kinds
<1>2. ASSUME "critical" \in Due(s, prev, new)
      PROVE  FellBelow(prev, new, s.critical)
  BY <1>2 DEF Due, Holds
<1> QED BY <1>1, <1>2

LEMMA CheckStep ==
  ASSUME IInv, NEW t \in Tasks, Check(t)
  PROVE  IInv'
<1>1. /\ task[t] \in TaskType /\ used \in [Usage -> Nat] /\ era \in Nat
      /\ JobKnows(t) /\ task[t].pc = "check"
  BY DEF IInv, Typing, Check
<1> DEFINE s == rows[TheRow]
           due == IF OneRow /\ s.enabled /\ ~Limited(s)
                  THEN Due(s, task[t].prev, task[t].new) ELSE {}
           j == [task[t] EXCEPT !.pc = "tell", !.row = TheRow, !.due = due, !.era = era]
<1>2. UNCHANGED <<rows, latest, tab, alerts, saved, era, batch, falls, used>>
  BY DEF Check, history
<1>3. CASE due = {}
  <2>1. task' = [task EXCEPT ![t] = IdleTask]
    BY <1>3 DEF Check
  <2>2. IdleTask.era <= era
    BY <1>1, IdleStops
  <2> QED BY <1>1, <1>2, <2>1, <2>2, IdleStops, JobStops
<1>4. CASE due # {}
  <2>1. task' = [task EXCEPT ![t] = j]
    BY <1>4 DEF Check
  <2>2. OneRow /\ ~Limited(s) /\ due = Due(s, task[t].prev, task[t].new)
    BY <1>4
  <2>3. /\ TheRow \in DOMAIN rows /\ SettingsOK(s) /\ TheRow \in Nat
        /\ s.age \in batch.age..MaxWindow
    <3>1. Typing
      BY DEF IInv
    <3>2. TheRow \in DOMAIN rows
      BY <2>2, <3>1, RowFound
    <3>3. used.ids \in Nat
      BY <1>1 DEF Usage
    <3> QED BY <3>1, <3>2, <3>3 DEF Typing
  <2>4. task[t].prev \in Snapshots /\ task[t].new \in Snapshots
    BY <1>1 DEF TaskType
  <2>5. due \subseteq Kinds /\ ("critical" \in due => FellBelow(task[t].prev, task[t].new, s.critical))
    BY <2>2, <2>4, DueSound
  <2> HIDE DEF due
  <2>6. j \in TaskType
    BY <1>1, <2>3, <2>5 DEF TaskType
  <2>7. /\ j.pc = "tell" /\ j.row = TheRow /\ j.due = due /\ j.era = era
        /\ j.prev = task[t].prev /\ j.new = task[t].new /\ j.index = task[t].index
        /\ j.fresh = task[t].fresh
    BY <1>1 DEF TaskType
  <2>8. task'[t] = j
    BY <2>1 DEF IInv, Typing
  <2> HIDE DEF j
  <2>9. JobKnows(t)'
    BY <1>1, <1>2, <1>4, <2>7, <2>8 DEF JobKnows, Before
  <2>10. ASSUME "critical" \in due
         PROVE  Fell(task[t].index, task[t].fresh)
    <3>1. /\ task[t].new.score < s.critical
          /\ task[t].prev = NoSnapshot \/ task[t].prev.score >= s.critical
      BY <2>5, <2>10 DEF FellBelow
    <3>2. task[t].index \in 1..Len(saved) /\ saved[task[t].index] = task[t].new.score
      BY <1>1 DEF JobKnows
    <3>3. ASSUME task[t].fresh, task[t].index # 1
          PROVE  saved[task[t].index - 1] >= s.critical
      <4>1. task[t].prev.score = saved[task[t].index - 1]
        BY <1>1, <3>2, <3>3 DEF JobKnows, Before
      <4>2. saved[task[t].index - 1] \in 0..100
        <5>1. saved \in Seq(0..100)
          BY DEF IInv, Typing
        <5>2. task[t].index - 1 \in 1..Len(saved)
          BY <3>2, <3>3, <5>1
        <5>3. PICK k \in 1..Len(saved) : k = task[t].index - 1
          BY <5>2
        <5>4. saved[k] \in 0..100
          BY <5>1, ElementOfSeq
        <5> QED BY <5>3, <5>4
      <4>3. task[t].prev # NoSnapshot
        BY <2>4, <4>1, <4>2, Scores
      <4> QED BY <3>1, <4>1, <4>3
    <3> QED BY <2>3, <3>1, <3>2, <3>3 DEF Fell
  <2>11. batch.era = era => batch.age >= s.window
    <3>1. batch.era = era => s.age = batch.age
      BY <2>2 DEF IInv, WindowsSound
    <3>2. s.age \in Int /\ s.window \in Int
      BY <2>3, AlertsAssumption DEF SettingsOK, IInv, Typing
    <3> QED BY <2>2, <3>1, <3>2 DEF Limited
  <2>12. TellSound(t)'
    <3>1. (Fell(task[t].index, task[t].fresh))' <=> Fell(j.index, j.fresh)
      BY <1>2, <2>8 DEF Fell, TheRow
    <3>2. (task[t].era = era)' /\ (task[t].due)' = due /\ (task[t].row)' = TheRow
      BY <1>2, <2>7, <2>8
    <3> QED BY <1>2, <2>3, <2>7, <2>10, <2>11, <3>1, <3>2 DEF TellSound
  <2> QED BY <1>1, <1>2, <2>1, <2>6, <2>9, <2>12, JobMoves
<1> QED BY <1>3, <1>4

\* The last score and its place.
LEMMA SavedGrows ==
  ASSUME IInv, NEW x \in 0..100, saved' = Append(saved, x)
  PROVE  /\ saved' \in Seq(0..100) /\ Len(saved') = Len(saved) + 1 /\ Len(saved) \in Nat
         /\ saved'[Len(saved) + 1] = x
         /\ \A k \in 1..Len(saved) : saved'[k] = saved[k]
         /\ \A k \in 1..Len(saved) + 1 : Before(k)' = Before(k)
<1>1. saved \in Seq(0..100)
  BY DEF IInv, Typing
<1>2. /\ saved' \in Seq(0..100) /\ Len(saved') = Len(saved) + 1 /\ Len(saved) \in Nat
      /\ saved'[Len(saved) + 1] = x
      /\ \A k \in 1..Len(saved) : saved'[k] = saved[k]
  BY <1>1
<1> QED BY <1>2 DEF Before

LEMMA SaveStep ==
  ASSUME IInv, NEW t \in Tasks, NEW new \in Outcomes, Save(t, new)
  PROVE  IInv'
<1> USE DEF IInv
<1>1. /\ Typing /\ new \in Snapshots /\ new.score \in 0..100
      /\ UNCHANGED <<rows, tab, alerts, used, era, batch, falls>> /\ latest' = new
      /\ saved' = Append(saved, new.score)
  BY AlertsAssumption DEF Save, Snapshots
<1>2. /\ saved' \in Seq(0..100) /\ Len(saved') = Len(saved) + 1 /\ Len(saved) \in Nat
      /\ saved'[Len(saved) + 1] = new.score
      /\ \A k \in 1..Len(saved) : saved'[k] = saved[k]
      /\ \A k \in 1..Len(saved) + 1 : Before(k)' = Before(k)
  BY <1>1, SavedGrows
<1>3. task[t] \in TaskType /\ task[t].pc = "audit" /\ JobKnows(t)
  BY DEF Save, Typing
<1> DEFINE j == [task[t] EXCEPT !.pc = "check", !.new = new, !.index = Len(saved) + 1]
           stale(o) == [task[o] EXCEPT !.fresh = FALSE]
<1>4. /\ j \in TaskType /\ j.pc = "check" /\ j.new = new /\ j.index = Len(saved) + 1
      /\ j.prev = task[t].prev /\ j.fresh = task[t].fresh /\ j.era = task[t].era
  <2>1. Len(saved) + 1 \in Nat
    BY <1>2
  <2> HIDE DEF IInv
  <2> QED BY <1>1, <1>3, <2>1 DEF TaskType
<1>5. ASSUME NEW o \in Tasks
      PROVE  /\ stale(o) \in TaskType /\ stale(o).pc = task[o].pc /\ ~stale(o).fresh
             /\ stale(o).era = task[o].era
  <2>1. task[o] \in TaskType
    BY <1>1 DEF Typing
  <2> HIDE DEF IInv
  <2> QED BY <2>1 DEF TaskType
<1>6. /\ task'[t] = j
      /\ \A o \in Tasks \ {t} :
           \/ task[o].pc = "audit" /\ task'[o] = stale(o)
           \/ task[o].pc # "audit" /\ task'[o] = task[o]
      /\ task' = [o \in Tasks |-> task'[o]]
  BY DEF Save
<1> HIDE DEF j, stale
<1>7. task' \in [Tasks -> TaskType]
  BY <1>1, <1>4, <1>5, <1>6 DEF Typing
<1>8. Typing'
  <2>1. falls' \subseteq [index : 1..Len(saved'), fresh : BOOLEAN, era : 0..era']
    BY <1>1, <1>2 DEF Typing
  <2> QED BY <1>1, <1>2, <1>7, <2>1 DEF Typing, SettingsOK
<1>9. (latest.score = Before(Len(saved) + 1))'
  BY <1>1, <1>2 DEF Before
<1>10. JobKnows(t)'
  BY <1>1, <1>2, <1>3, <1>4, <1>6 DEF JobKnows
<1>11. ASSUME NEW o \in Tasks \ {t}
       PROVE  JobKnows(o)'
  <2>1. JobKnows(o)
    OBVIOUS
  <2>2. CASE task[o].pc = "audit"
    BY <1>1, <1>5, <1>6, <2>1, <2>2 DEF JobKnows
  <2>3. CASE task[o].pc # "audit"
    BY <1>1, <1>2, <1>6, <2>1, <2>3 DEF JobKnows
  <2> QED BY <2>2, <2>3
<1>12. \A k \in 1..Len(saved) : \A known : Fell(k, known)' <=> Fell(k, known)
  BY <1>1, <1>2 DEF Fell, TheRow
<1>13. \A o \in Tasks : task'[o].pc = "tell" => task'[o] = task[o] /\ o # t
  BY <1>4, <1>5, <1>6
<1>14. FallsSound'
  <2>1. \A o \in Tasks : task[o].pc = "tell" => task[o].index \in 1..Len(saved)
    BY DEF JobKnows
  <2>2. \A f \in falls : f.index \in 1..Len(saved)
    BY DEF Typing
  <2> QED BY <1>1, <1>12, <1>13, <2>1, <2>2 DEF FallsSound
<1>15. WindowsSound'
  BY <1>1, <1>13 DEF WindowsSound, OneRow, TheRow
<1> QED BY <1>8, <1>9, <1>10, <1>11, <1>14, <1>15

\* A batch is a sequence of alerts, and each of them waits for an answer.
LEMMA BatchSound ==
  ASSUME NEW due
  PROVE  /\ Batch(due) \in Seq(AlertType)
         /\ \A i \in DOMAIN Batch(due) : Batch(due)[i].status = "pending"
<1> DEFINE Pending == {a \in AlertType : a.status = "pending"}
<1>1. ASSUME NEW k \in Kinds
      PROVE  NewIf(k, due) \in Seq(Pending)
  <2>1. New(k) \in AlertType /\ New(k).status = "pending"
    BY DEF New, AlertType
  <2>2. New(k) \in Pending
    BY <2>1
  <2> HIDE DEF Pending
  <2> QED BY <2>2 DEF NewIf
<1>2. NewIf("drop", due) \in Seq(Pending) /\ NewIf("improvement", due) \in Seq(Pending)
      /\ NewIf("critical", due) \in Seq(Pending) /\ NewIf("mention_drop", due) \in Seq(Pending)
      /\ NewIf("mention_improvement", due) \in Seq(Pending)
  <2> HIDE DEF Pending
  <2> QED BY <1>1 DEF Kinds
<1>3. Batch(due) \in Seq(Pending)
  <2> HIDE DEF Pending
  <2> QED BY <1>2 DEF Batch
<1>4. \A i \in DOMAIN Batch(due) : Batch(due)[i] \in Pending
  <2> HIDE DEF Pending
  <2> QED BY <1>3
<1>5. \A i \in DOMAIN Batch(due) : Batch(due)[i] \in AlertType /\ Batch(due)[i].status = "pending"
  BY <1>4
<1>6. Len(Batch(due)) \in Nat /\ DOMAIN Batch(due) = 1..Len(Batch(due))
      /\ Batch(due) = [i \in 1..Len(Batch(due)) |-> Batch(due)[i]]
  <2> HIDE DEF Pending
  <2> QED BY <1>3
<1> QED BY <1>5, <1>6

\* Alerts that are added wait for an answer.
LEMMA AlertsAdded ==
  ASSUME IInv, NEW new \in Seq(AlertType), \A i \in DOMAIN new : new[i].status = "pending",
         alerts' = alerts \o new
  PROVE  /\ alerts' \in Seq(AlertType)
         /\ \A i \in DOMAIN alerts' :
              /\ alerts'[i].status = "acknowledged" => alerts'[i].acknowledged
              /\ alerts'[i].status = "dismissed" => alerts'[i].dismissed
<1>1. alerts \in Seq(AlertType)
  BY DEF IInv, Typing
<1>2. PICK m \in Nat, n \in Nat : m = Len(alerts) /\ n = Len(new)
  BY <1>1
<1>3. alerts' \in Seq(AlertType) /\ Len(alerts') = m + n
  BY <1>1, <1>2
<1>4. \A i \in 1..m : alerts'[i] = alerts[i]
  BY <1>1, <1>2
<1>5. \A i \in m + 1..m + n : alerts'[i] = new[i - m] /\ i - m \in 1..n
  BY <1>1, <1>2
<1>6. ASSUME NEW i \in DOMAIN alerts'
      PROVE  /\ alerts'[i].status = "acknowledged" => alerts'[i].acknowledged
             /\ alerts'[i].status = "dismissed" => alerts'[i].dismissed
  <2>1. i \in 1..m \/ i \in m + 1..m + n
    BY <1>3
  <2>2. CASE i \in 1..m
    <3>1. i \in DOMAIN alerts
      BY <1>1, <1>2, <2>2
    <3> QED BY <1>4, <2>2, <3>1 DEF IInv, Typing
  <2>3. CASE i \in m + 1..m + n
    <3>1. new[i - m].status = "pending"
      BY <1>2, <1>5, <2>3
    <3> QED BY <1>5, <2>3, <3>1
  <2> QED BY <2>1, <2>2, <2>3
<1> QED BY <1>3, <1>6

\* What Tell does to the rows: the stamped one is new, and nothing else changes.
LEMMA StampSound ==
  ASSUME IInv, NEW r \in DOMAIN rows, rows' = [rows EXCEPT ![r] = Stamped(@)]
  PROVE  /\ DOMAIN rows' = DOMAIN rows
         /\ \A i \in DOMAIN rows :
              /\ SettingsOK(rows'[i]) /\ rows'[i].critical = rows[i].critical
              /\ rows'[i].window = rows[i].window
         /\ rows'[r].age = 0
         /\ \A i \in DOMAIN rows : rows'[i].age \in 0..MaxWindow
<1>1. \A i \in DOMAIN rows : SettingsOK(rows[i]) /\ rows[i].age \in 0..MaxWindow
  BY DEF IInv, Typing
<1>2. {"critical", "window", "age"} \subseteq DOMAIN rows[r]
  BY <1>1, AlertsAssumption DEF SettingsOK
<1>3. /\ DOMAIN Stamped(rows[r]) = DOMAIN rows[r]
      /\ Stamped(rows[r]).age = 0
      /\ Stamped(rows[r]).critical = rows[r].critical
      /\ Stamped(rows[r]).window = rows[r].window
  BY <1>2 DEF Stamped
<1>4. SettingsOK(Stamped(rows[r]))
  BY <1>1, <1>3 DEF SettingsOK
<1>5. DOMAIN rows' = DOMAIN rows /\ rows'[r] = Stamped(rows[r])
      /\ \A i \in DOMAIN rows \ {r} : rows'[i] = rows[i]
  OBVIOUS
<1>6. 0 \in 0..MaxWindow
  BY AlertsAssumption
<1> QED BY <1>1, <1>3, <1>4, <1>5, <1>6

LEMMA TellStep ==
  ASSUME IInv, NEW t \in Tasks, Tell(t)
  PROVE  IInv'
<1>1. /\ Typing /\ task[t].pc = "tell" /\ task[t] \in TaskType /\ JobKnows(t)
      /\ UNCHANGED <<latest, tab, used, saved, era>>
  BY DEF IInv, Typing, Tell
<1> DEFINE over(o) == [task[o] EXCEPT !.overtaken = TRUE]
<1>2. ASSUME NEW o \in Tasks
      PROVE  /\ over(o) \in TaskType /\ over(o).overtaken /\ over(o).pc = task[o].pc
             /\ over(o).due = task[o].due /\ over(o).index = task[o].index
             /\ over(o).fresh = task[o].fresh /\ over(o).era = task[o].era
             /\ over(o).prev = task[o].prev /\ over(o).new = task[o].new
  <2>1. task[o] \in TaskType
    BY <1>1 DEF Typing
  <2> QED BY <2>1 DEF TaskType
<1>3. /\ task'[t] = IdleTask
      /\ \A o \in Tasks \ {t} :
           \/ task[o].pc = "tell" /\ task'[o] = over(o)
           \/ task[o].pc # "tell" /\ task'[o] = task[o]
      /\ task' = [o \in Tasks |-> task'[o]]
  BY DEF Tell
<1> HIDE DEF over
<1>4. task' \in [Tasks -> TaskType]
  BY <1>1, <1>2, <1>3, IdleStops DEF Typing
<1>5. (latest.score = Before(Len(saved) + 1))'
  BY <1>1 DEF IInv, Before
<1>6. ASSUME NEW o \in Tasks
      PROVE  JobKnows(o)'
  <2>1. JobKnows(o) /\ era \in Nat
    BY <1>1 DEF IInv, Typing
  <2>2. CASE o = t
    BY <1>1, <1>3, <2>1, <2>2, IdleStops DEF JobKnows
  <2>3. CASE o # t /\ task[o].pc = "tell"
    BY <1>1, <1>2, <1>3, <2>1, <2>3 DEF JobKnows, Before
  <2>4. CASE o # t /\ task[o].pc # "tell"
    BY <1>1, <1>3, <2>1, <2>4 DEF JobKnows, Before
  <2> QED BY <2>2, <2>3, <2>4
<1>7. CASE task[t].row \in DOMAIN rows
  <2>1. /\ rows' = [rows EXCEPT ![task[t].row] = Stamped(@)]
        /\ alerts' = alerts \o Batch(task[t].due) /\ batch' = [age |-> 0, era |-> era]
        /\ falls' = IF "critical" \in task[t].due
                    THEN falls \cup {[index |-> task[t].index, fresh |-> task[t].fresh,
                                      era |-> task[t].era]}
                    ELSE falls
    BY <1>7 DEF Tell
  <2>2. /\ DOMAIN rows' = DOMAIN rows
        /\ \A i \in DOMAIN rows :
             /\ SettingsOK(rows'[i]) /\ rows'[i].critical = rows[i].critical
             /\ rows'[i].window = rows[i].window
        /\ rows'[task[t].row].age = 0
        /\ \A i \in DOMAIN rows : rows'[i].age \in 0..MaxWindow
    BY <1>7, <2>1, StampSound
  <2>3. TheRow' = TheRow /\ (OneRow' <=> OneRow)
    BY <2>2, SameRow
  <2>4. /\ alerts' \in Seq(AlertType)
        /\ \A i \in DOMAIN alerts' :
             /\ alerts'[i].status = "acknowledged" => alerts'[i].acknowledged
             /\ alerts'[i].status = "dismissed" => alerts'[i].dismissed
    BY <2>1, BatchSound, AlertsAdded
  <2>5. era \in Nat /\ batch' \in [age : 0..MaxWindow, era : 0..era] /\ batch'.age = 0
    BY <1>1, <2>1, AlertsAssumption DEF Typing
  <2>6. falls' \subseteq [index : 1..Len(saved), fresh : BOOLEAN, era : 0..era]
    <3>1. task[t].index \in 1..Len(saved) /\ task[t].fresh \in BOOLEAN /\ task[t].era \in 0..era
      BY <1>1, <2>5 DEF JobKnows, TaskType
    <3> QED BY <1>1, <2>1, <3>1 DEF Typing
  <2>7. Typing'
    BY <1>1, <1>4, <2>2, <2>4, <2>5, <2>6 DEF Typing
  <2>8. \A k, known : Fell(k, known) => Fell(k, known)'
    BY <1>1, <2>2, <2>3 DEF Fell
  <2>9. FallsSound'
    <3>1. ASSUME NEW o \in Tasks, task'[o].pc = "tell", "critical" \in task'[o].due,
                 task'[o].era = era
          PROVE  Fell(task[o].index, task[o].fresh)
      BY <1>2, <1>3, <3>1, IdleStops DEF IInv, FallsSound
    <3>2. \A o \in Tasks : task'[o].pc = "tell" =>
            task'[o].index = task[o].index /\ task'[o].fresh = task[o].fresh
      BY <1>2, <1>3, IdleStops
    <3>3. \A f \in falls : f.era = era => Fell(f.index, f.fresh)
      BY DEF IInv, FallsSound
    <3>4. "critical" \in task[t].due /\ task[t].era = era => Fell(task[t].index, task[t].fresh)
      BY <1>1 DEF IInv, FallsSound
    <3>5. \A f \in falls' : f.era = era => Fell(f.index, f.fresh)
      BY <2>1, <3>3, <3>4
    <3> QED BY <1>1, <2>8, <3>1, <3>2, <3>5 DEF FallsSound
  <2>10. WindowsSound'
    <3>1. OneRow => rows'[TheRow].age = 0
      BY <1>1, <1>7, <2>2, RowFound
    <3>2. \A o \in Tasks : task'[o].pc = "tell" => task'[o].overtaken
      BY <1>2, <1>3, IdleStops
    <3> QED BY <2>3, <2>5, <3>1, <3>2 DEF WindowsSound
  <2> QED BY <1>5, <1>6, <2>7, <2>9, <2>10 DEF IInv
<1>8. CASE task[t].row \notin DOMAIN rows
  <2>1. UNCHANGED <<alerts, rows, batch, falls>>
    BY <1>8 DEF Tell
  <2>2. Typing'
    BY <1>1, <1>4, <2>1 DEF Typing, SettingsOK
  <2>3. \A k, known : Fell(k, known) => Fell(k, known)'
    BY <1>1, <2>1 DEF Fell, TheRow
  <2>4. \A o \in Tasks : task'[o].pc = "tell" =>
          /\ o # t /\ task[o].pc = "tell" /\ task'[o].overtaken /\ task'[o].due = task[o].due
          /\ task'[o].index = task[o].index /\ task'[o].fresh = task[o].fresh
          /\ task'[o].era = task[o].era
    BY <1>2, <1>3, IdleStops
  <2>5. FallsSound'
    BY <1>1, <2>1, <2>3, <2>4 DEF IInv, FallsSound
  <2>6. WindowsSound'
    BY <1>1, <2>1, <2>4 DEF IInv, WindowsSound, OneRow, TheRow
  <2> QED BY <1>5, <1>6, <2>2, <2>5, <2>6 DEF IInv
<1> QED BY <1>7, <1>8

LEMMA TellFailedStep ==
  ASSUME IInv, NEW t \in Tasks, TellFailed(t)
  PROVE  IInv'
<1>1. Typing /\ UNCHANGED <<rows, latest, tab, used, saved, era, batch, falls>>
  BY DEF IInv, TellFailed, history
<1>2. New("failed") \in AlertType /\ New("failed").status = "pending"
  BY DEF New, AlertType, Kinds
<1>3. PICK new \in Seq(AlertType) :
        alerts' = alerts \o new /\ \A i \in DOMAIN new : new[i].status = "pending"
  <2>1. alerts \in Seq(AlertType) /\ alerts' = Append(alerts, New("failed"))
    BY <1>1 DEF TellFailed, Typing
  <2>2. alerts' = alerts \o <<New("failed")>>
    BY <1>2, <2>1, AppendIsConcat
  <2>3. <<New("failed")>> \in Seq(AlertType)
    BY <1>2
  <2>4. \A i \in DOMAIN <<New("failed")>> : <<New("failed")>>[i] = New("failed")
    OBVIOUS
  <2>5. \A i \in DOMAIN <<New("failed")>> : <<New("failed")>>[i].status = "pending"
    BY <1>2, <2>4
  <2> QED BY <2>2, <2>3, <2>5
<1>4. /\ alerts' \in Seq(AlertType)
      /\ \A i \in DOMAIN alerts' :
           /\ alerts'[i].status = "acknowledged" => alerts'[i].acknowledged
           /\ alerts'[i].status = "dismissed" => alerts'[i].dismissed
  BY <1>3, AlertsAdded
<1>5. task' = [task EXCEPT ![t] = IdleTask] /\ task'[t] = IdleTask
      /\ \A o \in Tasks \ {t} : task'[o] = task[o]
  BY <1>1 DEF TellFailed, Typing
<1>6. Typing'
  BY <1>1, <1>4, <1>5, IdleStops DEF Typing, SettingsOK
<1>7. JobKnows(t)' /\ TellSound(t)'
  BY <1>1, <1>5, IdleStops DEF JobKnows, TellSound, Typing
<1> QED BY <1>1, <1>5, <1>6, <1>7, Framed

-----------------------------------------------------------------------------
(* The owner *)

LEMMA AskStep ==
  ASSUME IInv, NEW u \in Tabs, NEW pc, NEW patch,
         (pc = "set" /\ patch \in Patches) \/ pc = "delete", Ask(u, pc, patch)
  PROVE  IInv'
<1>1. used' \in [Usage -> Nat] /\ used'.ids = used.ids
  BY Spent DEF Ask
<1>2. PICK r : /\ tab'[u].pc = pc /\ tab'[u].patch = patch
               /\ DOMAIN tab' = Tabs /\ \A o \in Tabs \ {u} : tab'[o] = tab[o]
  BY DEF Ask, IInv, Typing
<1>3. UNCHANGED <<rows, latest, task, alerts, saved, era, batch, falls>>
  BY DEF Ask, history
<1>4. Typing'
  BY <1>1, <1>2, <1>3 DEF IInv, Typing, SettingsOK
<1> QED BY <1>3, <1>4, Framed

\* A configuration that changes starts a new era, in which nothing has been told.
LEMMA Reconfigured ==
  ASSUME IInv, Typing', UNCHANGED <<latest, task, saved, batch, falls>>, era' = era + 1
  PROVE  IInv'
<1>1. /\ era \in Nat /\ batch.era \in 0..era /\ \A f \in falls : f.era \in 0..era
  BY DEF IInv, Typing
<1>2. (latest.score = Before(Len(saved) + 1))'
  BY DEF IInv, Before
<1>3. \A t \in Tasks : JobKnows(t) /\ task[t].era \in Nat
  BY DEF IInv, Typing, TaskType
<1>4. \A t \in Tasks : JobKnows(t)'
  BY <1>1, <1>3 DEF JobKnows, Before
<1>5. FallsSound'
  BY <1>1, <1>3 DEF FallsSound, JobKnows
<1>6. WindowsSound'
  BY <1>1 DEF WindowsSound
<1> QED BY <1>2, <1>4, <1>5, <1>6 DEF IInv

\* A request for the configuration that is over.
LEMMA TabEnds ==
  ASSUME IInv, NEW u \in Tabs, tab' = [tab EXCEPT ![u] = IdleTab],
         UNCHANGED <<latest, task, alerts, saved, batch, falls>>,
         DOMAIN rows' \subseteq 1..used'.ids,
         \A i \in DOMAIN rows' : SettingsOK(rows'[i]) /\ rows'[i].age \in batch.age..MaxWindow,
         used' \in [Usage -> Nat],
         IF rows' = rows THEN era' = era ELSE era' = era + 1
  PROVE  IInv'
<1>1. /\ DOMAIN tab' = Tabs
      /\ \A o \in Tabs : tab'[o].pc = "idle" \/ tab'[o] = tab[o]
  BY DEF IInv, Typing, IdleTab
<1>2. era \in Nat /\ era' \in Nat /\ era <= era' /\ batch \in [age : 0..MaxWindow, era : 0..era]
      /\ falls \subseteq [index : 1..Len(saved), fresh : BOOLEAN, era : 0..era]
  BY DEF IInv, Typing
<1>3. batch \in [age : 0..MaxWindow, era : 0..era']
      /\ falls \subseteq [index : 1..Len(saved), fresh : BOOLEAN, era : 0..era']
  <2>1. 0..era \subseteq 0..era'
    BY <1>2
  <2> QED BY <1>2, <2>1
<1>4. Typing'
  BY <1>1, <1>2, <1>3 DEF IInv, Typing, SettingsOK
<1>5. CASE rows' = rows
  BY <1>4, <1>5, Framed
<1>6. CASE rows' # rows
  BY <1>4, <1>6, Reconfigured
<1> QED BY <1>5, <1>6

LEMMA SetSettingsStep ==
  ASSUME IInv, NEW u \in Tabs, SetSettings(u)
  PROVE  IInv'
<1>1. /\ Typing /\ tab[u].patch \in Patches /\ tab' = [tab EXCEPT ![u] = IdleTab]
      /\ UNCHANGED <<latest, task, alerts, saved, batch, falls>>
      /\ IF rows' = rows THEN era' = era ELSE era' = era + 1
  BY DEF IInv, Typing, SetSettings
<1>2. /\ \A i \in DOMAIN rows : SettingsOK(rows[i]) /\ rows[i].age \in batch.age..MaxWindow
      /\ DOMAIN rows \subseteq 1..used.ids /\ used \in [Usage -> Nat] /\ used.ids \in Nat
  BY <1>1 DEF Typing, Usage
<1>3. CASE /\ used' = [used EXCEPT !.ids = @ + 1]
           /\ rows' = [i \in DOMAIN rows \cup {used'.ids} |->
                        IF i \in DOMAIN rows THEN rows[i] ELSE Changed(Default, tab[u].patch)]
  <2> DEFINE p == tab[u].patch
             q == [f \in DOMAIN p |-> p[f]]
  <2>1. used' \in [Usage -> Nat] /\ used'.ids = used.ids + 1
    BY <1>2, <1>3 DEF Usage
  <2>2. SettingsOK(Default)
    BY AlertsAssumption DEF SettingsOK
  <2>3. SettingsOK(Changed(Default, q)) /\ Changed(Default, q).age = Default.age
    BY <1>1, <2>2, Patched
  <2>4. Changed(Default, p) = Changed(Default, q)
    BY DEF Changed
  <2>5. Default.age \in batch.age..MaxWindow
    BY <1>1, AlertsAssumption DEF Typing
  <2>6. SettingsOK(Changed(Default, p)) /\ Changed(Default, p).age \in batch.age..MaxWindow
    BY <2>3, <2>4, <2>5
  <2> HIDE DEF p, q
  <2>7. \A i \in DOMAIN rows' : SettingsOK(rows'[i]) /\ rows'[i].age \in batch.age..MaxWindow
    BY <1>2, <1>3, <2>6 DEF p
  <2>8. DOMAIN rows' \subseteq 1..used'.ids
    BY <1>2, <1>3, <2>1
  <2> QED BY <1>1, <2>1, <2>7, <2>8, TabEnds
<1>4. CASE /\ tab[u].row \in DOMAIN rows
           /\ rows' = [rows EXCEPT ![tab[u].row] = Changed(@, Written(u))]
           /\ UNCHANGED used
  <2>1. PICK r \in DOMAIN rows : r = tab[u].row
    BY <1>4
  <2>2. SettingsOK(rows[r]) /\ rows[r].age \in batch.age..MaxWindow
    BY <1>2
  <2>3. PICK p \in Patches : p = tab[u].patch
    BY <1>1
  <2> DEFINE D == {f \in DOMAIN p : p[f] # tab[u].read[f]}
  <2>4. Written(u) = [f \in D |-> p[f]]
    BY <2>3 DEF Written
  <2>5. D \subseteq DOMAIN p
    OBVIOUS
  <2> HIDE DEF D
  <2>6. SettingsOK(Changed(rows[r], [f \in D |-> p[f]]))
        /\ Changed(rows[r], [f \in D |-> p[f]]).age = rows[r].age
    BY <2>2, <2>5, Patched
  <2>7. rows' = [rows EXCEPT ![r] = Changed(rows[r], Written(u))]
    BY <1>4, <2>1
  <2>8. DOMAIN rows' = DOMAIN rows /\ rows'[r] = Changed(rows[r], Written(u))
        /\ \A i \in DOMAIN rows \ {r} : rows'[i] = rows[i]
    BY <2>7
  <2>9. \A i \in DOMAIN rows' : SettingsOK(rows'[i]) /\ rows'[i].age \in batch.age..MaxWindow
    BY <1>2, <2>2, <2>4, <2>6, <2>8
  <2> QED BY <1>1, <1>2, <1>4, <2>8, <2>9, TabEnds
<1>5. CASE UNCHANGED <<rows, used>>
  BY <1>1, <1>2, <1>5, TabEnds DEF SettingsOK
<1> QED BY <1>3, <1>4, <1>5 DEF SetSettings

LEMMA DeleteSettingsStep ==
  ASSUME IInv, NEW u \in Tabs, DeleteSettings(u)
  PROVE  IInv'
<1>1. /\ \A i \in DOMAIN rows : SettingsOK(rows[i]) /\ rows[i].age \in batch.age..MaxWindow
      /\ DOMAIN rows \subseteq 1..used.ids /\ used \in [Usage -> Nat]
  BY DEF IInv, Typing
<1>2. /\ tab' = [tab EXCEPT ![u] = IdleTab] /\ used' = used
      /\ UNCHANGED <<latest, task, alerts, saved, batch, falls>>
      /\ IF rows' = rows THEN era' = era ELSE era' = era + 1
      /\ rows' = [i \in DOMAIN rows \ {tab[u].row} |-> rows[i]]
  BY DEF DeleteSettings
<1>3. /\ DOMAIN rows' \subseteq DOMAIN rows
      /\ \A i \in DOMAIN rows' : rows'[i] = rows[i]
  BY <1>2
<1> QED BY <1>1, <1>2, <1>3, TabEnds

\* An answer changes the marks of alerts alone.
LEMMA AnswerStep ==
  ASSUME IInv, NEW ids, Acknowledge(ids) \/ Dismiss(ids)
  PROVE  IInv'
<1>1. used' \in [Usage -> Nat] /\ used'.ids = used.ids
  BY Spent DEF Acknowledge, Dismiss
<1>2. UNCHANGED <<rows, latest, task, tab, saved, era, batch, falls>>
  BY DEF Acknowledge, Dismiss, history
<1>3. alerts \in Seq(AlertType)
  BY DEF IInv, Typing
<1>4. ASSUME NEW i \in DOMAIN alerts
      PROVE  /\ [alerts[i] EXCEPT !.status = "acknowledged", !.acknowledged = TRUE] \in AlertType
             /\ [alerts[i] EXCEPT !.status = "dismissed", !.dismissed = TRUE] \in AlertType
  <2>1. alerts[i] \in AlertType
    BY <1>3
  <2> QED BY <2>1 DEF AlertType
<1>5. /\ DOMAIN alerts' = DOMAIN alerts
      /\ \A i \in DOMAIN alerts :
           \/ alerts'[i] = alerts[i]
           \/ alerts'[i] = [alerts[i] EXCEPT !.status = "acknowledged", !.acknowledged = TRUE]
           \/ alerts'[i] = [alerts[i] EXCEPT !.status = "dismissed", !.dismissed = TRUE]
      /\ alerts' = [i \in DOMAIN alerts |-> alerts'[i]]
  BY DEF Acknowledge, Dismiss
<1>6. ASSUME NEW i \in DOMAIN alerts
      PROVE  alerts'[i] \in AlertType
  <2>1. alerts[i] \in AlertType
    BY <1>3
  <2> HIDE DEF AlertType
  <2> QED BY <1>4, <1>5, <2>1
<1>7. alerts' \in Seq(AlertType)
  <2>1. PICK n \in Nat : DOMAIN alerts = 1..n
    BY <1>3
  <2>2. alerts' \in [1..n -> AlertType]
    BY <1>5, <1>6, <2>1
  <2> QED BY <2>2, SeqDef
<1>8. ASSUME NEW i \in DOMAIN alerts'
      PROVE  /\ alerts'[i].status = "acknowledged" => alerts'[i].acknowledged
             /\ alerts'[i].status = "dismissed" => alerts'[i].dismissed
  <2>1. i \in DOMAIN alerts
    BY <1>5
  <2>2. alerts[i] \in AlertType
    BY <1>3, <2>1
  <2>3. CASE alerts'[i] = alerts[i]
    BY <2>1, <2>3 DEF IInv, Typing
  <2>4. CASE alerts'[i] = [alerts[i] EXCEPT !.status = "acknowledged", !.acknowledged = TRUE]
    BY <2>2, <2>4 DEF AlertType
  <2>5. CASE alerts'[i] = [alerts[i] EXCEPT !.status = "dismissed", !.dismissed = TRUE]
    BY <2>2, <2>5 DEF AlertType
  <2> QED BY <1>5, <2>1, <2>3, <2>4, <2>5
<1>9. Typing'
  BY <1>1, <1>2, <1>7, <1>8 DEF IInv, Typing, SettingsOK
<1> QED BY <1>2, <1>9, Framed

LEMMA TickStep ==
  ASSUME IInv, Tick
  PROVE  IInv'
<1>1. /\ Typing /\ UNCHANGED <<latest, task, tab, alerts, used, saved, era, falls>>
      /\ rows' = [i \in DOMAIN rows |-> [rows[i] EXCEPT !.age = Older(@)]]
      /\ batch' = [batch EXCEPT !.age = Older(@)]
  BY DEF IInv, Tick
<1>2. batch.age \in 0..MaxWindow /\ batch.era \in 0..era /\ era \in Nat
      /\ batch'.age = Older(batch.age) /\ batch'.era = batch.era
      /\ batch'.age \in batch.age..MaxWindow /\ batch' \in [age : 0..MaxWindow, era : 0..era]
  <2>1. batch \in [age : 0..MaxWindow, era : 0..era] /\ era \in Nat
    BY <1>1 DEF Typing
  <2>2. PICK a \in 0..MaxWindow : a = batch.age
    BY <2>1
  <2>3. Older(a) \in a..MaxWindow /\ Older(a) \in 0..MaxWindow
    BY Ages
  <2> QED BY <1>1, <2>1, <2>2, <2>3
<1>3. DOMAIN rows' = DOMAIN rows
  BY <1>1
<1>4. ASSUME NEW i \in DOMAIN rows
      PROVE  /\ SettingsOK(rows'[i]) /\ rows'[i].critical = rows[i].critical
             /\ rows'[i].window = rows[i].window
             /\ rows'[i].age = Older(rows[i].age)
             /\ rows'[i].age \in batch'.age..MaxWindow
  <2>1. SettingsOK(rows[i]) /\ rows[i].age \in batch.age..MaxWindow
    BY <1>1 DEF Typing
  <2>2. {"critical", "window", "age"} \subseteq DOMAIN rows[i]
    BY <2>1, AlertsAssumption DEF SettingsOK
  <2>3. rows'[i] = [rows[i] EXCEPT !.age = Older(@)]
    BY <1>1
  <2>4. /\ rows'[i].age = Older(rows[i].age) /\ rows'[i].critical = rows[i].critical
        /\ rows'[i].window = rows[i].window /\ DOMAIN rows'[i] = DOMAIN rows[i]
    BY <2>2, <2>3
  <2>5. Older(rows[i].age) \in Older(batch.age)..MaxWindow
    BY <1>2, <2>1, AlertsAssumption DEF Older
  <2> QED BY <1>2, <2>1, <2>4, <2>5 DEF SettingsOK
<1>5. Typing'
  BY <1>1, <1>2, <1>3, <1>4 DEF Typing
<1>6. TheRow' = TheRow /\ (OneRow' <=> OneRow)
  BY <1>3, SameRow
<1>7. (latest.score = Before(Len(saved) + 1))'
  BY <1>1 DEF IInv, Before
<1>8. \A t \in Tasks : JobKnows(t)'
  BY <1>1 DEF IInv, JobKnows, Before
<1>9. FallsSound'
  <2>1. \A k, known : Fell(k, known) => Fell(k, known)'
    BY <1>1, <1>3, <1>4, <1>6 DEF Fell
  <2> QED BY <1>1, <2>1 DEF IInv, FallsSound
<1>10. WindowsSound'
  <2>1. OneRow => TheRow \in DOMAIN rows
    BY <1>1, RowFound
  <2>2. batch.era = era /\ OneRow => rows'[TheRow].age = batch'.age
    BY <1>2, <1>4, <2>1 DEF IInv, WindowsSound
  <2>3. ASSUME NEW t \in Tasks, task[t].pc = "tell", ~task[t].overtaken, batch.era = era
        PROVE  task[t].row \in DOMAIN rows /\ batch'.age >= rows'[task[t].row].window
    <3>1. task[t].row \in DOMAIN rows /\ batch.age >= rows[task[t].row].window
      BY <2>3 DEF IInv, WindowsSound
    <3>2. rows[task[t].row].window \in 1..MaxWindow
      BY <1>1, <3>1 DEF Typing, SettingsOK
    <3> QED BY <1>2, <1>4, <3>1, <3>2, AlertsAssumption
  <2> QED BY <1>1, <1>2, <1>3, <1>6, <2>2, <2>3 DEF WindowsSound
<1> QED BY <1>5, <1>7, <1>8, <1>9, <1>10 DEF IInv

LEMMA NextIInv ==
  ASSUME IInv, [Next]_vars
  PROVE  IInv'
<1>1. ASSUME NEW t \in Tasks, SnapshotStep(t)
      PROVE  IInv'
  BY <1>1, StartStep, SaveStep, FailStep, CrashStep, CheckStep, TellStep, CheckFailedStep,
     TellFailedStep DEF SnapshotStep
<1>2. ASSUME NEW u \in Tabs, TabStep(u)
      PROVE  IInv'
  BY <1>2, AskStep, SetSettingsStep, DeleteSettingsStep DEF TabStep, AskSettings, AskDelete
<1>3. ASSUME Answer
      PROVE  IInv'
  BY <1>3, AnswerStep DEF Answer
<1>4. CASE UNCHANGED vars
  <2>1. UNCHANGED <<rows, latest, task, tab, alerts, used, saved, era, batch, falls>>
    BY <1>4 DEF vars
  <2>2. Typing'
    BY <2>1 DEF IInv, Typing, SettingsOK
  <2> QED BY <2>1, <2>2, Framed
<1> QED BY <1>1, <1>2, <1>3, <1>4, TickStep DEF Next

\* The invariant holds in every reachable state.
LEMMA AlertsInvariance == Spec => []IInv
BY InitIInv, NextIInv, PTL DEF Spec

-----------------------------------------------------------------------------
(* The theorems *)

\* Between the snapshots of two critical alerts whose jobs compared neighbours there is
\* one at or above the threshold, as long as the configuration does not change
\* (check_snapshot_alerts): the one before the second fall, which is not the first fall.
THEOREM FallsAreToldOnce == Spec => []FallToldOnce
<1>1. ASSUME IInv
      PROVE  FallToldOnce
  <2>1. TypeOK
    <3>1. \A t \in Tasks :
            /\ task[t].pc \in {"idle", "audit", "check", "tell", "failed", "tellFailed"}
            /\ task[t].pc = "tell" => task[t].due # {} /\ task[t].due \subseteq Kinds
      BY <1>1 DEF IInv, Typing, TaskType, JobKnows
    <3>2. \A i \in DOMAIN alerts : alerts[i].kind \in Kinds
      <4>1. alerts \in Seq(AlertType)
        BY <1>1 DEF IInv, Typing
      <4>2. \A i \in DOMAIN alerts : alerts[i] \in AlertType
        BY <4>1
      <4> QED BY <4>2 DEF AlertType
    <3> QED BY <1>1, <3>1, <3>2 DEF IInv, Typing, TypeOK, SettingsOK, Snapshots
  <2>2. ASSUME NEW a \in falls, NEW b \in falls,
               a.index < b.index, b.fresh, a.era = b.era, b.era = era
        PROVE  \E i \in (a.index + 1)..(b.index - 1) : saved[i] >= rows[TheRow].critical
    <3>1. /\ Fell(a.index, a.fresh) /\ Fell(b.index, TRUE)
      BY <1>1, <2>2 DEF IInv, FallsSound
    <3>2. PICK i \in 1..Len(saved), k \in 1..Len(saved) : i = a.index /\ k = b.index
      BY <1>1, <2>2 DEF IInv, Typing
    <3>3. saved \in Seq(0..100) /\ Len(saved) \in Nat
      BY <1>1 DEF IInv, Typing
    <3>4. rows[TheRow].critical \in 0..100
      BY <1>1, <3>1 DEF IInv, Typing, SettingsOK, Fell
    <3>5. saved[i] < rows[TheRow].critical /\ saved[k - 1] >= rows[TheRow].critical
      BY <2>2, <3>1, <3>2, <3>3 DEF Fell
    <3>6. saved[i] \in 0..100
      BY <3>3, ElementOfSeq
    <3>7. k - 1 # i
      <4> DEFINE x == saved[i]
                 c == rows[TheRow].critical
      <4>1. x \in 0..100
        BY <3>6
      <4>3. c \in 0..100
        BY <3>4
      <4>4. x < c
        BY <3>5
      <4>2. k - 1 = i => x >= c
        BY <3>5
      <4> HIDE DEF x, c
      <4> QED BY <4>1, <4>2, <4>3, <4>4
    <3> QED BY <2>2, <3>2, <3>3, <3>5, <3>7
  <2> QED BY <2>1, <2>2 DEF FallToldOnce
<1> QED BY <1>1, AlertsInvariance, PTL

\* A batch of alerts on scores is stored no sooner after another one than the window of
\* its configuration says, unless the configuration changed or the check came before
\* the other batch (check_snapshot_alerts): the row that was stamped is the one the
\* check reads.
THEOREM BatchesAreSpaced == Spec => BatchesSpaced
<1> DEFINE Spaced ==
      \A t \in Tasks :
        /\ task[t].pc = "tell" /\ task'[t].pc = "idle"
        /\ Len(alerts') > Len(alerts) /\ batch'.age = 0
        /\ ~task[t].overtaken /\ batch.era = era
        => batch.age >= rows[task[t].row].window
<1>1. IInv => [Spaced]_vars
  BY DEF IInv, WindowsSound
<1> HIDE DEF Spaced
<1>2. Spec => [][Spaced]_vars
  BY <1>1, AlertsInvariance, PTL DEF Spec
<1> QED BY <1>2 DEF Spaced, BatchesSpaced

=============================================================================
