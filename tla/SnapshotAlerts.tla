--------------------------- MODULE SnapshotAlerts ---------------------------
(***************************************************************************)
(* The alerts of one site.  A snapshot job compares its scores with the     *)
(* snapshot before it and stores alerts (worker/tasks/monitoring.py,        *)
(* api/services/alert_service.py); the owner reads, changes and deletes the *)
(* configuration of the alerts and answers them from several tabs           *)
(* (api/routers/alerts.py).                                                 *)
(*                                                                         *)
(* A configuration is read in one step and written in a later one.  Only    *)
(* columns that differ from what was read are written; the UPDATE of a row  *)
(* deleted in between matches nothing and rolls its transaction back.       *)
(* Nothing keeps the configuration of a site unique, and a query for one    *)
(* row that finds two raises, so every handler that reads it then fails.    *)
(*                                                                         *)
(* Time is relative: an age is a number of ticks, and no age above the      *)
(* longest window matters.                                                  *)
(***************************************************************************)
EXTENDS Integers, Sequences, FiniteSets

CONSTANTS
  Tasks,         \* the workers that can run a snapshot job of the site
  Tabs,          \* the windows the owner has open
  Outcomes,      \* what an audit can find: score_typical and mention_rate
  NoRate,        \* the mention rate of an audit without observation
  Default,       \* the settings of a new row
  Patches,       \* the changes of settings a request can carry
  MaxWindow,     \* the longest min_hours_between_alerts, in ticks
  MaxSnapshots,  \* bound: snapshot jobs
  MaxRequests,   \* bound: requests for the configuration
  MaxAnswers,    \* bound: requests that acknowledge or dismiss
  MaxFailures    \* bound: failures of a snapshot job

ASSUME AlertsAssumption ==
  /\ \A o \in Outcomes : o.score \in 0..100 /\ o.rate \in (0..100) \cup {NoRate}
  /\ NoRate \notin 0..100
  /\ MaxWindow \in Nat \ {0}
  /\ {"critical", "window", "age"} \subseteq DOMAIN Default
  /\ Default.window \in 1..MaxWindow
  /\ Default.critical \in 0..100
  /\ Default.age = MaxWindow
  /\ \A p \in Patches :
       /\ DOMAIN p \subseteq DOMAIN Default \ {"age"}
       /\ "window" \in DOMAIN p => p.window \in 1..MaxWindow
       /\ "critical" \in DOMAIN p => p.critical \in 0..100

VARIABLES
  rows,      \* alert_configs of the site, by id: settings and the age of the last alert
  latest,    \* the newest snapshot, or NoSnapshot
  task,      \* what each snapshot job is in the middle of
  tab,       \* what the request of each tab is in the middle of
  alerts,    \* the alerts table, in the order of creation
  used,      \* how much of each bound is used up
  saved,     \* the scores of the snapshots, in the order they were stored (history)
  era,       \* how often the configuration was changed (history)
  batch,     \* when scores were last told of: the age and the era (history)
  falls      \* the critical alerts: snapshot, era, and whether it knew the
             \* snapshot before it (history)

vars == <<rows, latest, task, tab, alerts, used, saved, era, batch, falls>>
history == <<saved, era, batch, falls>>

NoSnapshot == [score |-> 0 - 1, rate |-> NoRate]
Kinds == {"drop", "improvement", "critical", "mention_drop", "mention_improvement", "failed"}

NoRow == 0
IdleTask == [pc |-> "idle", prev |-> NoSnapshot, new |-> NoSnapshot, row |-> NoRow, due |-> {},
             index |-> 0, fresh |-> TRUE, era |-> 0, overtaken |-> FALSE]
IdleTab == [pc |-> "idle", row |-> NoRow, read |-> << >>, patch |-> << >>]

Init ==
  /\ rows = << >>
  /\ latest = NoSnapshot
  /\ task = [t \in Tasks |-> IdleTask]
  /\ tab = [u \in Tabs |-> IdleTab]
  /\ alerts = << >>
  /\ used = [snapshots |-> 0, requests |-> 0, answers |-> 0, failures |-> 0, ids |-> 0]
  /\ saved = << >>
  /\ era = 0
  /\ batch = [age |-> MaxWindow, era |-> 0]
  /\ falls = {}

Use(b, max) == used[b] < max /\ used' = [used EXCEPT ![b] = @ + 1]
Several == Cardinality(DOMAIN rows) > 1
TheRow == CHOOSE i \in DOMAIN rows : TRUE
Older(age) == IF age < MaxWindow THEN age + 1 ELSE age

-----------------------------------------------------------------------------
\* The snapshot job

\* The previous snapshot is read before the audit, which takes minutes.
Start(t) ==
  /\ task[t].pc = "idle"
  /\ Use("snapshots", MaxSnapshots)
  /\ task' = [task EXCEPT ![t] = [IdleTask EXCEPT !.pc = "audit", !.prev = latest]]
  /\ UNCHANGED <<rows, latest, tab, alerts, history>>

\* The report is compared with the snapshot read at the start.
Save(t, new) ==
  /\ task[t].pc = "audit"
  /\ latest' = new
  /\ task' = [o \in Tasks |->
                IF o = t THEN [task[t] EXCEPT !.pc = "check", !.new = new, !.index = Len(saved) + 1]
                ELSE IF task[o].pc = "audit" THEN [task[o] EXCEPT !.fresh = FALSE]
                ELSE task[o]]
  /\ saved' = Append(saved, new.score)
  /\ UNCHANGED <<rows, tab, alerts, used, era, batch, falls>>

\* The audit fails, or saving or scheduling does after the snapshot is stored.
Fail(t) ==
  /\ task[t].pc \in {"audit", "check"}
  /\ Use("failures", MaxFailures)
  /\ task' = [task EXCEPT ![t].pc = "failed"]
  /\ UNCHANGED <<rows, latest, tab, alerts, history>>

\* The worker is killed: nobody cleans up, a pending transaction is lost.
Crash(t) ==
  /\ task[t].pc # "idle"
  /\ Use("failures", MaxFailures)
  /\ task' = [task EXCEPT ![t] = IdleTask]
  /\ UNCHANGED <<rows, latest, tab, alerts, history>>

\* mention_rate_delta is computed from two known rates only.
Comparable(a, b) == a # NoRate /\ b # NoRate /\ a # b

\* Mutant: critical whenever the score is low.
FellBelowNow(prev, new, threshold) == new.score < threshold
\* The critical alert is for the first snapshot below the threshold.
FellBelow(prev, new, threshold) ==
  /\ new.score < threshold
  /\ prev = NoSnapshot \/ prev.score >= threshold

\* The conditions of check_snapshot_alerts, by the kind of alert.
Holds(kind, s, prev, new) ==
  LET known == prev # NoSnapshot
      delta == new.score - prev.score IN
  CASE kind = "drop"        -> known /\ delta < 0 - s.drop
    [] kind = "improvement" -> known /\ delta >= s.improvement
    [] kind = "critical"    -> FellBelow(prev, new, s.critical)
    [] kind = "mention_drop" ->
         known /\ Comparable(prev.rate, new.rate) /\ prev.rate - new.rate >= s.rate
    [] kind = "mention_improvement" ->
         known /\ Comparable(prev.rate, new.rate) /\ new.rate - prev.rate >= s.rate
    [] OTHER -> FALSE

Due(s, prev, new) == {k \in s.kinds : Holds(k, s, prev, new)}

\* Mutant: a rate limit that lets the alert of the last tick of a window out.
LimitedButLast(s) == s.age < s.window - 1
Limited(s) == s.age < s.window
OneRow == Cardinality(DOMAIN rows) = 1

\* check_snapshot_alerts up to the first INSERT.  Without a configuration, with
\* alerts off, within the window and with two rows (the exception is caught)
\* nothing is told.
Check(t) ==
  /\ task[t].pc = "check"
  /\ LET s == rows[TheRow]
         due == IF OneRow /\ s.enabled /\ ~Limited(s)
                THEN Due(s, task[t].prev, task[t].new) ELSE {} IN
     task' = [task EXCEPT ![t] = IF due = {} THEN IdleTask
                                 ELSE [@ EXCEPT !.pc = "tell", !.row = TheRow, !.due = due,
                                                !.era = era]]
  /\ UNCHANGED <<rows, latest, tab, alerts, used, history>>

New(kind) == [kind |-> kind, status |-> "pending", acknowledged |-> FALSE, dismissed |-> FALSE]
NewIf(kind, due) == IF kind \in due THEN <<New(kind)>> ELSE << >>
Batch(due) ==
  NewIf("drop", due) \o NewIf("improvement", due) \o NewIf("critical", due)
    \o NewIf("mention_drop", due) \o NewIf("mention_improvement", due)

Stamped(s) == [s EXCEPT !.age = 0]

\* The alerts and the time of the alert are one transaction.  The UPDATE of a
\* row deleted in between raises, and no alert is stored.
Tell(t) ==
  /\ task[t].pc = "tell"
  /\ IF task[t].row \in DOMAIN rows
     THEN /\ alerts' = alerts \o Batch(task[t].due)
          /\ rows' = [rows EXCEPT ![task[t].row] = Stamped(@)]
          /\ batch' = [age |-> 0, era |-> era]
          /\ falls' = IF "critical" \in task[t].due
                      THEN falls \cup {[index |-> task[t].index, fresh |-> task[t].fresh,
                                       era |-> task[t].era]}
                      ELSE falls
     ELSE UNCHANGED <<alerts, rows, batch, falls>>
  /\ task' = [o \in Tasks |->
                IF o = t THEN IdleTask
                ELSE IF task[o].pc = "tell" THEN [task[o] EXCEPT !.overtaken = TRUE]
                ELSE task[o]]
  /\ UNCHANGED <<latest, tab, used, saved, era>>

\* create_snapshot_failed_alert: no window applies, and none is opened.
CheckFailed(t) ==
  /\ task[t].pc = "failed"
  /\ task' = [task EXCEPT ![t] =
                IF OneRow /\ rows[TheRow].enabled /\ "failed" \in rows[TheRow].kinds
                THEN [@ EXCEPT !.pc = "tellFailed"] ELSE IdleTask]
  /\ UNCHANGED <<rows, latest, tab, alerts, used, history>>

TellFailed(t) ==
  /\ task[t].pc = "tellFailed"
  /\ alerts' = Append(alerts, New("failed"))
  /\ task' = [task EXCEPT ![t] = IdleTask]
  /\ UNCHANGED <<rows, latest, tab, used, history>>

-----------------------------------------------------------------------------
\* The configuration

\* Every handler first looks for the row; with two rows that raises, and the
\* request changes nothing.
Ask(u, pc, patch) ==
  /\ tab[u].pc = "idle"
  /\ ~Several
  /\ Use("requests", MaxRequests)
  /\ LET row == IF DOMAIN rows = {} THEN NoRow ELSE TheRow IN
     tab' = [tab EXCEPT ![u] = [pc |-> pc, row |-> row, patch |-> patch,
                                read |-> IF row = NoRow THEN Default ELSE rows[row]]]
  /\ UNCHANGED <<rows, latest, task, alerts, history>>

\* GET (an empty patch), POST and PATCH make the row when it is missing.
AskSettings(u, patch) == Ask(u, "set", patch)
AskDelete(u) == Ask(u, "delete", << >>)

\* The settings with those of a patch in their place.
Changed(settings, patch) ==
  [f \in DOMAIN settings |-> IF f \in DOMAIN patch THEN patch[f] ELSE settings[f]]
\* Only columns that differ from what was read are in the UPDATE.
Written(u) ==
  [f \in {f \in DOMAIN tab[u].patch : tab[u].patch[f] # tab[u].read[f]} |-> tab[u].patch[f]]

SetSettings(u) ==
  /\ tab[u].pc = "set"
  /\ \/ /\ tab[u].row = NoRow
        /\ used' = [used EXCEPT !.ids = @ + 1]
        /\ rows' = [i \in DOMAIN rows \cup {used'.ids} |->
                      IF i \in DOMAIN rows THEN rows[i] ELSE Changed(Default, tab[u].patch)]
     \/ /\ tab[u].row \in DOMAIN rows
        /\ rows' = [rows EXCEPT ![tab[u].row] = Changed(@, Written(u))]
        /\ UNCHANGED used
     \/ /\ tab[u].row \notin DOMAIN rows \cup {NoRow}
        /\ UNCHANGED <<rows, used>>
  /\ tab' = [tab EXCEPT ![u] = IdleTab]
  /\ era' = IF rows' = rows THEN era ELSE era + 1
  /\ UNCHANGED <<latest, task, alerts, saved, batch, falls>>

\* Deleting a row that is gone only warns.
DeleteSettings(u) ==
  /\ tab[u].pc = "delete"
  /\ rows' = [i \in DOMAIN rows \ {tab[u].row} |-> rows[i]]
  /\ tab' = [tab EXCEPT ![u] = IdleTab]
  /\ era' = IF rows' = rows THEN era ELSE era + 1
  /\ UNCHANGED <<latest, task, alerts, used, saved, batch, falls>>

-----------------------------------------------------------------------------
\* Answers

\* Both are one UPDATE of the alerts that were not answered this way before.
Acknowledge(ids) ==
  /\ Use("answers", MaxAnswers)
  /\ alerts' = [i \in DOMAIN alerts |->
                  IF i \in ids /\ ~alerts[i].acknowledged
                  THEN [alerts[i] EXCEPT !.status = "acknowledged", !.acknowledged = TRUE]
                  ELSE alerts[i]]
  /\ UNCHANGED <<rows, latest, task, tab, history>>

Dismiss(ids) ==
  /\ Use("answers", MaxAnswers)
  /\ alerts' = [i \in DOMAIN alerts |->
                  IF i \in ids /\ ~alerts[i].dismissed
                  THEN [alerts[i] EXCEPT !.status = "dismissed", !.dismissed = TRUE]
                  ELSE alerts[i]]
  /\ UNCHANGED <<rows, latest, task, tab, history>>

Tick ==
  /\ rows' = [i \in DOMAIN rows |-> [rows[i] EXCEPT !.age = Older(@)]]
  /\ batch' = [batch EXCEPT !.age = Older(@)]
  /\ <<rows', batch'>> # <<rows, batch>>
  /\ UNCHANGED <<latest, task, tab, alerts, used, saved, era, falls>>

SnapshotStep(t) ==
  \/ Start(t)
  \/ \E new \in Outcomes : Save(t, new)
  \/ Fail(t)
  \/ Crash(t)
  \/ Check(t)
  \/ Tell(t)
  \/ CheckFailed(t)
  \/ TellFailed(t)

TabStep(u) ==
  \/ \E p \in Patches : AskSettings(u, p)
  \/ AskDelete(u)
  \/ SetSettings(u)
  \/ DeleteSettings(u)

Answer == \E ids \in SUBSET (DOMAIN alerts) \ {{}} : Acknowledge(ids) \/ Dismiss(ids)

Next ==
  \/ \E t \in Tasks : SnapshotStep(t)
  \/ \E u \in Tabs : TabStep(u)
  \/ Answer
  \/ Tick

Spec == Init /\ [][Next]_vars

-----------------------------------------------------------------------------
\* The tables and the requests under way have the shapes the handlers rely on,
\* and the age of a row is the age of the last batch of alerts told under it or
\* more (AlertConfig, check_snapshot_alerts).
TypeOK ==
  /\ \A i \in DOMAIN rows :
       /\ i \in 1..used.ids
       /\ DOMAIN rows[i] = DOMAIN Default
       /\ rows[i].age \in batch.age..MaxWindow
  /\ latest \in Outcomes \cup {NoSnapshot}
  /\ \A t \in Tasks :
       /\ task[t].pc \in {"idle", "audit", "check", "tell", "failed", "tellFailed"}
       /\ task[t].pc = "tell" => task[t].due # {} /\ task[t].due \subseteq Kinds
  /\ \A u \in Tabs : tab[u].pc \in {"idle", "set", "delete"}
  /\ \A i \in DOMAIN alerts :
       /\ alerts[i].kind \in Kinds
       /\ alerts[i].status = "acknowledged" => alerts[i].acknowledged
       /\ alerts[i].status = "dismissed" => alerts[i].dismissed

\* min_hours_between_alerts keeps two batches of alerts on scores apart, unless
\* the owner changed the configuration in between, or the later check had read
\* the row before the earlier batch was stored (check_snapshot_alerts).
BatchesSpaced ==
  [][\A t \in Tasks :
       /\ task[t].pc = "tell" /\ task'[t].pc = "idle"
       /\ Len(alerts') > Len(alerts) /\ batch'.age = 0
       /\ ~task[t].overtaken /\ batch.era = era
       => batch.age >= rows[task[t].row].window]_vars

\* One fall below the critical threshold is told once: between the snapshots of
\* two critical alerts a snapshot at or above it was stored, unless the later
\* job had read its previous snapshot before another job stored one, or the
\* owner changed the configuration (check_snapshot_alerts, "Only alert if
\* previous was above threshold").
FallToldOnce ==
  TypeOK /\ \A a, b \in falls :
    a.index < b.index /\ b.fresh /\ a.era = b.era /\ b.era = era
    => \E i \in (a.index + 1)..(b.index - 1) : saved[i] >= rows[TheRow].critical

=============================================================================
