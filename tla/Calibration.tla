----------------------------- MODULE Calibration -----------------------------
(***************************************************************************)
(* Calibration configs and A/B experiments (worker/calibration/experiment.py, *)
(* worker/tasks/calibration.py, api/routers/calibration.py): which config is *)
(* active, which experiment runs, what samples the finished runs leave, and   *)
(* the weights a process scores with (worker/scoring/calculator_v2.py).       *)
(*                                                                         *)
(* Requests of admins, runs that collect samples and restarts interleave: a  *)
(* request reads in one step and commits in a later one, with nothing that   *)
(* would notice a change between (READ COMMITTED, no version column).  A      *)
(* request the code refuses changes nothing and is not a step.               *)
(***************************************************************************)
EXTENDS Naturals, Sequences, FiniteSets

CONSTANTS
  Configs,       \* calibration configs
  Experiments,
  Sites,
  Admins,        \* requests that may be open at once
  Collectors,    \* runs that may collect samples at once
  Control,       \* the control config of each experiment
  Treatment,     \* the treatment config of each experiment
  ArmOf,         \* the arm a site falls into, by its hash and the allocation
  MinSamples,    \* min_samples_per_arm
  ChiMin,        \* samples per arm from which the chi-squared test is made
  MaxRequests,   \* bound: requests of admins
  MaxBatches,    \* bound: batches of samples
  Default        \* no config: DEFAULT_PILLAR_WEIGHTS

Arms == {"control", "treatment"}

ASSUME CalibrationAssumption ==
  /\ Control \in [Experiments -> Configs]
  /\ Treatment \in [Experiments -> Configs]
  /\ ArmOf \in [Experiments -> [Sites -> Arms]]
  /\ {MinSamples, ChiMin, MaxRequests, MaxBatches} \subseteq Nat
  /\ ChiMin > 0
  /\ Default \notin Configs

VARIABLES
  active,    \* the configs with is_active
  status,    \* the status of each experiment
  started,   \* the experiments in the order they were started, again included
  winner,    \* the winner of each experiment
  samples,   \* the stored samples; n tells apart those that are alike
  admin,     \* what each request has read
  collector, \* what each collecting run has read
  cached,    \* the weights the process scores with
  requests, batches,   \* counted against the bounds
  crossed    \* history: two requests were open at once

vars == <<active, status, started, winner, samples, admin, collector, cached,
          requests, batches, crossed>>

Outcomes == {"right", "wrong", "unknown"}
Rows == [exp : Experiments, site : Sites, config : Configs, outcome : Outcomes, n : Nat]

Free == [op |-> "none"]
Open ==
  [op : {"activate"}, config : Configs, old : SUBSET Configs]
    \cup [op : {"start"}, exp : Experiments]
    \cup [op : {"conclude"}, exp : Experiments, activate : BOOLEAN]
    \cup [op : {"conclusion"}, exp : Experiments, activate : BOOLEAN,
          winner : Arms \cup {"none"}]
Reading == [exp : Experiments, site : Sites, config : Configs]

Init ==
  /\ active \in {{}} \cup {{c} : c \in Configs}
  /\ status = [e \in Experiments |-> "draft"]
  /\ started = <<>>
  /\ winner = [e \in Experiments |-> "undecided"]
  /\ samples = {}
  /\ admin = [a \in Admins |-> Free]
  /\ collector = [k \in Collectors |-> Free]
  /\ cached = IF active = {} THEN Default ELSE CHOOSE c \in active : TRUE
  /\ requests = 0
  /\ batches = 0
  /\ crossed = FALSE

Running == {e \in Experiments : status[e] = "running"}

\* A new request: it is counted, and noted when another one is open.
Opens(a, req) ==
  /\ admin[a] = Free
  /\ requests < MaxRequests
  /\ admin' = [admin EXCEPT ![a] = req]
  /\ requests' = requests + 1
  /\ crossed' = (crossed \/ \E b \in Admins : admin[b] # Free)

Closes(a) ==
  /\ admin' = [admin EXCEPT ![a] = Free]
  /\ UNCHANGED <<requests, crossed>>

-----------------------------------------------------------------------------
(* activate_calibration_config.  An active config is refused; with two active *)
(* ones scalar_one_or_none raises and the request fails.                      *)

ActivateRead(a, c) ==
  /\ c \notin active
  /\ Cardinality(active) <= 1
  /\ Opens(a, [op |-> "activate", config |-> c, old |-> active])
  /\ UNCHANGED <<active, status, started, winner, samples, collector, cached, batches>>

\* What a commit leaves active.
ActivatedBeside(old, c) == active \cup {c}
Activated(old, c) == (active \ old) \cup {c}

ActivateCommit(a) ==
  /\ admin[a].op = "activate"
  /\ active' = Activated(admin[a].old, admin[a].config)
  /\ Closes(a)
  /\ UNCHANGED <<status, started, winner, samples, collector, cached, batches>>

-----------------------------------------------------------------------------
(* start_experiment: a draft, with no experiment running. *)

MayStart(e) == status[e] = "draft" /\ Running = {}

StartRead(a, e) ==
  /\ MayStart(e)
  /\ Opens(a, [op |-> "start", exp |-> e])
  /\ UNCHANGED <<active, status, started, winner, samples, collector, cached, batches>>

StartCommit(a) ==
  /\ admin[a].op = "start"
  /\ LET e == admin[a].exp
     IN  /\ status' = [status EXCEPT ![e] = "running"]
         /\ started' = Append(started, e)
  /\ Closes(a)
  /\ UNCHANGED <<active, winner, samples, collector, cached, batches>>

-----------------------------------------------------------------------------
(* conclude_experiment, which analyzes in a session of its own. *)

Config(e, arm) == IF arm = "treatment" THEN Treatment[e] ELSE Control[e]

\* How many samples of an arm had an outcome in os.
Counted(e, arm, os) ==
  Cardinality({r \in samples : r.exp = e /\ r.config = Config(e, arm) /\ r.outcome \in os})
Known(e, arm) == Counted(e, arm, {"right", "wrong"})
Right(e, arm) == Counted(e, arm, {"right"})

HasEnough(e) == \A arm \in Arms : Known(e, arm) >= MinSamples

\* There is a p-value: enough samples, and both rights and wrongs among them
\* (chi2_contingency raises on a column of zeros).
Tested(e) ==
  /\ \A arm \in Arms : Known(e, arm) >= ChiMin
  /\ \E arm \in Arms : Right(e, arm) > 0
  /\ \E arm \in Arms : Right(e, arm) < Known(e, arm)

Ahead(e, x, y) == Right(e, x) * Known(e, y) > Right(e, y) * Known(e, x)

\* The winners an analysis may find: the test itself, which needs a
\* difference, is left open.
Winners(e) ==
  {"none"} \cup {x \in Arms : \E y \in Arms : Ahead(e, x, y)}

ConcludeRead(a, e, activate) ==
  /\ status[e] = "running"
  /\ Opens(a, [op |-> "conclude", exp |-> e, activate |-> activate])
  /\ UNCHANGED <<active, status, started, winner, samples, collector, cached, batches>>

ConcludeAnalyze(a) ==
  /\ admin[a].op = "conclude"
  /\ HasEnough(admin[a].exp)
  /\ Tested(admin[a].exp)
  /\ \E w \in Winners(admin[a].exp) :
        admin' = [admin EXCEPT ![a] =
          [op |-> "conclusion", exp |-> @.exp, activate |-> @.activate, winner |-> w]]
  /\ UNCHANGED <<active, status, started, winner, samples, collector, cached,
                 requests, batches, crossed>>

\* Too few samples; or no p-value, and the wording of the reason raises.
ConcludeFails(a) ==
  /\ admin[a].op = "conclude"
  /\ ~HasEnough(admin[a].exp) \/ ~Tested(admin[a].exp)
  /\ Closes(a)
  /\ UNCHANGED <<active, status, started, winner, samples, collector, cached, batches>>

\* The configs a conclusion leaves active.
ActiveAfter(c) ==
  IF c.activate /\ c.winner \in Arms THEN {Config(c.exp, c.winner)} ELSE active

ConcludeCommit(a) ==
  /\ admin[a].op = "conclusion"
  /\ status' = [status EXCEPT ![admin[a].exp] = "concluded"]
  /\ winner' = [winner EXCEPT ![admin[a].exp] = admin[a].winner]
  /\ active' = ActiveAfter(admin[a])
  /\ Closes(a)
  /\ UNCHANGED <<started, samples, collector, cached, batches>>

-----------------------------------------------------------------------------
(* collect_calibration_samples of a run of a site; samples outside an          *)
(* experiment are left out.                                                   *)

\* Of the running experiments, the one started last.
Current ==
  {e \in Running : \E i \in 1..Len(started) :
     started[i] = e /\ \A j \in i + 1..Len(started) : started[j] \notin Running}

\* get_experiment_arm: the same arm for a site at every run.
ArmsOfRun(e, s) == Arms
ArmsOf(e, s) == {ArmOf[e][s]}

CollectRead(k, s) ==
  /\ collector[k] = Free
  /\ batches < MaxBatches
  /\ Cardinality(active) <= 1
  /\ \E e \in Current : \E arm \in ArmsOf(e, s) :
        collector' = [collector EXCEPT ![k] =
          [exp |-> e, site |-> s, config |-> Config(e, arm)]]
  /\ batches' = batches + 1
  /\ UNCHANGED <<active, status, started, winner, samples, admin, cached, requests, crossed>>

CollectCommit(k, o) ==
  /\ collector[k] # Free
  /\ LET read == collector[k]
         alike == {r \in samples : /\ r.exp = read.exp /\ r.site = read.site
                                   /\ r.config = read.config /\ r.outcome = o}
     IN  samples' = samples \cup
           {[exp |-> read.exp, site |-> read.site, config |-> read.config, outcome |-> o,
             n |-> Cardinality(alike) + 1]}
  /\ collector' = [collector EXCEPT ![k] = Free]
  /\ UNCHANGED <<active, status, started, winner, admin, cached, requests, batches, crossed>>

-----------------------------------------------------------------------------
(* load_active_calibration_weights, called when a process starts only.  With   *)
(* two active configs it raises and falls back to the defaults.               *)

Loaded == IF Cardinality(active) = 1 THEN CHOOSE c \in active : TRUE ELSE Default

\* The worker stops, with its collecting runs, and starts again.
Restart ==
  /\ cached' = Loaded
  /\ collector' = [k \in Collectors |-> Free]
  /\ UNCHANGED <<active, status, started, winner, samples, admin, requests, batches, crossed>>

Next ==
  \/ \E a \in Admins :
       \/ \E c \in Configs : ActivateRead(a, c)
       \/ ActivateCommit(a)
       \/ \E e \in Experiments : StartRead(a, e)
       \/ StartCommit(a)
       \/ \E e \in Experiments, activate \in BOOLEAN : ConcludeRead(a, e, activate)
       \/ ConcludeAnalyze(a)
       \/ ConcludeFails(a)
       \/ ConcludeCommit(a)
  \/ \E k \in Collectors :
       \/ \E s \in Sites : CollectRead(k, s)
       \/ \E o \in Outcomes : CollectCommit(k, o)
  \/ Restart

Spec == Init /\ [][Next]_vars

-----------------------------------------------------------------------------

\* Every variable keeps its type.
TypeOK ==
  /\ active \subseteq Configs
  /\ status \in [Experiments -> {"draft", "running", "concluded"}]
  /\ started \in Seq(Experiments)
  /\ winner \in [Experiments -> Arms \cup {"none", "undecided"}]
  /\ samples \subseteq Rows /\ IsFiniteSet(samples)
  /\ admin \in [Admins -> Open \cup {Free}]
  /\ collector \in [Collectors -> Reading \cup {Free}]
  /\ cached \in Configs \cup {Default}
  /\ requests \in 0..MaxRequests
  /\ batches \in 0..MaxBatches
  /\ crossed \in BOOLEAN

\* However its runs interleave with experiments that start and end, a site has
\* samples in one arm of an experiment only.
OneArmPerSite ==
  \A j, k \in samples : j.exp = k.exp /\ j.site = k.site => j.config = k.config

\* An arm wins only on enough samples of both, those of a conclusion made twice
\* or of an experiment that was started again included.
WinnerHasSamples ==
  \A e \in Experiments : winner[e] \in Arms =>
    \A arm \in Arms : Known(e, arm) >= MinSamples

\* An experiment compares two groups of sites, and is decided by enough of both.
ExperimentIsSound == TypeOK /\ OneArmPerSite /\ WinnerHasSamples

\* As long as no two requests are open at once, at most one config is active and
\* at most one experiment runs.
OneWithoutCrossing ==
  ~crossed => Cardinality(active) <= 1 /\ Cardinality(Running) <= 1

=============================================================================
