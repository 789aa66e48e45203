--------------------------- MODULE CalibrationProofs ---------------------------
(***************************************************************************)
(* The safety of Calibration for all sets of configs, experiments, sites,  *)
(* requests and collecting runs, and for every number of samples asked for; *)
(* what is said of the accuracy of any samples, and what the search for       *)
(* weights may learn from them (LearnedWeights).                             *)
(***************************************************************************)
EXTENDS Calibration, LearnedWeights, FiniteSetTheorems, SequenceTheorems,
        NaturalsInduction, WellFoundedInduction, TLAPS

\* What a collecting run has read, and every sample it stores, names the config
\* of the arm its site falls into.
ReadingsSound ==
  \A k \in Collectors : collector[k] # Free =>
    collector[k].config = Config(collector[k].exp, ArmOf[collector[k].exp][collector[k].site])
RowsSound == \A r \in samples : r.config = Config(r.exp, ArmOf[r.exp][r.site])

\* A request that has analyzed an experiment found enough samples of both arms.
ConclusionsSound ==
  \A a \in Admins : admin[a].op = "conclusion" => HasEnough(admin[a].exp)
WinnersSound == \A e \in Experiments : winner[e] \in Arms => HasEnough(e)

\* As long as no two requests were open at once, the one that is open has read
\* what is still there.
AtMostOne(S) == \A x, y \in S : x = y
Alone ==
  ~crossed =>
    /\ AtMostOne(active) /\ AtMostOne(Running)
    /\ \A a, b \in Admins : admin[a] # Free /\ admin[b] # Free => a = b
    /\ \A a \in Admins :
         /\ admin[a].op = "activate" => admin[a].old = active
         /\ admin[a].op = "start" => Running = {}

\* The inductive invariant.
IInv ==
  /\ TypeOK
  /\ ReadingsSound /\ RowsSound
  /\ ConclusionsSound /\ WinnersSound
  /\ Alone

-----------------------------------------------------------------------------
(* The samples. *)

\* Samples are only added: what had enough of them keeps enough.
LEMMA SamplesGrow ==
  ASSUME IsFiniteSet(samples), samples \subseteq samples', IsFiniteSet(samples'),
         NEW e \in Experiments, HasEnough(e)
  PROVE  HasEnough(e)'
<1> SUFFICES ASSUME NEW arm \in Arms PROVE Known(e, arm)' >= MinSamples
  BY DEF HasEnough
<1> DEFINE Of(S) == {r \in S : /\ r.exp = e /\ r.config = Config(e, arm)
                               /\ r.outcome \in {"right", "wrong"}}
<1>1. Known(e, arm) = Cardinality(Of(samples)) /\ Known(e, arm)' = Cardinality(Of(samples'))
  BY DEF Known, Counted, Config
<1>2. Of(samples) \subseteq Of(samples') /\ Of(samples) \subseteq samples /\ Of(samples') \subseteq samples'
  OBVIOUS
<1> HIDE DEF Of
<1>3. /\ Cardinality(Of(samples)) \in Nat /\ Cardinality(Of(samples')) \in Nat
      /\ Cardinality(Of(samples)) <= Cardinality(Of(samples'))
  BY <1>2, FS_Subset, FS_CardinalityType
<1>4. Known(e, arm) >= MinSamples
  BY DEF HasEnough
<1> QED
  BY <1>1, <1>3, <1>4, CalibrationAssumption

-----------------------------------------------------------------------------
(* The initial state. *)

\* The database starts without experiments, and with at most one active config.
LEMMA InitIInv == Init => IInv
<1> SUFFICES ASSUME Init PROVE IInv
  OBVIOUS
<1> USE CalibrationAssumption
<1>1. active = {} \/ \E c \in Configs : active = {c}
  BY DEF Init
<1>2. TypeOK
  <2>1. active \subseteq Configs /\ cached \in Configs \cup {Default}
    BY <1>1 DEF Init
  <2>2. samples \subseteq Rows /\ IsFiniteSet(samples)
    BY FS_EmptySet DEF Init
  <2>3. started \in Seq(Experiments)
    BY DEF Init
  <2>4. admin \in [Admins -> Open \cup {Free}] /\ collector \in [Collectors -> Reading \cup {Free}]
    BY DEF Init
  <2>5. /\ status \in [Experiments -> {"draft", "running", "concluded"}]
        /\ winner \in [Experiments -> Arms \cup {"none", "undecided"}]
    BY DEF Init
  <2>6. requests \in 0..MaxRequests /\ batches \in 0..MaxBatches /\ crossed \in BOOLEAN
    <3>1. MaxRequests \in Nat /\ MaxBatches \in Nat
      OBVIOUS
    <3>2. requests = 0 /\ batches = 0
      BY DEF Init
    <3>3. crossed \in BOOLEAN
      BY DEF Init
    <3> HIDE CalibrationAssumption
    <3>4. requests \in 0..MaxRequests /\ batches \in 0..MaxBatches
      BY <3>1, <3>2
    <3> QED
      BY <3>3, <3>4
  <2> QED
    BY <2>1, <2>2, <2>3, <2>4, <2>5, <2>6 DEF TypeOK
<1>3. ReadingsSound /\ RowsSound /\ ConclusionsSound /\ WinnersSound
  BY DEF Init, ReadingsSound, RowsSound, ConclusionsSound, WinnersSound, Free, Arms
<1>4. Alone
  BY <1>1 DEF Init, Alone, AtMostOne, Running, Free
<1> QED
  BY <1>2, <1>3, <1>4 DEF IInv

-----------------------------------------------------------------------------
(* The types. *)

\* A request that opens or closes keeps the types of what counts requests.
LEMMA OpensType ==
  ASSUME TypeOK, NEW a \in Admins, NEW req \in Open, Opens(a, req)
  PROVE  admin' \in [Admins -> Open \cup {Free}] /\ requests' \in 0..MaxRequests /\ crossed' \in BOOLEAN
BY CalibrationAssumption DEF TypeOK, Opens

LEMMA ClosesType ==
  ASSUME TypeOK, NEW a \in Admins, Closes(a)
  PROVE  admin' \in [Admins -> Open \cup {Free}] /\ requests' \in 0..MaxRequests /\ crossed' \in BOOLEAN
BY DEF TypeOK, Closes

\* What kind of record a request holds, by its op.
LEMMA OpenKinds ==
  ASSUME TypeOK, NEW a \in Admins
  PROVE  /\ admin[a].op = "activate" => admin[a].config \in Configs /\ admin[a].old \subseteq Configs
         /\ admin[a].op = "start" => admin[a].exp \in Experiments
         /\ admin[a].op = "conclude" => admin[a].exp \in Experiments /\ admin[a].activate \in BOOLEAN
         /\ admin[a].op = "conclusion" =>
              /\ admin[a].exp \in Experiments /\ admin[a].activate \in BOOLEAN
              /\ admin[a].winner \in Arms \cup {"none"}
         /\ admin[a].op \in {"activate", "start", "conclude", "conclusion"} => admin[a] # Free
<1>1. admin[a] \in Open \cup {Free}
  BY DEF TypeOK
<1> QED
  BY <1>1 DEF Open, Free

\* The arms name configs.
LEMMA ConfigType ==
  ASSUME NEW e \in Experiments, NEW arm
  PROVE  Config(e, arm) \in Configs
BY CalibrationAssumption DEF Config

\* The steps of the admins keep the types.
LEMMA AdminType ==
  ASSUME TypeOK, NEW a \in Admins,
         \/ \E c \in Configs : ActivateRead(a, c)
         \/ ActivateCommit(a)
         \/ \E e \in Experiments : StartRead(a, e)
         \/ StartCommit(a)
         \/ \E e \in Experiments, activate \in BOOLEAN : ConcludeRead(a, e, activate)
         \/ ConcludeAnalyze(a)
         \/ ConcludeFails(a)
         \/ ConcludeCommit(a)
  PROVE  TypeOK'
<1>1. ASSUME NEW c \in Configs, ActivateRead(a, c)
      PROVE  TypeOK'
  <2>1. [op |-> "activate", config |-> c, old |-> active] \in Open
    BY DEF TypeOK, Open
  <2>2. admin' \in [Admins -> Open \cup {Free}] /\ requests' \in 0..MaxRequests /\ crossed' \in BOOLEAN
    BY <1>1, <2>1, OpensType DEF ActivateRead
  <2> QED
    BY <1>1, <2>2 DEF ActivateRead, TypeOK
<1>2. CASE ActivateCommit(a)
  <2>1. active' \subseteq Configs
    BY <1>2, OpenKinds DEF ActivateCommit, Activated, TypeOK
  <2>2. admin' \in [Admins -> Open \cup {Free}] /\ requests' \in 0..MaxRequests /\ crossed' \in BOOLEAN
    BY <1>2, ClosesType DEF ActivateCommit
  <2> QED
    BY <1>2, <2>1, <2>2 DEF ActivateCommit, TypeOK
<1>3. ASSUME NEW e \in Experiments, StartRead(a, e)
      PROVE  TypeOK'
  <2>1. [op |-> "start", exp |-> e] \in Open
    BY DEF Open
  <2>2. admin' \in [Admins -> Open \cup {Free}] /\ requests' \in 0..MaxRequests /\ crossed' \in BOOLEAN
    BY <1>3, <2>1, OpensType DEF StartRead
  <2> QED
    BY <1>3, <2>2 DEF StartRead, TypeOK
<1>4. CASE StartCommit(a)
  <2>1. admin[a].exp \in Experiments
    BY <1>4, OpenKinds DEF StartCommit
  <2>2. started' \in Seq(Experiments) /\ status' \in [Experiments -> {"draft", "running", "concluded"}]
    BY <1>4, <2>1 DEF StartCommit, TypeOK
  <2>3. admin' \in [Admins -> Open \cup {Free}] /\ requests' \in 0..MaxRequests /\ crossed' \in BOOLEAN
    BY <1>4, ClosesType DEF StartCommit
  <2> QED
    BY <1>4, <2>2, <2>3 DEF StartCommit, TypeOK
<1>5. ASSUME NEW e \in Experiments, NEW activate \in BOOLEAN, ConcludeRead(a, e, activate)
      PROVE  TypeOK'
  <2>1. [op |-> "conclude", exp |-> e, activate |-> activate] \in Open
    BY DEF Open
  <2>2. admin' \in [Admins -> Open \cup {Free}] /\ requests' \in 0..MaxRequests /\ crossed' \in BOOLEAN
    BY <1>5, <2>1, OpensType DEF ConcludeRead
  <2> QED
    BY <1>5, <2>2 DEF ConcludeRead, TypeOK
<1>6. CASE ConcludeAnalyze(a)
  <2>1. PICK w \in Winners(admin[a].exp) :
          admin' = [admin EXCEPT ![a] = [op |-> "conclusion", exp |-> admin[a].exp,
                                         activate |-> admin[a].activate, winner |-> w]]
    BY <1>6 DEF ConcludeAnalyze
  <2>2. w \in Arms \cup {"none"}
    BY <2>1 DEF Winners
  <2>3. admin[a].exp \in Experiments /\ admin[a].activate \in BOOLEAN
    BY <1>6, OpenKinds DEF ConcludeAnalyze
  <2>4. [op |-> "conclusion", exp |-> admin[a].exp, activate |-> admin[a].activate, winner |-> w] \in Open
    BY <2>2, <2>3 DEF Open
  <2>5. admin' \in [Admins -> Open \cup {Free}]
    BY <2>1, <2>4 DEF TypeOK
  <2> QED
    BY <1>6, <2>5 DEF ConcludeAnalyze, TypeOK
<1>7. CASE ConcludeFails(a)
  <2>1. admin' \in [Admins -> Open \cup {Free}] /\ requests' \in 0..MaxRequests /\ crossed' \in BOOLEAN
    BY <1>7, ClosesType DEF ConcludeFails
  <2> QED
    BY <1>7, <2>1 DEF ConcludeFails, TypeOK
<1>8. CASE ConcludeCommit(a)
  <2>1. admin[a].exp \in Experiments /\ admin[a].winner \in Arms \cup {"none"}
    BY <1>8, OpenKinds DEF ConcludeCommit
  <2>2. active' \subseteq Configs
    BY <1>8, <2>1, ConfigType DEF ConcludeCommit, ActiveAfter, TypeOK
  <2>3. /\ status' \in [Experiments -> {"draft", "running", "concluded"}]
        /\ winner' \in [Experiments -> Arms \cup {"none", "undecided"}]
    BY <1>8, <2>1 DEF ConcludeCommit, TypeOK
  <2>4. admin' \in [Admins -> Open \cup {Free}] /\ requests' \in 0..MaxRequests /\ crossed' \in BOOLEAN
    BY <1>8, ClosesType DEF ConcludeCommit
  <2> QED
    BY <1>8, <2>2, <2>3, <2>4 DEF ConcludeCommit, TypeOK
<1> QED
  BY <1>1, <1>2, <1>3, <1>4, <1>5, <1>6, <1>7, <1>8

\* A collecting run reads an experiment, and stores a row of a config.
LEMMA CollectorType ==
  ASSUME TypeOK, NEW k \in Collectors,
         \/ \E s \in Sites : CollectRead(k, s)
         \/ \E o \in Outcomes : CollectCommit(k, o)
  PROVE  TypeOK'
<1>1. ASSUME NEW s \in Sites, CollectRead(k, s)
      PROVE  TypeOK'
  <2>1. PICK e \in Current : \E arm \in ArmsOf(e, s) :
          collector' = [collector EXCEPT ![k] = [exp |-> e, site |-> s, config |-> Config(e, arm)]]
    BY <1>1 DEF CollectRead
  <2>2. e \in Experiments
    BY DEF Current, Running
  <2>3. collector' \in [Collectors -> Reading \cup {Free}]
    BY <2>1, <2>2, ConfigType DEF Reading, TypeOK
  <2>4. batches' \in 0..MaxBatches
    BY <1>1, CalibrationAssumption DEF CollectRead, TypeOK
  <2> QED
    BY <1>1, <2>3, <2>4 DEF CollectRead, TypeOK
<1>2. ASSUME NEW o \in Outcomes, CollectCommit(k, o)
      PROVE  TypeOK'
  <2> DEFINE alike == {r \in samples : /\ r.exp = collector[k].exp /\ r.site = collector[k].site
                                      /\ r.config = collector[k].config /\ r.outcome = o}
             row == [exp |-> collector[k].exp, site |-> collector[k].site,
                     config |-> collector[k].config, outcome |-> o, n |-> Cardinality(alike) + 1]
  <2>1. samples' = samples \cup {row}
    BY <1>2 DEF CollectCommit
  <2>2. Cardinality(alike) \in Nat
    BY FS_Subset, FS_CardinalityType DEF TypeOK
  <2>3. collector[k] \in Reading
    BY <1>2 DEF CollectCommit, TypeOK
  <2>4. row \in Rows
    BY <2>2, <2>3 DEF Rows, Reading
  <2>5. samples' \subseteq Rows /\ IsFiniteSet(samples')
    <3> HIDE DEF row
    <3> QED
      BY <2>1, <2>4, FS_AddElement DEF TypeOK
  <2>6. collector' \in [Collectors -> Reading \cup {Free}]
    BY <1>2 DEF CollectCommit, TypeOK
  <2> QED
    BY <1>2, <2>5, <2>6 DEF CollectCommit, TypeOK
<1> QED
  BY <1>1, <1>2

\* A restart keeps the types: what is loaded is the one active config.
LEMMA RestartType ==
  ASSUME TypeOK, Restart
  PROVE  TypeOK'
<1>1. Loaded \in Configs \cup {Default}
  <2>1. CASE Cardinality(active) = 1
    <3>1. IsFiniteSet(active) => active # {}
      BY <2>1, FS_EmptySet
    <3>2. active # {}
      BY <2>1, FS_EmptySet
    <3> QED
      BY <2>1, <3>2 DEF Loaded, TypeOK
  <2>2. CASE Cardinality(active) # 1
    BY <2>2 DEF Loaded
  <2> QED
    BY <2>1, <2>2
<1>2. collector' \in [Collectors -> Reading \cup {Free}]
  BY DEF Restart
<1> QED
  BY <1>1, <1>2 DEF Restart, TypeOK

-----------------------------------------------------------------------------
(* The samples and what is concluded from them. *)

\* A run reads the config of its site's arm, and stores what it has read.
LEMMA CollectorSamples ==
  ASSUME IInv, NEW k \in Collectors,
         \/ \E s \in Sites : CollectRead(k, s)
         \/ \E o \in Outcomes : CollectCommit(k, o)
  PROVE  ReadingsSound' /\ RowsSound' /\ samples \subseteq samples'
<1>1. ASSUME NEW s \in Sites, CollectRead(k, s)
      PROVE  ReadingsSound' /\ RowsSound' /\ samples \subseteq samples'
  <2>1. PICK e \in Current :
          collector' = [collector EXCEPT ![k] =
            [exp |-> e, site |-> s, config |-> Config(e, ArmOf[e][s])]]
    BY <1>1 DEF CollectRead, ArmsOf
  <2>2. \A j \in Collectors : collector'[j] =
          IF j = k THEN [exp |-> e, site |-> s, config |-> Config(e, ArmOf[e][s])] ELSE collector[j]
    BY <2>1 DEF IInv, TypeOK
  <2>3. ReadingsSound'
    BY <2>2 DEF IInv, ReadingsSound, Config
  <2>4. samples' = samples
    BY <1>1 DEF CollectRead
  <2> QED
    BY <2>3, <2>4 DEF IInv, RowsSound, Config
<1>2. ASSUME NEW o \in Outcomes, CollectCommit(k, o)
      PROVE  ReadingsSound' /\ RowsSound' /\ samples \subseteq samples'
  <2>1. PICK n : samples' = samples \cup
          {[exp |-> collector[k].exp, site |-> collector[k].site,
            config |-> collector[k].config, outcome |-> o, n |-> n]}
    BY <1>2 DEF CollectCommit
  <2>2. collector[k] # Free
    BY <1>2 DEF CollectCommit
  <2>3. collector[k].config = Config(collector[k].exp, ArmOf[collector[k].exp][collector[k].site])
    BY <2>2 DEF IInv, ReadingsSound
  <2>4. RowsSound'
    BY <2>1, <2>3 DEF IInv, RowsSound, Config
  <2>5. \A j \in Collectors : collector'[j] = IF j = k THEN Free ELSE collector[j]
    BY <1>2 DEF CollectCommit, IInv, TypeOK
  <2>6. ReadingsSound'
    BY <2>5 DEF IInv, ReadingsSound, Config
  <2> QED
    BY <2>1, <2>4, <2>6
<1> QED
  BY <1>1, <1>2

\* What was enough stays enough when only samples are added.
LEMMA ConclusionsKept ==
  ASSUME IInv, TypeOK', samples \subseteq samples', admin' = admin, winner' = winner
  PROVE  ConclusionsSound' /\ WinnersSound'
<1>1. \A e \in Experiments : HasEnough(e) => HasEnough(e)'
  BY SamplesGrow DEF IInv, TypeOK
<1>2. \A a \in Admins : admin[a].op = "conclusion" => admin[a].exp \in Experiments
  BY OpenKinds DEF IInv
<1>3. ASSUME NEW a \in Admins, admin'[a].op = "conclusion"
      PROVE  HasEnough(admin[a].exp)'
  <2>1. admin'[a].exp \in Experiments /\ HasEnough(admin[a].exp)
    BY <1>2, <1>3 DEF IInv, ConclusionsSound
  <2> QED
    BY <1>1, <1>2, <1>3, <2>1
<1>4. \A e \in Experiments : winner'[e] \in Arms => HasEnough(e)'
  BY <1>1 DEF IInv, WinnersSound
<1> QED
  BY <1>3, <1>4 DEF ConclusionsSound, WinnersSound

\* The requests keep what is known of samples and conclusions: a conclusion is
\* reached only with enough samples of both arms, and only it names a winner.
LEMMA AdminConclusions ==
  ASSUME IInv, NEW a \in Admins,
         \/ \E c \in Configs : ActivateRead(a, c)
         \/ ActivateCommit(a)
         \/ \E e \in Experiments : StartRead(a, e)
         \/ StartCommit(a)
         \/ \E e \in Experiments, activate \in BOOLEAN : ConcludeRead(a, e, activate)
         \/ ConcludeAnalyze(a)
         \/ ConcludeFails(a)
         \/ ConcludeCommit(a)
  PROVE  ConclusionsSound' /\ WinnersSound' /\ ReadingsSound' /\ RowsSound'
<1>1. samples' = samples /\ collector' = collector
  BY DEF ActivateRead, ActivateCommit, StartRead, StartCommit, ConcludeRead, ConcludeAnalyze,
         ConcludeFails, ConcludeCommit
<1>2. ReadingsSound' /\ RowsSound'
  BY <1>1 DEF IInv, ReadingsSound, RowsSound, Config
<1>3. \A e : HasEnough(e)' <=> HasEnough(e)
  BY <1>1 DEF HasEnough, Known, Counted, Config
<1>4. \A b \in Admins \ {a} : admin'[b] = admin[b]
  BY DEF IInv, TypeOK, ActivateRead, ActivateCommit, StartRead, StartCommit, ConcludeRead,
         ConcludeAnalyze, ConcludeFails, ConcludeCommit, Opens, Closes
<1>5. admin'[a].op = "conclusion" => HasEnough(admin'[a].exp)
  <2>1. CASE ConcludeAnalyze(a)
    BY <2>1 DEF IInv, TypeOK, ConcludeAnalyze
  <2>2. CASE \/ \E c \in Configs : ActivateRead(a, c)
             \/ \E e \in Experiments : StartRead(a, e)
             \/ \E e \in Experiments, activate \in BOOLEAN : ConcludeRead(a, e, activate)
    BY <2>2 DEF IInv, TypeOK, ActivateRead, StartRead, ConcludeRead, Opens
  <2>3. CASE ActivateCommit(a) \/ StartCommit(a) \/ ConcludeFails(a) \/ ConcludeCommit(a)
    BY <2>3 DEF IInv, TypeOK, ActivateCommit, StartCommit, ConcludeFails, ConcludeCommit, Closes, Free
  <2> QED
    BY <2>1, <2>2, <2>3
<1>6. ConclusionsSound'
  <2> SUFFICES ASSUME NEW b \in Admins, admin'[b].op = "conclusion"
               PROVE  HasEnough(admin[b].exp)'
    BY DEF ConclusionsSound
  <2>1. HasEnough(admin'[b].exp)
    BY <1>4, <1>5 DEF IInv, ConclusionsSound
  <2> QED
    BY <1>3, <2>1
<1>7. WinnersSound'
  <2>1. CASE ConcludeCommit(a)
    <3>1. admin[a].op = "conclusion" /\ HasEnough(admin[a].exp)
      BY <2>1 DEF ConcludeCommit, IInv, ConclusionsSound
    <3>2. \A e \in Experiments : winner'[e] = IF e = admin[a].exp THEN admin[a].winner ELSE winner[e]
      BY <2>1 DEF ConcludeCommit, IInv, TypeOK
    <3> QED
      BY <1>3, <3>1, <3>2 DEF IInv, WinnersSound
  <2>2. CASE winner' = winner
    BY <1>3, <2>2 DEF IInv, WinnersSound
  <2> QED
    BY <2>1, <2>2 DEF ActivateRead, ActivateCommit, StartRead, StartCommit, ConcludeRead,
                      ConcludeAnalyze, ConcludeFails
<1> QED
  BY <1>2, <1>6, <1>7

-----------------------------------------------------------------------------
(* One active config and one running experiment. *)

\* A request that opens alone has read what is there now.
LEMMA OpensAlone ==
  ASSUME IInv, NEW a \in Admins, NEW req \in Open, Opens(a, req),
         active' = active, status' = status,
         req.op = "activate" => req.old = active,
         req.op = "start" => Running = {}
  PROVE  Alone'
<1>1. Running' = Running
  BY DEF Running
<1>2. \A b \in Admins : admin'[b] = IF b = a THEN req ELSE admin[b]
  BY DEF Opens, IInv, TypeOK
<1>3. ~crossed' => ~crossed /\ \A b \in Admins : admin[b] = Free
  BY DEF Opens
<1> QED
  BY <1>1, <1>2, <1>3 DEF IInv, Alone, AtMostOne, Free

\* When the one open request closes none is open, whatever it commits as long as
\* that is one config and one experiment.
LEMMA ClosesAlone ==
  ASSUME IInv, NEW a \in Admins, admin[a] # Free, Closes(a),
         ~crossed => AtMostOne(active') /\ AtMostOne(Running')
  PROVE  Alone'
<1>1. \A b \in Admins : admin'[b] = IF b = a THEN Free ELSE admin[b]
  BY DEF Closes, IInv, TypeOK
<1>2. crossed' = crossed
  BY DEF Closes
<1>3. ~crossed => \A b \in Admins : admin'[b] = Free
  BY <1>1 DEF IInv, Alone
<1> QED
  BY <1>2, <1>3 DEF Alone, AtMostOne, Free

\* The requests of the admins, one by one.
LEMMA AdminAlone ==
  ASSUME IInv, NEW a \in Admins,
         \/ \E c \in Configs : ActivateRead(a, c)
         \/ ActivateCommit(a)
         \/ \E e \in Experiments : StartRead(a, e)
         \/ StartCommit(a)
         \/ \E e \in Experiments, activate \in BOOLEAN : ConcludeRead(a, e, activate)
         \/ ConcludeAnalyze(a)
         \/ ConcludeFails(a)
         \/ ConcludeCommit(a)
  PROVE  Alone'
<1>0. TypeOK
  BY DEF IInv
<1>1. ASSUME NEW c \in Configs, ActivateRead(a, c)
      PROVE  Alone'
  <2>1. [op |-> "activate", config |-> c, old |-> active] \in Open
    BY <1>0 DEF TypeOK, Open
  <2> QED
    BY <1>1, <2>1, OpensAlone DEF ActivateRead
<1>2. CASE ActivateCommit(a)
  <2>1. admin[a] # Free
    BY <1>0, <1>2, OpenKinds DEF ActivateCommit
  <2>2. ~crossed => active' = {admin[a].config}
    BY <1>2 DEF ActivateCommit, Activated, IInv, Alone
  <2>3. Running' = Running
    BY <1>2 DEF ActivateCommit, Running
  <2>4. ~crossed => AtMostOne(active') /\ AtMostOne(Running')
    BY <2>2, <2>3 DEF IInv, Alone, AtMostOne
  <2> QED
    BY <1>2, <2>1, <2>4, ClosesAlone DEF ActivateCommit
<1>3. ASSUME NEW e \in Experiments, StartRead(a, e)
      PROVE  Alone'
  <2>1. [op |-> "start", exp |-> e] \in Open
    BY DEF Open
  <2> QED
    BY <1>3, <2>1, OpensAlone DEF StartRead, MayStart
<1>4. CASE StartCommit(a)
  <2>1. admin[a] # Free /\ admin[a].exp \in Experiments
    BY <1>0, <1>4, OpenKinds DEF StartCommit
  <2>2. Running' = Running \cup {admin[a].exp}
    BY <1>0, <1>4, <2>1 DEF StartCommit, Running, TypeOK
  <2>3. ~crossed => Running = {}
    BY <1>4 DEF StartCommit, IInv, Alone
  <2>4. ~crossed => AtMostOne(active') /\ AtMostOne(Running')
    BY <1>4, <2>2, <2>3 DEF StartCommit, IInv, Alone, AtMostOne
  <2> QED
    BY <1>4, <2>1, <2>4, ClosesAlone DEF StartCommit
<1>5. ASSUME NEW e \in Experiments, NEW activate \in BOOLEAN, ConcludeRead(a, e, activate)
      PROVE  Alone'
  <2>1. [op |-> "conclude", exp |-> e, activate |-> activate] \in Open
    BY DEF Open
  <2> QED
    BY <1>5, <2>1, OpensAlone DEF ConcludeRead
<1>6. CASE ConcludeAnalyze(a)
  <2>1. Running' = Running /\ active' = active /\ crossed' = crossed
    BY <1>6 DEF ConcludeAnalyze, Running
  <2>2. admin[a] # Free
    BY <1>0, <1>6, OpenKinds DEF ConcludeAnalyze
  <2>3. \A b \in Admins \ {a} : admin'[b] = admin[b]
    BY <1>0, <1>6 DEF ConcludeAnalyze, TypeOK
  <2>4. admin'[a].op = "conclusion"
    BY <1>0, <1>6 DEF ConcludeAnalyze, TypeOK
  <2> QED
    BY <2>1, <2>2, <2>3, <2>4 DEF IInv, Alone, AtMostOne
<1>7. CASE ConcludeFails(a)
  <2>1. admin[a] # Free
    BY <1>0, <1>7, OpenKinds DEF ConcludeFails
  <2>2. Running' = Running /\ active' = active
    BY <1>7 DEF ConcludeFails, Running
  <2> QED
    BY <1>7, <2>1, <2>2, ClosesAlone DEF ConcludeFails, IInv, Alone, AtMostOne
<1>8. CASE ConcludeCommit(a)
  <2>1. admin[a] # Free /\ admin[a].exp \in Experiments
    BY <1>0, <1>8, OpenKinds DEF ConcludeCommit
  <2>2. Running' \subseteq Running
    BY <1>0, <1>8, <2>1 DEF ConcludeCommit, Running, TypeOK
  <2>3. active' = active \/ \E c : active' = {c}
    BY <1>8 DEF ConcludeCommit, ActiveAfter
  <2>4. ~crossed => AtMostOne(active') /\ AtMostOne(Running')
    BY <2>2, <2>3 DEF IInv, Alone, AtMostOne
  <2> QED
    BY <1>8, <2>1, <2>4, ClosesAlone DEF ConcludeCommit
<1> QED
  BY <1>1, <1>2, <1>3, <1>4, <1>5, <1>6, <1>7, <1>8

-----------------------------------------------------------------------------
(* The invariant. *)

\* Every step keeps the invariant.
LEMMA NextIInv == IInv /\ [Next]_vars => IInv'
<1> SUFFICES ASSUME IInv, [Next]_vars PROVE IInv'
  OBVIOUS
<1>1. ASSUME NEW a \in Admins,
             \/ \E c \in Configs : ActivateRead(a, c)
             \/ ActivateCommit(a)
             \/ \E e \in Experiments : StartRead(a, e)
             \/ StartCommit(a)
             \/ \E e \in Experiments, activate \in BOOLEAN : ConcludeRead(a, e, activate)
             \/ ConcludeAnalyze(a)
             \/ ConcludeFails(a)
             \/ ConcludeCommit(a)
      PROVE  IInv'
  <2>1. TypeOK'
    BY <1>1, AdminType DEF IInv
  <2>2. ConclusionsSound' /\ WinnersSound' /\ ReadingsSound' /\ RowsSound'
    BY <1>1, AdminConclusions
  <2>3. Alone'
    BY <1>1, AdminAlone
  <2> QED
    BY <2>1, <2>2, <2>3 DEF IInv
<1>2. ASSUME NEW k \in Collectors,
             \/ \E s \in Sites : CollectRead(k, s)
             \/ \E o \in Outcomes : CollectCommit(k, o)
      PROVE  IInv'
  <2>1. TypeOK'
    BY <1>2, CollectorType DEF IInv
  <2>2. ReadingsSound' /\ RowsSound' /\ samples \subseteq samples'
    BY <1>2, CollectorSamples
  <2>3. UNCHANGED <<active, status, started, winner, admin, crossed>>
    BY <1>2 DEF CollectRead, CollectCommit
  <2>4. ConclusionsSound' /\ WinnersSound'
    BY <2>1, <2>2, <2>3, ConclusionsKept
  <2>5. Alone'
    BY <2>3 DEF IInv, Alone, AtMostOne, Running
  <2> QED
    BY <2>1, <2>2, <2>4, <2>5 DEF IInv
<1>3. ASSUME Restart \/ UNCHANGED vars
      PROVE  IInv'
  <2>1. TypeOK'
    BY <1>3, RestartType DEF IInv, TypeOK, vars
  <2>2. UNCHANGED <<active, status, started, winner, samples, admin, crossed>>
    BY <1>3 DEF Restart, vars
  <2>3. \A k \in Collectors : collector'[k] \in {Free, collector[k]}
    BY <1>3 DEF Restart, vars
  <2>4. ReadingsSound' /\ RowsSound'
    BY <2>2, <2>3 DEF IInv, ReadingsSound, RowsSound, Config
  <2>5. ConclusionsSound' /\ WinnersSound'
    BY <2>1, <2>2, ConclusionsKept
  <2>6. Alone'
    BY <2>2 DEF IInv, Alone, AtMostOne, Running
  <2> QED
    BY <2>1, <2>4, <2>5, <2>6 DEF IInv
<1> QED
  BY <1>1, <1>2, <1>3 DEF Next

\* The invariant holds in every reachable state.
LEMMA Invariance == Spec => []IInv
BY InitIInv, NextIInv, PTL DEF Spec

-----------------------------------------------------------------------------
(* The theorems. *)

\* An experiment compares two groups of sites, each site in one of them only, and
\* an arm wins on enough samples of both, however runs, conclusions made twice
\* and restarts interleave (get_experiment_arm, conclude_experiment).
THEOREM ExperimentsSound == Spec => []ExperimentIsSound
<1>1. IInv => ExperimentIsSound
  <2> SUFFICES ASSUME IInv PROVE ExperimentIsSound
    OBVIOUS
  <2>1. OneArmPerSite
    BY DEF IInv, RowsSound, OneArmPerSite
  <2>2. WinnerHasSamples
    BY DEF IInv, WinnersSound, HasEnough, WinnerHasSamples
  <2> QED
    BY <2>1, <2>2 DEF IInv, ExperimentIsSound
<1> QED
  BY Invariance, <1>1, PTL

\* As long as no two requests of admins were open at once, at most one config is
\* active and at most one experiment runs (activate_calibration_config,
\* start_experiment, conclude_experiment): it takes a crossing to have two.
THEOREM OneWithoutACrossing == Spec => []OneWithoutCrossing
<1>1. ASSUME NEW S, AtMostOne(S)
      PROVE  Cardinality(S) <= 1
  <2>1. CASE S = {}
    BY <2>1, FS_EmptySet
  <2>2. ASSUME NEW x \in S
        PROVE  Cardinality(S) <= 1
    <3>1. S = {x}
      BY <1>1 DEF AtMostOne
    <3> QED
      BY <3>1, FS_Singleton
  <2> QED
    BY <2>1, <2>2
<1>2. IInv => OneWithoutCrossing
  BY <1>1 DEF IInv, Alone, OneWithoutCrossing
<1> QED
  BY Invariance, <1>2, PTL

-----------------------------------------------------------------------------
(* The summary of a window of samples.  The proofs count over any finite function,  *)
(* whatever the samples are.                                                   *)

LEMMA OutcomesCounted ==
  ASSUME NEW w, IsFiniteSet(DOMAIN w), NEW o
  PROVE  HasOutcome(w, o) \in Nat
<1>1. {i \in DOMAIN w : Outcome(w[i]) = o} \subseteq DOMAIN w
  OBVIOUS
<1> QED
  BY <1>1, FS_Subset, FS_CardinalityType DEF HasOutcome, Count

LEMMA DecidedCounted ==
  ASSUME NEW w, IsFiniteSet(DOMAIN w)
  PROVE  WindowKnown(w) \in Nat
<1>1. {i \in DOMAIN w : Decided(w[i])} \subseteq DOMAIN w
  OBVIOUS
<1> QED
  BY <1>1, FS_Subset, FS_CardinalityType DEF WindowKnown, Count

\* A rate is a part of something.
LEMMA RateType ==
  ASSUME NEW part \in Nat, NEW whole \in Nat
  PROVE  Rate(part, whole)[1] \in Nat /\ Rate(part, whole)[2] \in Nat \ {0}
BY DEF Rate

LEMMA WindowRateType ==
  ASSUME NEW w, IsFiniteSet(DOMAIN w), NEW o
  PROVE  WindowRate(w, o)[1] \in Nat /\ WindowRate(w, o)[2] \in Nat \ {0}
BY OutcomesCounted, DecidedCounted, RateType DEF WindowRate

\* The summary and the priorities of what is advised are cut at the same rates.
LEMMA SummaryMatchesAdvice ==
  ASSUME NEW w, IsFiniteSet(DOMAIN w)
  PROVE  /\ (Summary(w) = "healthy") <=> (Priorities(w) = {})
         /\ (Summary(w) = "needs_attention") <=> ("high" \in Priorities(w))
         /\ Summary(w) = "healthy" => \A o \in {"optimistic", "pessimistic"} : ~Over(WindowRate(w, o), 15)
<1> DEFINE right == WindowRate(w, "correct")
           high == WindowRate(w, "optimistic")
           low == WindowRate(w, "pessimistic")
<1>1. /\ right[1] \in Nat /\ right[2] \in Nat \ {0}
      /\ high[1] \in Nat /\ high[2] \in Nat \ {0}
      /\ low[1] \in Nat /\ low[2] \in Nat \ {0}
  BY WindowRateType
<1>2. /\ AtLeast(right, 75) => AtLeast(right, 60)
      /\ Over(high, 25) => Over(high, 15)
      /\ Over(low, 25) => Over(low, 15)
  <2> HIDE DEF right, high, low
  <2> QED
    BY <1>1 DEF AtLeast, Over
<1>3. Summary(w) = IF AtLeast(right, 75) /\ ~Over(high, 15) /\ ~Over(low, 15) THEN "healthy"
                   ELSE IF AtLeast(right, 60) /\ ~Over(high, 25) /\ ~Over(low, 25) THEN "acceptable"
                   ELSE "needs_attention"
  BY DEF Summary
<1>4. AccuracyPriority(w) = IF ~AtLeast(right, 60) THEN {"high"}
                            ELSE IF ~AtLeast(right, 75) THEN {"medium"} ELSE {}
  BY DEF AccuracyPriority
<1>5. /\ BiasPriority(w, "optimistic") = IF Over(high, 25) THEN {"high"}
                                         ELSE IF Over(high, 15) THEN {"medium"} ELSE {}
      /\ BiasPriority(w, "pessimistic") = IF Over(low, 25) THEN {"high"}
                                          ELSE IF Over(low, 15) THEN {"medium"} ELSE {}
  BY DEF BiasPriority
<1>6. Summary(w) = "healthy" => \A o \in {"optimistic", "pessimistic"} : ~Over(WindowRate(w, o), 15)
  BY <1>3
<1> HIDE DEF right, high, low
<1>7. (Summary(w) = "healthy") <=> (Priorities(w) = {})
  BY <1>2, <1>3, <1>4, <1>5 DEF Priorities
<1>8. (Summary(w) = "needs_attention") <=> ("high" \in Priorities(w))
  BY <1>2, <1>3, <1>4, <1>5 DEF Priorities
<1> QED
  BY <1>6, <1>7, <1>8

\* Where a rate is not over one share, it is not over a larger one.
LEMMA OverMore ==
  ASSUME NEW x, x[1] \in Nat, x[2] \in Nat, NEW m \in Nat, NEW n \in Nat, m <= n, Over(x, n)
  PROVE  Over(x, m)
<1>1. m * x[2] <= n * x[2]
  <2>1. PICK k \in Nat : k = x[2]
    OBVIOUS
  <2>2. PICK d \in Nat : n = m + d
    <3>1. n - m \in Nat /\ n = m + (n - m)
      OBVIOUS
    <3> QED
      BY <3>1
  <2>3. n * k = m * k + d * k /\ d * k \in Nat /\ m * k \in Nat
    BY <2>2
  <2> QED
    BY <2>1, <2>3
<1>2. m * x[2] \in Nat /\ n * x[2] \in Nat /\ 100 * x[1] \in Nat
  OBVIOUS
<1> QED
  BY <1>1, <1>2 DEF Over

\* Where as many samples are right as are decided, every decided one is right.
LEMMA AllRight ==
  ASSUME NEW w, IsFiniteSet(DOMAIN w), HasOutcome(w, "correct") = WindowKnown(w),
         NEW i \in DOMAIN w, Decided(w[i])
  PROVE  Correct(w[i])
<1> DEFINE R == {k \in DOMAIN w : Outcome(w[k]) = "correct"}
           D == {k \in DOMAIN w : Decided(w[k])}
<1>1. R \subseteq D /\ D \subseteq DOMAIN w
  BY DEF Decided
<1>2. Cardinality(R) = Cardinality(D)
  BY DEF HasOutcome, WindowKnown, Count
<1>3. i \in D
  OBVIOUS
<1>4. R = D
  <2> HIDE DEF R, D
  <2>1. IsFiniteSet(D)
    BY <1>1, FS_Subset
  <2> QED
    BY <1>1, <1>2, <2>1, FS_Subset
<1> QED
  BY <1>3, <1>4 DEF Correct

\* Then nothing is doubted.
LEMMA RightIsNotDoubted ==
  ASSUME NEW w, IsFiniteSet(DOMAIN w),
         HasOutcome(w, "correct") = WindowKnown(w), NEW ans, NEW i
  PROVE  ~Doubted(w, ans) /\ ~Misleading(w, i)
<1>1. \A k \in DOMAIN w : Decided(w[k]) <=> Correct(w[k])
  BY AllRight DEF Decided, Correct
<1>2. MinUsable \in Nat \ {0}
  BY AdviceAssumption
<1>3. ~Doubted(w, ans)
  <2> DEFINE S == {k \in DOMAIN w : Decided(w[k]) /\ w[k].ans = ans}
  <2>1. S = {k \in DOMAIN w : Correct(w[k]) /\ w[k].ans = ans} /\ S \subseteq DOMAIN w
    BY <1>1
  <2>2. Doubted(w, ans) <=> /\ Cardinality(S) >= MinUsable
                            /\ ~AtLeast(Rate(Cardinality(S), Cardinality(S)), 50)
    BY <2>1 DEF Doubted, Count
  <2> HIDE DEF S
  <2>3. PICK n \in Nat : n = Cardinality(S)
    BY <2>1, FS_Subset, FS_CardinalityType
  <2>4. n # 0 => AtLeast(Rate(n, n), 50)
    BY DEF AtLeast, Rate
  <2> QED
    BY <1>2, <2>2, <2>3, <2>4
<1>4. ~Misleading(w, i)
  <2> DEFINE H == {k \in DOMAIN w : Decided(w[k]) /\ Strong(w[k], i)}
             L == {k \in DOMAIN w : Decided(w[k]) /\ Poor(w[k], i)}
  <2>1. /\ H = {k \in DOMAIN w : Correct(w[k]) /\ Strong(w[k], i)} /\ H \subseteq DOMAIN w
        /\ L = {k \in DOMAIN w : Correct(w[k]) /\ Poor(w[k], i)} /\ L \subseteq DOMAIN w
    BY <1>1
  <2>2. Misleading(w, i) <=> /\ Cardinality(H) >= MinUsable /\ Cardinality(L) >= MinUsable
                             /\ Above(Rate(Cardinality(L), Cardinality(L)),
                                      Rate(Cardinality(H), Cardinality(H)))
    BY <2>1 DEF Misleading, Count
  <2> HIDE DEF H, L
  <2>3. PICK h \in Nat : h = Cardinality(H)
    BY <2>1, FS_Subset, FS_CardinalityType
  <2>4. PICK l \in Nat : l = Cardinality(L)
    BY <2>1, FS_Subset, FS_CardinalityType
  <2>5. h # 0 /\ l # 0 => ~Above(Rate(l, l), Rate(h, h))
    <3>1. h * l = l * h /\ h * l \in Nat
      OBVIOUS
    <3> QED
      BY <3>1 DEF Above, Rate
  <2> QED
    BY <1>2, <2>2, <2>3, <2>4, <2>5
<1> QED
  BY <1>3, <1>4

\* Where all that is predicted is of one kind, and that is doubted, less than half of
\* what is decided is right.
LEMMA OnlyKindDoubted ==
  ASSUME NEW w, IsFiniteSet(DOMAIN w), NEW ans,
         \A i \in DOMAIN w : w[i].ans = ans, Doubted(w, ans)
  PROVE  Summary(w) = "needs_attention"
<1>1. /\ {k \in DOMAIN w : Decided(w[k]) /\ w[k].ans = ans} = {k \in DOMAIN w : Decided(w[k])}
      /\ {k \in DOMAIN w : Correct(w[k]) /\ w[k].ans = ans}
           = {k \in DOMAIN w : Outcome(w[k]) = "correct"}
  BY DEF Correct
<1>2. ~AtLeast(WindowRate(w, "correct"), 50)
  BY <1>1 DEF Doubted, Count, WindowRate, HasOutcome, WindowKnown
<1>3. PICK x : x = WindowRate(w, "correct")
  OBVIOUS
<1>4. x[1] \in Nat /\ x[2] \in Nat
  BY <1>3, WindowRateType
<1>5. ~AtLeast(x, 60) /\ ~AtLeast(x, 75)
  BY <1>2, <1>3, <1>4 DEF AtLeast
<1> QED
  BY <1>3, <1>5 DEF Summary

-----------------------------------------------------------------------------

\* The samples are a list, and each has the fields of a sample.
Listed == Len(collected) \in Nat /\ DOMAIN collected = 1..Len(collected)
Sampled == Listed /\ \A i \in DOMAIN collected : IsSample(collected[i])

LEMMA Aged ==
  ASSUME NEW s, IsSample(s), NEW a
  PROVE  IsSample([s EXCEPT !.age = a])
<1>1. PICK t : t = [s EXCEPT !.age = a]
  OBVIOUS
<1>2. t = [site |-> s.site, ans |-> s.ans, got |-> s.got, mentioned |-> s.mentioned,
           cited |-> s.cited, refused |-> s.refused, scores |-> s.scores,
           primacy |-> s.primacy, sim |-> s.sim, age |-> a]
  BY <1>1 DEF IsSample
<1>3. t.site = s.site /\ t.ans = s.ans /\ t.got = s.got /\ t.mentioned = s.mentioned
  BY <1>2
<1>4. t.cited = s.cited /\ t.refused = s.refused /\ t.scores = s.scores
  BY <1>2
<1>5. t.primacy = s.primacy /\ t.sim = s.sim /\ t.age = a
  BY <1>2
<1> QED
  BY <1>1, <1>2, <1>3, <1>4, <1>5 DEF IsSample

LEMMA SampledInvariance == WeightsSpec => []Sampled
<1>1. WeightsInit => Sampled
  BY DEF WeightsInit, Sampled, Listed
<1>2. Sampled /\ [WeightsNext]_weightVars => Sampled'
  <2> SUFFICES ASSUME Sampled, [WeightsNext]_weightVars
               PROVE  Sampled'
    OBVIOUS
  <2>1. CASE Collect
    <3>1. PICK s \in Shapes : collected' = Append(collected, s)
      BY <2>1 DEF Collect
    <3>2. PICK m \in Nat : m = Len(collected) /\ DOMAIN collected = 1..m
      BY DEF Sampled, Listed
    <3>3. /\ Len(collected') = m + 1 /\ DOMAIN collected' = 1..(m + 1)
          /\ collected'[m + 1] = s /\ \A i \in 1..m : collected'[i] = collected[i]
      BY <3>1, <3>2
    <3>4. IsSample(s)
      BY ShapesAssumption
    <3>5. \A i \in 1..(m + 1) : i = m + 1 \/ i \in 1..m
      OBVIOUS
    <3> QED
      BY <3>2, <3>3, <3>4, <3>5 DEF Sampled, Listed
  <2>2. CASE Week
    <3> DEFINE young == {i \in DOMAIN collected : collected[i].age < MaxAge}
    <3>1. PICK m \in Nat : m = Len(collected) /\ DOMAIN collected = 1..m
      BY DEF Sampled, Listed
    <3>2. IsFiniteSet(1..m) /\ Cardinality(1..m) = m
      <4>1. 1 \in Int /\ m \in Int
        OBVIOUS
      <4>2. IsFiniteSet(1..m) /\ Cardinality(1..m) = IF 1 > m THEN 0 ELSE m - 1 + 1
        BY <4>1, FS_Interval
      <4> QED
        BY <4>2
    <3>3. Cardinality(young) \in Nat /\ Cardinality(young) <= m
      <4>1. young \subseteq 1..m
        BY <3>1
      <4> HIDE DEF young
      <4> QED
        BY <3>2, <4>1, FS_Subset, FS_CardinalityType
    <3>4. PICK n \in Nat : n = Cardinality(young) /\ n <= m
      BY <3>3
    <3>5. collected' = [i \in 1..(m - (m - n)) |-> [collected[(m - n) + i] EXCEPT !.age = @ + 1]]
      BY <2>2, <3>1, <3>4 DEF Week
    <3>6. collected' = [i \in 1..n |-> [collected[(m - n) + i] EXCEPT !.age = @ + 1]]
      <4>1. m - (m - n) = n
        OBVIOUS
      <4> QED
        BY <3>5, <4>1
    <3>7. DOMAIN collected' = 1..n /\ Len(collected') = n
      <4>1. collected' = [i \in 1..n |-> collected'[i]]
        BY <3>6
      <4> QED
        BY <4>1
    <3>8. \A i \in 1..n : IsSample(collected'[i])
      <4> TAKE i \in 1..n
      <4>1. (m - n) + i \in 1..m
        BY <3>4
      <4>2. PICK s : s = collected[(m - n) + i]
        OBVIOUS
      <4>3. IsSample(s)
        BY <3>1, <4>1, <4>2 DEF Sampled
      <4>4. collected'[i] = [s EXCEPT !.age = s.age + 1]
        BY <3>6, <4>2
      <4> QED
        BY <4>3, <4>4, Aged
    <3> QED
      BY <3>7, <3>8 DEF Sampled, Listed
  <2>3. CASE collected' = collected
    BY <2>3 DEF Sampled, Listed
  <2> QED
    BY <2>1, <2>2, <2>3
       DEF WeightsNext, CheckDrift, Acknowledge, Resolve, weightVars
<1> QED
  BY <1>1, <1>2, PTL DEF WeightsSpec

\* The check for drift finds a bias only where a rate is over its threshold.
LEMMA DriftsOfBias ==
  ASSUME NEW t \in Drifts, t # "accuracy"
  PROVE  \E o \in {"optimistic", "pessimistic"} : Over(WindowRate(Window(Recent), o), Bias)
BY DEF Drifts

\* The dashboard calls healthy what gets no advice and asks for attention where
\* something has high priority; a week called healthy raises no alert of bias, where
\* the threshold of bias is not set below the 15 percent of the dashboard (it is 20 in
\* api/config.py); what is right is never doubted, and doubts show in the summary
\* (worker/tasks/calibration.py).
THEOREM SummaryIsConsistent ==
  ASSUME Bias >= 15
  PROVE  WeightsSpec => []SummaryAgrees
<1>1. Listed => SummaryAgrees
  <2> SUFFICES ASSUME Listed
               PROVE  SummaryAgrees
    OBVIOUS
  <2>1. PICK w : w = Window(Recent)
    OBVIOUS
  <2>2. IsFiniteSet(DOMAIN w)
    <3>1. IsFiniteSet(DOMAIN collected)
      BY FS_Interval DEF Listed
    <3>2. DOMAIN w \subseteq DOMAIN collected
      BY <2>1 DEF Window, Restrict
    <3> QED
      BY <3>1, <3>2, FS_Subset
  <2>3. /\ (Summary(w) = "healthy") <=> (Priorities(w) = {})
        /\ (Summary(w) = "needs_attention") <=> ("high" \in Priorities(w))
    BY <2>2, SummaryMatchesAdvice
  <2>4. Summary(w) = "healthy" => Drifts \subseteq {"accuracy"}
    <3> SUFFICES ASSUME Summary(w) = "healthy", NEW t \in Drifts, t # "accuracy"
                 PROVE  FALSE
      OBVIOUS
    <3>1. PICK o \in {"optimistic", "pessimistic"} : Over(WindowRate(w, o), Bias)
      BY <2>1, DriftsOfBias
    <3>2. PICK x : x = WindowRate(w, o)
      OBVIOUS
    <3>3. x[1] \in Nat /\ x[2] \in Nat
      BY <2>2, <3>2, WindowRateType
    <3>4. Over(x, 15)
      BY <3>1, <3>2, <3>3, OverMore, AdviceAssumption
    <3> QED
      BY <2>2, <3>2, <3>4, SummaryMatchesAdvice
  <2>5. HasOutcome(w, "correct") = WindowKnown(w) =>
          ~\E ans \in Answerability, i \in Pillars : Doubted(w, ans) \/ Misleading(w, i)
    BY <2>2, RightIsNotDoubted
  <2>6. \A ans \in Answerability :
          Doubted(w, ans) /\ (\A i \in DOMAIN w : w[i].ans = ans) => Summary(w) = "needs_attention"
    BY <2>2, OnlyKindDoubted
  <2> QED
    BY <2>1, <2>3, <2>4, <2>5, <2>6 DEF SummaryAgrees
<1>2. Sampled => SummaryAgrees
  BY <1>1 DEF Sampled
<1> QED
  BY <1>2, SampledInvariance, PTL

-----------------------------------------------------------------------------
(* The order of the scores: the correlation of Matthews by its square and sign. *)

Measures == Int \X (Nat \ {0})

LEMMA TimesMore ==
  ASSUME NEW a \in Int, NEW b \in Int, NEW c \in Nat \ {0}
  PROVE  (a > b <=> a * c > b * c) /\ a * c \in Int /\ b * c \in Int
<1>1. \A x, y \in Int : x > y => x * c > y * c
  <2> SUFFICES ASSUME NEW x \in Int, NEW y \in Int, x > y
               PROVE  x * c > y * c
    OBVIOUS
  <2>1. PICK d \in Nat \ {0} : x = y + d
    <3>1. x - y \in Nat \ {0} /\ x = y + (x - y)
      OBVIOUS
    <3> QED
      BY <3>1
  <2>2. x * c = y * c + d * c /\ d * c > 0 /\ y * c \in Int /\ d * c \in Int
    BY <2>1
  <2> QED
    BY <2>2
<1>2. PICK v \in Int : v = a * c
  OBVIOUS
<1>3. PICK w \in Int : w = b * c
  OBVIOUS
<1>4. (a > b => v > w) /\ (b > a => w > v) /\ (a = b => v = w)
  BY <1>1, <1>2, <1>3
<1> QED
  BY <1>2, <1>3, <1>4

\* What is better than what is no worse is better.
LEMMA BetterOrder ==
  ASSUME NEW x \in Measures, NEW y \in Measures, NEW z \in Measures
  PROVE  /\ ~Better(x, x)
         /\ Better(x, y) /\ ~Better(z, y) => Better(x, z)
         /\ Better(x, y) /\ ~Better(x, z) => Better(z, y)
         /\ Better(x, y) /\ Better(y, z) => Better(x, z)
<1>1. PICK p \in Int : p = Signed(x[1])
  BY DEF Measures, Signed
<1>2. PICK q \in Int : q = Signed(y[1])
  BY DEF Measures, Signed
<1>3. PICK r \in Int : r = Signed(z[1])
  BY DEF Measures, Signed
<1>4. PICK a \in Nat \ {0} : a = x[2]
  BY DEF Measures
<1>5. PICK b \in Nat \ {0} : b = y[2]
  BY DEF Measures
<1>6. PICK c \in Nat \ {0} : c = z[2]
  BY DEF Measures
<1>7. /\ Better(x, y) <=> p * b > q * a
      /\ Better(x, z) <=> p * c > r * a
      /\ Better(y, z) <=> q * c > r * b
      /\ Better(z, y) <=> r * b > q * c
      /\ ~Better(x, x)
  <2>1. p * a = p * a /\ p * a \in Int
    OBVIOUS
  <2> QED
    BY <1>1, <1>2, <1>3, <1>4, <1>5, <1>6, <2>1 DEF Better
\* The three products, on one denominator.
<1>8. PICK u \in Int : u = p * b * c
  OBVIOUS
<1>9. PICK v \in Int : v = q * a * c
  OBVIOUS
<1>10. PICK w \in Int : w = r * a * b
  OBVIOUS
<1>11. p * b > q * a <=> u > v
  <2>1. p * b \in Int /\ q * a \in Int
    OBVIOUS
  <2> QED
    BY <1>8, <1>9, <2>1, TimesMore
<1>12. p * c > r * a <=> u > w
  <2>1. p * c \in Int /\ r * a \in Int /\ (p * c) * b = u /\ (r * a) * b = w
    BY <1>8, <1>10
  <2> QED
    BY <2>1, TimesMore
<1>13. (q * c > r * b <=> v > w) /\ (r * b > q * c <=> w > v)
  <2>1. q * c \in Int /\ r * b \in Int /\ (q * c) * a = v /\ (r * b) * a = w
    BY <1>9, <1>10
  <2> QED
    BY <2>1, TimesMore
<1> QED
  BY <1>7, <1>11, <1>12, <1>13

-----------------------------------------------------------------------------
(* The scores of the candidates *)

LEMMA MetricsType ==
  ASSUME NEW ss, IsFiniteSet(DOMAIN ss), NEW c
  PROVE  LET m == Metrics(ss, c)
         IN  m.tp \in Nat /\ m.tn \in Nat /\ m.over \in Nat /\ m.under \in Nat
<1> DEFINE A == {i \in DOMAIN ss : Findable(ss[i], c) /\ ss[i].cited}
           B == {i \in DOMAIN ss : ~Findable(ss[i], c) /\ ~ss[i].cited}
           C == {i \in DOMAIN ss : Findable(ss[i], c) /\ ~ss[i].cited}
           D == {i \in DOMAIN ss : ~Findable(ss[i], c) /\ ss[i].cited}
<1>1. A \subseteq DOMAIN ss /\ B \subseteq DOMAIN ss /\ C \subseteq DOMAIN ss /\ D \subseteq DOMAIN ss
  OBVIOUS
<1>2. Metrics(ss, c) = [tp |-> Cardinality(A), tn |-> Cardinality(B),
                        over |-> Cardinality(C), under |-> Cardinality(D)]
  BY DEF Metrics, Count
<1> HIDE DEF A, B, C, D
<1>3. /\ Cardinality(A) \in Nat /\ Cardinality(B) \in Nat
      /\ Cardinality(C) \in Nat /\ Cardinality(D) \in Nat
  BY <1>1, FS_Subset, FS_CardinalityType
<1> QED
  BY <1>2, <1>3

LEMMA MeasureType ==
  ASSUME NEW ss, IsFiniteSet(DOMAIN ss), NEW c
  PROVE  MCC(Metrics(ss, c)) \in Measures
<1>1. PICK m : m = Metrics(ss, c)
  OBVIOUS
<1>2. m.tp \in Nat /\ m.tn \in Nat /\ m.over \in Nat /\ m.under \in Nat
  BY <1>1, MetricsType
<1>3. PICK s \in Nat : s = m.tp + m.over
  BY <1>2
<1>4. PICK t \in Nat : t = m.tp + m.under
  BY <1>2
<1>5. PICK u \in Nat : u = m.tn + m.over
  BY <1>2
<1>6. PICK v \in Nat : v = m.tn + m.under
  BY <1>2
<1>7. MCC(m) = IF 0 \in {s, t, u, v} THEN <<0, 1>> ELSE <<m.tp * m.tn - m.over * m.under, s * t * u * v>>
  BY <1>3, <1>4, <1>5, <1>6 DEF MCC
<1>8. m.tp * m.tn - m.over * m.under \in Int
  BY <1>2
<1>9. 0 \notin {s, t, u, v} => s * t * u * v \in Nat \ {0}
  <2> SUFFICES ASSUME s # 0, t # 0, u # 0, v # 0
               PROVE  s * t * u * v \in Nat \ {0}
    OBVIOUS
  <2>1. \A x, y \in Nat \ {0} : x * y \in Nat \ {0}
    OBVIOUS
  <2>2. s * t \in Nat \ {0}
    BY <2>1
  <2>3. s * t * u \in Nat \ {0}
    BY <2>1, <2>2
  <2> QED
    BY <2>1, <2>3
<1> QED
  BY <1>1, <1>7, <1>8, <1>9 DEF Measures

\* A classifier of a class that is all or nothing has no correlation.
LEMMA OneSidedMeasure ==
  ASSUME NEW ss, NEW b \in BOOLEAN, \A i \in DOMAIN ss : ss[i].cited = b, NEW c
  PROVE  MCC(Metrics(ss, c)) = <<0, 1>>
<1>1. CASE b
  <2>1. /\ {i \in DOMAIN ss : ~Findable(ss[i], c) /\ ~ss[i].cited} = {}
        /\ {i \in DOMAIN ss : Findable(ss[i], c) /\ ~ss[i].cited} = {}
    BY <1>1
  <2>2. Metrics(ss, c).tn = 0 /\ Metrics(ss, c).over = 0
    BY <2>1, FS_EmptySet DEF Metrics, Count
  <2> QED
    BY <2>2 DEF MCC
<1>2. CASE ~b
  <2>1. /\ {i \in DOMAIN ss : Findable(ss[i], c) /\ ss[i].cited} = {}
        /\ {i \in DOMAIN ss : ~Findable(ss[i], c) /\ ss[i].cited} = {}
    BY <1>2
  <2>2. Metrics(ss, c).tp = 0 /\ Metrics(ss, c).under = 0
    BY <2>1, FS_EmptySet DEF Metrics, Count
  <2> QED
    BY <2>2 DEF MCC
<1> QED
  BY <1>1, <1>2

-----------------------------------------------------------------------------
(* The order of the loops *)

LEMMA NatOrder == IsWellFoundedOn({p \in Nat \X Nat : p[1] < p[2]}, Nat)
BY NatLessThanWellFounded, SMT DEF OpToRel

\* Every set of numbers that is not empty has a least one.
LEMMA LeastNat ==
  ASSUME NEW T \in SUBSET Nat, T # {}
  PROVE  \E n \in T : \A m \in T : n <= m
<1> DEFINE R == {p \in Nat \X Nat : p[1] < p[2]}
<1>1. IsWellFoundedOn(R, Nat)
  BY NatOrder
<1> HIDE DEF R
<1>2. PICK x \in T : \A y \in T : ~(<<y, x>> \in R)
  BY <1>1, WFMin
<1>3. \A y \in T : ~(y < x)
  BY <1>2 DEF R
<1> QED
  BY <1>3

\* Of some lists of numbers of one length one comes first: of those that agree on the
\* first places, take the least on the next one.
Agree(c, d, k) == \A j \in 1..k : c[j] = d[j]
Sooner(c, d, k) == \E m \in 1..k : c[m] < d[m] /\ Agree(c, d, m - 1)
LeadsUpTo(c, cs, k) == \A d \in cs : Agree(c, d, k) \/ Sooner(c, d, k)

LEMMA OnePlaceFurther ==
  ASSUME NEW n \in Nat, NEW cs \in SUBSET [1..n -> Nat], NEW k \in 1..n,
         NEW first \in cs, LeadsUpTo(first, cs, k - 1)
  PROVE  \E c \in cs : LeadsUpTo(c, cs, k)
<1> DEFINE S == {d \in cs : Agree(first, d, k - 1)}
           T == {d[k] : d \in S}
<1>1. first \in S
  BY DEF Agree
<1>2. \A d \in cs : d[k] \in Nat /\ \A j \in 1..(k - 1) : d[j] \in Nat
  OBVIOUS
<1>3. T \in SUBSET Nat /\ T # {}
  BY <1>1, <1>2
<1>4. PICK v \in T : \A w \in T : v <= w
  BY <1>3, LeastNat
<1>5. PICK c \in S : c[k] = v
  OBVIOUS
<1>6. SUFFICES ASSUME NEW d \in cs
               PROVE  Agree(c, d, k) \/ Sooner(c, d, k)
  BY DEF LeadsUpTo
<1>7. Agree(first, c, k - 1) /\ c \in cs
  OBVIOUS
<1>8. CASE d \in S
  <2>1. \A j \in 1..(k - 1) : c[j] = d[j]
    BY <1>7, <1>8 DEF Agree
  <2>2. c[k] <= d[k] /\ c[k] \in Nat /\ d[k] \in Nat
    BY <1>2, <1>4, <1>5, <1>7, <1>8
  <2>3. CASE c[k] = d[k]
    <3>1. \A j \in 1..k : j \in 1..(k - 1) \/ j = k
      OBVIOUS
    <3> QED
      BY <2>1, <2>3, <3>1 DEF Agree
  <2>4. CASE c[k] < d[k]
    BY <2>1, <2>4 DEF Sooner, Agree
  <2> QED
    BY <2>2, <2>3, <2>4
<1>9. CASE d \notin S
  <2>1. PICK m \in 1..(k - 1) : first[m] < d[m] /\ Agree(first, d, m - 1)
    BY <1>9 DEF LeadsUpTo, Sooner
  <2>2. c[m] = first[m] /\ \A j \in 1..(m - 1) : c[j] = d[j]
    BY <1>7, <2>1 DEF Agree
  <2>3. m \in 1..k
    OBVIOUS
  <2> QED
    BY <2>1, <2>2, <2>3 DEF Sooner, Agree
<1> QED
  BY <1>8, <1>9

LEMMA SomeOneLeads ==
  ASSUME NEW n \in Nat, NEW cs \in SUBSET [1..n -> Nat], cs # {}
  PROVE  \E c \in cs : LeadsUpTo(c, cs, n)
<1> DEFINE Bad == {k \in 0..n : ~\E c \in cs : LeadsUpTo(c, cs, k)}
<1>1. SUFFICES ASSUME ~\E c \in cs : LeadsUpTo(c, cs, n)
               PROVE  FALSE
  OBVIOUS
<1>11. Bad # {}
  <2>1. n \in 0..n
    OBVIOUS
  <2> QED
    BY <1>1, <2>1
<1>2. PICK k \in Bad : \A m \in Bad : k <= m
  <2>1. Bad \in SUBSET Nat
    OBVIOUS
  <2> HIDE DEF Bad
  <2> QED
    BY <1>11, <2>1, LeastNat
<1>3. k # 0
  <2>1. \A c \in cs : LeadsUpTo(c, cs, 0)
    BY DEF LeadsUpTo, Agree
  <2> QED
    BY <2>1
<1>4. k - 1 \in 0..n /\ k - 1 \notin Bad
  <2>1. k - 1 \in 0..n /\ ~(k <= k - 1)
    BY <1>3
  <2> HIDE DEF Bad
  <2> QED
    BY <1>2, <2>1
<1>5. PICK first \in cs : LeadsUpTo(first, cs, k - 1)
  BY <1>4
<1>6. k \in 1..n
  BY <1>3
<1>7. \E c \in cs : LeadsUpTo(c, cs, k)
  BY <1>5, <1>6, OnePlaceFurther
<1> QED
  BY <1>7

\* The first one in the order of the loops is one of them.
LEMMA ForemostIsOne ==
  ASSUME NEW cs \in SUBSET [1..Len(Baseline) -> Nat], cs # {}
  PROVE  Foremost(cs) \in cs
<1>1. PICK n \in Nat : n = Len(Baseline)
  BY SearchAssumption DEF Baseline
<1>2. PICK c \in cs : LeadsUpTo(c, cs, n)
  <2>1. cs \in SUBSET [1..n -> Nat] /\ cs # {} /\ n \in Nat
    BY <1>1
  <2>2. \E c \in cs : LeadsUpTo(c, cs, n)
    BY <2>1, SomeOneLeads
  <2> QED
    BY <2>2
<1>3. \A d \in cs : c = d \/ Before(c, d)
  <2> TAKE d \in cs
  <2>1. CASE Agree(c, d, n)
    BY <1>1, <2>1 DEF Agree
  <2>2. CASE Sooner(c, d, n)
    BY <1>1, <2>2 DEF Sooner, Agree, Before
  <2> QED
    BY <1>2, <2>1, <2>2 DEF LeadsUpTo
<1> QED
  BY <1>3 DEF Foremost

-----------------------------------------------------------------------------
(* The search *)

\* What wins is the one that was best, or a candidate that is better.
LEMMA WinnerSound ==
  ASSUME NEW ss, IsFiniteSet(DOMAIN ss), NEW best,
         NEW candidates \in SUBSET [1..Len(Baseline) -> Nat],
         Winner(ss, candidates, best) # best
  PROVE  /\ Winner(ss, candidates, best) \in candidates
         /\ Better(MCC(Metrics(ss, Winner(ss, candidates, best))), MCC(Metrics(ss, best)))
<1> DEFINE measure(c) == MCC(Metrics(ss, c))
           scored == {<<c, measure(c)>> : c \in candidates}
           values == {x[2] : x \in scored}
           top == {v \in values : \A w \in values : ~Better(w, v)}
           winners == {x[1] : x \in {y \in scored : y[2] \in top}}
<1>1. \A c : measure(c) \in Measures
  BY MeasureType
<1>2. Winner(ss, candidates, best) = IF \E v \in top : Better(v, measure(best)) THEN Foremost(winners)
                                     ELSE best
  BY DEF Winner
<1>3. \A v : v \in values <=> \E c \in candidates : v = measure(c)
  <2> HIDE DEF measure
  <2>1. \A c : <<c, measure(c)>>[2] = measure(c)
    OBVIOUS
  <2> QED
    BY <2>1
<1>4. \A c : c \in winners <=> c \in candidates /\ measure(c) \in top
  <2> HIDE DEF measure, top
  <2>1. \A c : <<c, measure(c)>>[1] = c /\ <<c, measure(c)>>[2] = measure(c)
    OBVIOUS
  <2> QED
    BY <2>1
<1>5. top \subseteq values /\ \A v \in top, w \in values : ~Better(w, v)
  OBVIOUS
<1> HIDE DEF measure, scored, values, top, winners
<1>6. PICK v \in top : Better(v, measure(best))
  BY <1>2
<1>7. PICK d \in candidates : v = measure(d)
  BY <1>3, <1>5, <1>6
<1>8. winners \in SUBSET candidates /\ d \in winners
  BY <1>4, <1>6, <1>7
<1>9. Foremost(winners) \in winners
  BY <1>8, ForemostIsOne
<1>10. PICK c \in candidates : c = Foremost(winners) /\ measure(c) \in top
  BY <1>4, <1>9
<1>11. ~Better(v, measure(c)) /\ v \in Measures /\ measure(c) \in Measures /\ measure(best) \in Measures
  BY <1>1, <1>5, <1>6, <1>7, <1>10
<1>12. Better(measure(c), measure(best))
  BY <1>6, <1>11, BetterOrder
<1>13. Winner(ss, candidates, best) = c
  BY <1>2, <1>6, <1>10
<1> QED
  BY <1>10, <1>12, <1>13 DEF measure

LEMMA Larger ==
  ASSUME NEW a \in Int, NEW b \in Int
  PROVE  Max({a, b}) \in Int /\ Max({a, b}) >= a
<1>1. PICK m \in {a, b} : \A x \in {a, b} : m >= x
  <2>1. CASE a >= b
    BY <2>1
  <2>2. CASE b >= a
    BY <2>2
  <2> QED
    BY <2>1, <2>2
<1>2. \A x \in {a, b} : x >= m => x = m
  BY <1>1
<1> QED
  BY <1>1, <1>2 DEF Max

LEMMA Smaller ==
  ASSUME NEW a \in Int, NEW b \in Int
  PROVE  Min({a, b}) \in Int
<1>1. PICK m \in {a, b} : \A x \in {a, b} : m <= x
  <2>1. CASE a >= b
    BY <2>1
  <2>2. CASE b >= a
    BY <2>2
  <2> QED
    BY <2>1, <2>2
<1>2. \A x \in {a, b} : x <= m => x = m
  BY <1>1
<1> QED
  BY <1>1, <1>2 DEF Min

\* The weights of a grid are numbers.
LEMMA GridType ==
  ASSUME NEW center \in [Pillars -> Nat], NEW radius \in Nat, NEW step \in Nat \ {0}
  PROVE  Grid(center, radius, step) \subseteq [Pillars -> Nat]
<1> DEFINE low(i) == AlignUp(Max({MinWeight, center[i] - radius}), step)
           high(i) == Min({MaxWeight, center[i] + radius})
           values(i) == {x \in Max({MinWeight, low(i)})..high(i) : (x - Max({MinWeight, low(i)})) % step = 0}
<1>1. \A i \in Pillars : values(i) \subseteq Nat
  <2> SUFFICES ASSUME NEW i \in Pillars
               PROVE  values(i) \subseteq Nat
    OBVIOUS
  <2>1. MinWeight \in Nat /\ MaxWeight \in Nat
    BY SearchAssumption
  <2>2. center[i] - radius \in Int /\ center[i] + radius \in Int
    OBVIOUS
  <2>3. PICK b \in Int : b = Max({MinWeight, center[i] - radius})
    <3>1. MinWeight \in Int
      BY <2>1
    <3>2. Max({MinWeight, center[i] - radius}) \in Int
      BY <2>2, <3>1, Larger, Zenon
    <3> QED
      BY <3>2
  <2>4. low(i) \in Int
    <3>1. PICK q \in Int : q = (b + step - 1) \div step
      OBVIOUS
    <3> QED
      BY <2>3, <3>1 DEF AlignUp
  <2>5. high(i) \in Int
    BY <2>1, <2>2, Smaller
  <2> HIDE DEF low, high
  <2>6. PICK m \in Int : m = Max({MinWeight, low(i)}) /\ m >= MinWeight
    <3>1. MinWeight \in Int
      BY <2>1
    <3>2. Max({MinWeight, low(i)}) \in Int /\ Max({MinWeight, low(i)}) >= MinWeight
      BY <2>4, <3>1, Larger, Zenon
    <3> QED
      BY <3>2
  <2>7. \A x \in m..high(i) : x \in Nat
    BY <2>1, <2>5, <2>6
  <2> QED
    BY <2>6, <2>7
<1>2. Grid(center, radius, step) =
        {w \in [Pillars -> UNION {values(i) : i \in Pillars}] :
           (\A i \in Pillars : w[i] \in values(i)) /\ IsWhole(w)}
  BY DEF Grid
<1> HIDE DEF values
<1>3. \A w \in Grid(center, radius, step) : w \in [Pillars -> Nat]
  <2> SUFFICES ASSUME NEW w \in Grid(center, radius, step)
               PROVE  w \in [Pillars -> Nat]
    OBVIOUS
  <2>1. w = [i \in Pillars |-> w[i]] /\ \A i \in Pillars : w[i] \in values(i)
    BY <1>2
  <2> QED
    BY <1>1, <2>1
<1> QED
  BY <1>3

LEMMA StepsType ==
  ASSUME NEW a \in Nat, NEW b \in Int, NEW c \in Int
  PROVE  Steps(Max({a, b}), c) \subseteq Nat
<1>1. PICK m \in Int : m = Max({a, b}) /\ m >= a
  <2>1. a \in Int
    OBVIOUS
  <2>2. Max({a, b}) \in Int /\ Max({a, b}) >= a
    BY <2>1, Larger, Zenon
  <2> QED
    BY <2>2
<1> QED
  BY <1>1 DEF Steps

CandidateSet == [1..Len(Baseline) -> Nat]

LEMMA LengthGives ==
  ASSUME NEW c \in Seq(Nat), Len(c) = Len(Baseline)
  PROVE  c \in CandidateSet
<1>1. c \in [1..Len(c) -> Nat]
  OBVIOUS
<1> QED
  BY <1>1 DEF CandidateSet

LEMMA CandidateSize ==
  ASSUME NEW n \in Nat, n = Len(Defaults)
  PROVE  /\ Defaults \in [1..n -> Nat] /\ Pillars = 1..n
         /\ Len(Baseline) = n + 2 /\ Baseline \in CandidateSet
<1>1. Defaults \in [1..n -> Nat] /\ Pillars = 1..n
  BY SearchAssumption DEF Pillars
<1>2. PICK e : e = <<StartThreshold, 0>>
  OBVIOUS
<1>3. e \in Seq(Nat) /\ Len(e) = 2
  BY <1>2 DEF StartThreshold
<1>4. Defaults \o e \in Seq(Nat) /\ Len(Defaults \o e) = n + 2
  <2>1. Defaults \in Seq(Nat)
    BY SearchAssumption
  <2>2. Defaults \o e \in Seq(Nat)
    BY <1>3, <2>1, ConcatProperties, Zenon
  <2>3. Len(Defaults \o e) = Len(Defaults) + Len(e)
    BY <1>3, <2>1, ConcatProperties, Zenon
  <2> QED
    BY <1>3, <2>2, <2>3
<1>5. Baseline \in Seq(Nat) /\ Len(Baseline) = n + 2
  BY <1>2, <1>4 DEF Baseline
<1> QED
  BY <1>1, <1>5, LengthGives

LEMMA PairParts ==
  ASSUME NEW S \in SUBSET Nat, NEW T \in SUBSET Nat, NEW e, e \in S \X T
  PROVE  e \in Seq(Nat) /\ Len(e) = 2
<1>1. e[1] \in S /\ e[2] \in T /\ e = <<e[1], e[2]>>
  OBVIOUS
<1>2. PICK x \in Nat : x = e[1]
  BY <1>1
<1>3. PICK y \in Nat : y = e[2]
  BY <1>1
<1>4. e = <<x, y>>
  BY <1>1, <1>2, <1>3
<1> QED
  BY <1>4

LEMMA CandidatesType ==
  ASSUME NEW grid \in SUBSET [Pillars -> Nat],
         NEW thresholds \in SUBSET Nat, NEW primacies \in SUBSET Nat
  PROVE  Candidates(grid, thresholds, primacies) \subseteq CandidateSet
<1> SUFFICES ASSUME NEW c \in Candidates(grid, thresholds, primacies)
             PROVE  c \in CandidateSet
  OBVIOUS
<1>1. PICK n \in Nat : n = Len(Defaults)
  BY SearchAssumption
<1>2. Pillars = 1..n /\ Len(Baseline) = n + 2
  BY <1>1, CandidateSize
<1>3. PICK w \in grid, e \in thresholds \X primacies : c = w \o e
  BY DEF Candidates
<1>4. w \in Seq(Nat) /\ Len(w) = n
  <2>1. w \in [1..n -> Nat]
    BY <1>2
  <2> QED
    BY <2>1
<1>5. e \in thresholds \X primacies
  BY <1>3
<1>6. e \in Seq(Nat) /\ Len(e) = 2
  BY <1>5, PairParts
<1>7. w \o e \in Seq(Nat) /\ Len(w \o e) = n + 2
  <2>1. w \o e \in Seq(Nat)
    BY <1>4, <1>6, ConcatProperties, Zenon
  <2>2. Len(w \o e) = Len(w) + Len(e)
    BY <1>4, <1>6, ConcatProperties, Zenon
  <2> QED
    BY <1>4, <1>6, <2>1, <2>2
<1> QED
  BY <1>2, <1>3, <1>7, LengthGives

LEMMA CandidateParts ==
  ASSUME NEW c \in CandidateSet
  PROVE  /\ SubSeq(c, 1, Len(Defaults)) \in [Pillars -> Nat]
         /\ Threshold(c) \in Nat /\ Primacy(c) \in Nat
<1>1. PICK n \in Nat : n = Len(Defaults)
  BY SearchAssumption
<1>2. Pillars = 1..n /\ Len(Baseline) = n + 2
  BY <1>1, CandidateSize
<1>3. c \in [1..(n + 2) -> Nat]
  BY <1>2 DEF CandidateSet
<1>4. c \in Seq(Nat) /\ Len(c) = n + 2
  BY <1>3
<1>5. SubSeq(c, 1, n) \in [1..n -> Nat]
  <2>1. 1 \in 1..(Len(c) + 1) /\ n \in (1 - 1)..Len(c)
    BY <1>4
  <2>2. SubSeq(c, 1, n) \in Seq(Nat) /\ Len(SubSeq(c, 1, n)) = IF 1 <= n THEN n - 1 + 1 ELSE 0
    BY <1>4, <2>1, SubSeqProperties
  <2>3. PICK s \in Seq(Nat) : s = SubSeq(c, 1, n)
    BY <2>2
  <2>4. Len(s) = n
    BY <2>2, <2>3
  <2>5. s \in [1..n -> Nat]
    BY <2>4
  <2> QED
    BY <2>3, <2>5
<1> QED
  BY <1>1, <1>2, <1>3, <1>5 DEF Threshold, Primacy

CoarseCandidates(training) ==
  Candidates(Grid(Defaults, MaxChange, CoarseStep), Thresholds,
             IF HasPrimacy(training) THEN Primacies ELSE {0})
FineCandidates(training, c) ==
  Candidates(Grid(SubSeq(c, 1, Len(Defaults)), FineRadius, FineStep),
             Steps(Max({20, Threshold(c) - FineReach}), Min({69, Threshold(c) + FineReach})),
             IF HasPrimacy(training)
             THEN Steps(Max({0, Primacy(c) - 5}), Min({24, Primacy(c) + 5})) ELSE {0})

LEMMA CoarseCandidatesType ==
  ASSUME NEW training
  PROVE  CoarseCandidates(training) \in SUBSET CandidateSet
<1>1. Grid(Defaults, MaxChange, CoarseStep) \in SUBSET [Pillars -> Nat]
  <2>1. Defaults \in [Pillars -> Nat] /\ MaxChange \in Nat /\ CoarseStep \in Nat \ {0}
    <3>1. PICK n \in Nat : n = Len(Defaults)
      BY SearchAssumption
    <3> QED
      BY <3>1, CandidateSize, SearchAssumption
  <2> QED
    BY <2>1, GridType
<1>2. Thresholds \in SUBSET Nat /\ (IF HasPrimacy(training) THEN Primacies ELSE {0}) \in SUBSET Nat
  BY SearchAssumption
<1> QED
  BY <1>1, <1>2, CandidatesType DEF CoarseCandidates

LEMMA FineCandidatesType ==
  ASSUME NEW training, NEW c \in CandidateSet
  PROVE  FineCandidates(training, c) \in SUBSET CandidateSet
<1>1. PICK center \in [Pillars -> Nat] : center = SubSeq(c, 1, Len(Defaults))
  BY CandidateParts
<1>2. PICK t \in Nat : t = Threshold(c)
  BY CandidateParts
<1>3. PICK p \in Nat : p = Primacy(c)
  BY CandidateParts
<1>4. FineRadius \in Nat /\ FineStep \in Nat \ {0} /\ FineReach \in Nat
  BY SearchAssumption
<1>5. Grid(center, FineRadius, FineStep) \in SUBSET [Pillars -> Nat]
  BY <1>4, GridType
<1>6. Steps(Max({20, t - FineReach}), Min({69, t + FineReach})) \in SUBSET Nat
  <2>1. 20 \in Nat /\ t - FineReach \in Int /\ 69 \in Int /\ t + FineReach \in Int
    BY <1>4
  <2>2. Min({69, t + FineReach}) \in Int
    BY <2>1, Smaller, Zenon
  <2>3. Steps(Max({20, t - FineReach}), Min({69, t + FineReach})) \subseteq Nat
    BY <2>1, <2>2, StepsType, Zenon
  <2> QED
    BY <2>3
<1>7. Steps(Max({0, p - 5}), Min({24, p + 5})) \in SUBSET Nat
  <2>1. 0 \in Nat /\ p - 5 \in Int /\ 24 \in Int /\ p + 5 \in Int
    OBVIOUS
  <2>2. Min({24, p + 5}) \in Int
    BY <2>1, Smaller, Zenon
  <2>3. Steps(Max({0, p - 5}), Min({24, p + 5})) \subseteq Nat
    BY <2>1, <2>2, StepsType, Zenon
  <2> QED
    BY <2>3
<1>8. PICK steps \in SUBSET Nat : steps = Steps(Max({0, p - 5}), Min({24, p + 5}))
  BY <1>7
<1>9. PICK thresholds \in SUBSET Nat :
        thresholds = Steps(Max({20, t - FineReach}), Min({69, t + FineReach}))
  BY <1>6
<1>10. PICK grid \in SUBSET [Pillars -> Nat] : grid = Grid(center, FineRadius, FineStep)
  BY <1>5
<1>11. FineCandidates(training, c)
         = Candidates(grid, thresholds, IF HasPrimacy(training) THEN steps ELSE {0})
  BY <1>1, <1>2, <1>3, <1>8, <1>9, <1>10, Zenon DEF FineCandidates
<1>12. CASE HasPrimacy(training)
  <2>1. FineCandidates(training, c) = Candidates(grid, thresholds, steps)
    BY <1>11, <1>12, Zenon
  <2> QED
    BY <2>1, CandidatesType
<1>13. CASE ~HasPrimacy(training)
  <2>1. FineCandidates(training, c) = Candidates(grid, thresholds, {0})
    BY <1>11, <1>13, Zenon
  <2> QED
    BY <2>1, CandidatesType
<1> QED
  BY <1>12, <1>13

\* What a search finds is the baseline, or measures better on what it learns from.
LEMMA SearchFinds ==
  ASSUME NEW training, IsFiniteSet(DOMAIN training),
         NEW best, best = FineBest(training, CoarseBest(training))
  PROVE  \/ best = Baseline
         \/ Better(MCC(Metrics(training, best)), MCC(Metrics(training, Baseline)))
<1> DEFINE measure(c) == MCC(Metrics(training, c))
<1>1. \A c : measure(c) \in Measures
  BY MeasureType
<1>2. PICK coarse : coarse = CoarseBest(training)
  OBVIOUS
<1>3. coarse = Winner(training, CoarseCandidates(training), Baseline)
  BY <1>2 DEF CoarseBest, CoarseCandidates
<1>4. coarse \in CandidateSet /\ (coarse = Baseline \/ Better(measure(coarse), measure(Baseline)))
  <2>1. Baseline \in CandidateSet
    <3>1. PICK n \in Nat : n = Len(Defaults)
      BY SearchAssumption
    <3> QED
      BY <3>1, CandidateSize
  <2>2. CASE coarse = Baseline
    BY <2>1, <2>2
  <2>3. CASE coarse # Baseline
    <3>1. PICK cs \in SUBSET CandidateSet : cs = CoarseCandidates(training)
      BY CoarseCandidatesType
    <3>2. coarse \in cs /\ Better(measure(coarse), measure(Baseline))
      BY <1>3, <2>3, <3>1, WinnerSound DEF CandidateSet
    <3> QED
      BY <3>2
  <2> QED
    BY <2>2, <2>3
<1>5. best = Winner(training, FineCandidates(training, coarse), coarse)
  BY <1>2 DEF FineBest, FineCandidates
<1>6. best = coarse \/ Better(measure(best), measure(coarse))
  <2>1. PICK cs \in SUBSET CandidateSet : cs = FineCandidates(training, coarse)
    BY <1>4, FineCandidatesType
  <2> QED
    BY <1>5, <2>1, WinnerSound DEF CandidateSet
<1>7. CASE best = coarse
  BY <1>4, <1>7
<1>8. CASE coarse = Baseline
  BY <1>6, <1>8
<1>9. CASE Better(measure(best), measure(coarse)) /\ Better(measure(coarse), measure(Baseline))
  <2>1. measure(best) \in Measures /\ measure(coarse) \in Measures /\ measure(Baseline) \in Measures
    BY <1>1
  <2> HIDE DEF measure
  <2>2. Better(measure(best), measure(Baseline))
    BY <1>9, <2>1, BetterOrder
  <2> QED
    BY <2>2 DEF measure
<1> QED
  BY <1>4, <1>6, <1>7, <1>8, <1>9

-----------------------------------------------------------------------------
(* What is held out.  The split looks at no observation but at whether there is one. *)

Alike(ss, tt) ==
  /\ DOMAIN tt = DOMAIN ss
  /\ \A i \in DOMAIN ss : /\ Decided(tt[i]) <=> Decided(ss[i])
                          /\ tt[i].scores = ss[i].scores
                          /\ tt[i].site = ss[i].site

LEMMA SameSplit ==
  ASSUME NEW ss, NEW tt, Alike(ss, tt)
  PROVE  /\ Usable(tt) = Usable(ss) /\ WithOutcome(tt) = WithOutcome(ss)
         /\ HeldOut(tt) = HeldOut(ss) /\ (Searches(tt) <=> Searches(ss))
<1>1. Usable(tt) = Usable(ss)
  BY DEF Alike, Usable
<1>2. WithOutcome(tt) = WithOutcome(ss)
  BY DEF Alike, WithOutcome
<1>3. \A i \in Usable(ss) : tt[i].site = ss[i].site
  BY DEF Alike, Usable
<1>4. SitesOf(tt) = SitesOf(ss)
  BY <1>1, <1>3 DEF SitesOf
<1>5. \A site : FirstOf(tt, site) = FirstOf(ss, site)
  <2> TAKE site
  <2>1. {i \in Usable(tt) : tt[i].site = site} = {i \in Usable(ss) : ss[i].site = site}
    BY <1>1, <1>3
  <2> QED
    BY <2>1 DEF FirstOf
<1>6. HoldoutCount(tt) = HoldoutCount(ss)
  BY <1>4, Zenon DEF HoldoutCount
<1>7. HeldOut(tt) = HeldOut(ss)
  <2>1. \A site : {t \in SitesOf(tt) : FirstOf(tt, t) > FirstOf(tt, site)}
                    = {t \in SitesOf(ss) : FirstOf(ss, t) > FirstOf(ss, site)}
    BY <1>4, <1>5
  <2> QED
    BY <1>4, <1>6, <2>1 DEF HeldOut
<1> QED
  BY <1>1, <1>2, <1>4, <1>6, <1>7 DEF Searches

LEMMA Reversed ==
  ASSUME NEW s, IsSample(s), NEW b
  PROVE  LET t == [s EXCEPT !.cited = b]
         IN  /\ Decided(t) <=> Decided(s)
             /\ t.scores = s.scores /\ t.site = s.site
<1>1. PICK t : t = [s EXCEPT !.cited = b]
  OBVIOUS
<1>2. t = [site |-> s.site, ans |-> s.ans, got |-> s.got, mentioned |-> s.mentioned,
           cited |-> b, refused |-> s.refused, scores |-> s.scores,
           primacy |-> s.primacy, sim |-> s.sim, age |-> s.age]
  BY <1>1 DEF IsSample
<1>3. t.got = s.got /\ t.refused = s.refused /\ t.scores = s.scores /\ t.site = s.site
  BY <1>2
<1>4. \A x : Decided(x) <=> ~(x.got = "none" \/ x.refused)
  BY DEF Decided, Outcome, Sourceability
<1> QED
  BY <1>1, <1>3, <1>4

LEMMA OppositeAlike ==
  ASSUME Sampled, NEW i \in DOMAIN collected
  PROVE  /\ Alike(collected, Opposite(i))
         /\ \A j \in DOMAIN collected : j # i => Opposite(i)[j] = collected[j]
<1>1. PICK o : o = Opposite(i)
  OBVIOUS
<1>2. PICK b : b = ~collected[i].cited
  OBVIOUS
<1>3. DOMAIN o = DOMAIN collected /\ \A j \in DOMAIN collected : j # i => o[j] = collected[j]
  BY <1>1 DEF Opposite
<1>4. o[i] = [collected[i] EXCEPT !.cited = b]
  BY <1>1, <1>2 DEF Opposite
<1>5. /\ Decided(o[i]) <=> Decided(collected[i])
      /\ o[i].scores = collected[i].scores /\ o[i].site = collected[i].site
  BY <1>4, Reversed DEF Sampled
<1>6. Alike(collected, o)
  BY <1>3, <1>5 DEF Alike
<1> QED
  BY <1>1, <1>3, <1>6

LEMMA HeldOutTeachesNothing ==
  ASSUME Sampled, NEW i \in DOMAIN collected, collected[i].site \in HeldOut(collected)
  PROVE  Best(Opposite(i)) = Best(collected)
<1>1. PICK o : o = Opposite(i)
  OBVIOUS
<1>2. /\ Alike(collected, o)
      /\ \A j \in DOMAIN collected : j # i => o[j] = collected[j]
  BY <1>1, OppositeAlike
<1>3. /\ Usable(o) = Usable(collected)
      /\ HeldOut(o) = HeldOut(collected) /\ (Searches(o) <=> Searches(collected))
  BY <1>2, SameSplit
<1>4. PICK places : places = {j \in Usable(collected) : collected[j].site \notin HeldOut(collected)}
  OBVIOUS
<1>5. places = {j \in Usable(o) : o[j].site \notin HeldOut(o)}
  <2>1. \A j \in Usable(collected) : o[j].site = collected[j].site
    BY <1>2 DEF Alike, Usable
  <2>2. PICK us, held : us = Usable(collected) /\ held = HeldOut(collected)
    OBVIOUS
  <2>3. us = Usable(o) /\ held = HeldOut(o) /\ places = {j \in us : collected[j].site \notin held}
    BY <1>3, <1>4, <2>2
  <2>4. places = {j \in us : o[j].site \notin held}
    BY <2>1, <2>2, <2>3
  <2> QED
    BY <2>3, <2>4
<1>6. \A j \in places : j \in DOMAIN collected /\ j # i
  BY <1>4 DEF Usable
<1>7. [j \in places |-> o[j]] = [j \in places |-> collected[j]]
  BY <1>2, <1>6
<1>8. Training(o) = Training(collected)
  BY <1>4, <1>5, <1>7, Zenon DEF Training, Restrict
<1>9. CASE Searches(collected)
  BY <1>1, <1>3, <1>8, <1>9, Zenon DEF Best
<1>10. CASE ~Searches(collected)
  BY <1>1, <1>3, <1>10, Zenon DEF Best
<1> QED
  BY <1>9, <1>10

LEMMA LastTeachesNothing ==
  ASSUME Sampled, NEW i \in DOMAIN collected, i \notin DOMAIN TrainingOfOutcome(collected)
  PROVE  BestThresholds(Opposite(i)) = BestThresholds(collected)
<1>1. PICK o : o = Opposite(i)
  OBVIOUS
<1>2. /\ Alike(collected, o)
      /\ \A j \in DOMAIN collected : j # i => o[j] = collected[j]
  BY <1>1, OppositeAlike
<1>3. WithOutcome(o) = WithOutcome(collected)
  BY <1>2, SameSplit
<1>4. PICK places : places = ButLast(WithOutcome(collected))
  OBVIOUS
<1>5. places \subseteq DOMAIN collected
  BY <1>4 DEF ButLast, WithOutcome
<1>6. TrainingOfOutcome(collected) = [j \in places |-> collected[j]]
  BY <1>4, Zenon DEF TrainingOfOutcome, Restrict
<1>7. i \notin places
  BY <1>6
<1>8. [j \in places |-> o[j]] = [j \in places |-> collected[j]]
  BY <1>2, <1>5, <1>7
<1>9. TrainingOfOutcome(o) = TrainingOfOutcome(collected)
  BY <1>3, <1>4, <1>8, Zenon DEF TrainingOfOutcome, Restrict
<1> QED
  BY <1>1, <1>3, <1>9, Zenon DEF BestThresholds

LEMMA TrainingIsFinite ==
  ASSUME Sampled
  PROVE  IsFiniteSet(DOMAIN Training(collected))
<1>1. IsFiniteSet(DOMAIN collected)
  BY FS_Interval DEF Sampled, Listed
<1>2. DOMAIN Training(collected) \subseteq DOMAIN collected
  BY DEF Training, Restrict, Usable
<1> QED
  BY <1>1, <1>2, FS_Subset

\* The optimizer learns nothing of the sites it holds out, nor the thresholds of the
\* last samples; it reports an improvement exactly if it found weights other than the
\* defaults, and finds none where the sites it learns from are all cited or all not
\* (optimize_pillar_weights, optimize_answerability_thresholds in optimizer.py).
THEOREM SearchLearnsHonestly == WeightsSpec => []SearchIsHonest
<1>1. Sampled => HeldOutIsUnseen
  <2> SUFFICES ASSUME Sampled, Searches(collected)
               PROVE  /\ \A held \in {HeldOut(collected)}, best \in {Best(collected)} :
                           /\ {Best(Opposite(i)) : i \in {j \in DOMAIN collected : collected[j].site \in held}}
                                \subseteq {best}
                           /\ IsImprovement(collected, best) <=> best # Baseline
                      /\ \A i \in DOMAIN collected :
                           i \notin DOMAIN TrainingOfOutcome(collected) =>
                              BestThresholds(Opposite(i)) = BestThresholds(collected)
    BY DEF HeldOutIsUnseen
  <2>1. PICK held : held = HeldOut(collected)
    OBVIOUS
  <2>2. PICK best : best = Best(collected)
    OBVIOUS
  <2>3. \A i \in DOMAIN collected : collected[i].site \in held => Best(Opposite(i)) = best
    BY <2>1, <2>2, HeldOutTeachesNothing
  <2>4. {Best(Opposite(i)) : i \in {j \in DOMAIN collected : collected[j].site \in held}} \subseteq {best}
    BY <2>3
  <2>5. IsImprovement(collected, best) <=> best # Baseline
    <3>1. PICK training : training = Training(collected)
      OBVIOUS
    <3>2. IsFiniteSet(DOMAIN training)
      BY <3>1, TrainingIsFinite
    <3>3. best = FineBest(training, CoarseBest(training))
      BY <2>2, <3>1, Zenon DEF Best
    <3>4. best = Baseline \/ Better(MCC(Metrics(training, best)), MCC(Metrics(training, Baseline)))
      BY <3>2, <3>3, SearchFinds
    <3>5. ~Better(MCC(Metrics(training, Baseline)), MCC(Metrics(training, Baseline)))
      BY <3>2, MeasureType, BetterOrder
    <3> QED
      BY <3>1, <3>4, <3>5, Zenon DEF IsImprovement
  <2> QED
    BY <2>1, <2>2, <2>4, <2>5, LastTeachesNothing
<1>2. Sampled => OneSidedTeachesNothing
  <2> SUFFICES ASSUME Sampled, NEW b \in BOOLEAN,
                      \A i \in DOMAIN Training(collected) : Training(collected)[i].cited = b
               PROVE  Best(collected) = Baseline
    BY DEF OneSidedTeachesNothing
  <2>1. PICK training : training = Training(collected)
    OBVIOUS
  <2>2. \A c : MCC(Metrics(training, c)) = <<0, 1>>
    BY <2>1, OneSidedMeasure
  <2>3. PICK best : best = FineBest(training, CoarseBest(training))
    OBVIOUS
  <2>4. best = Baseline \/ Better(MCC(Metrics(training, best)), MCC(Metrics(training, Baseline)))
    BY <2>1, <2>3, TrainingIsFinite, SearchFinds
  <2>5. ~Better(<<0, 1>>, <<0, 1>>)
    BY DEF Better, Signed
  <2>6. best = Baseline
    BY <2>2, <2>4, <2>5
  <2> QED
    BY <2>1, <2>3, <2>6 DEF Best
<1>3. Sampled => SearchIsHonest
  BY <1>1, <1>2 DEF SearchIsHonest
<1> QED
  BY <1>3, SampledInvariance, PTL
=============================================================================
