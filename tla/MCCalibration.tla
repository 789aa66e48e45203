--------------------------- MODULE MCCalibration ---------------------------
(* Small instances of Calibration and LearnedWeights for TLC.  They share no   *)
(* state: each is checked while the other one rests.                         *)
EXTENDS Calibration, LearnedWeights, TLC

CONSTANTS c1, c2, c3, e1, e2, s1, s2, a1, a2

TwoAdmins == {a1, a2}
Interchangeable == Permutations(TwoAdmins)

Controls == e1 :> c1 @@ e2 :> c2
Treatments == e1 :> c2 @@ e2 :> c3
\* One site is in the same arm of both experiments, the other is not.
ArmsOfSites ==
  e1 :> (s1 :> "control" @@ s2 :> "treatment")
    @@ e2 :> (s1 :> "control" @@ s2 :> "control")

-----------------------------------------------------------------------------
TwoPillars == <<40, 60>>

Shape(site, ans, cited, scores, primacy, sim) ==
  [site |-> site, ans |-> ans, got |-> "answered", mentioned |-> TRUE, cited |-> cited,
   refused |-> FALSE, scores |-> scores, primacy |-> primacy, sim |-> sim, age |-> 0]

\* A question that is strong in the first pillar, or in the second one; one whose
\* second score is missing; and one without a result.  The coarse search tells the
\* first two apart by the numbers of site s2, the fine one by those of site s1, too.
SomeShapes ==
  {Shape(s1, "fully", TRUE, <<76, 20>>, NoScore, 15),
   Shape(s2, "fully", TRUE, <<80, 20>>, NoScore, 15)}
    \cup {Shape(s, "not", FALSE, <<30, 50>>, 50, 11) : s \in {s1, s2}}
    \cup {Shape(s1, "fully", FALSE, <<90, NoScore>>, NoScore, 4)}
    \cup {[Shape(s2, "not", FALSE, <<30, 50>>, 0, 4) EXCEPT !.got = "none"]}

TwoThresholds == {30, 50}
TwoPrimacies == {0, 20}

-----------------------------------------------------------------------------
MCInit == Init /\ WeightsInit
MCNext ==
  \/ collected = <<>> /\ checks = 0 /\ Next /\ UNCHANGED weightVars
  \/ active = {} /\ requests = 0 /\ batches = 0 /\ WeightsNext /\ UNCHANGED vars
MCSpec == MCInit /\ [][MCNext]_<<vars, weightVars>>
=============================================================================
