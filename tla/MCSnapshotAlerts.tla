-------------------------- MODULE MCSnapshotAlerts --------------------------
(* Small instances of SnapshotAlerts for TLC. *)
EXTENDS SnapshotAlerts, TLC

CONSTANTS t1, t2, u1, u2

TwoTasks == {t1, t2}
TwoTabs == {u1, u2}
Symmetry == Permutations(TwoTasks) \cup Permutations(TwoTabs)

\* 48 to 43 is a drop by exactly the threshold, 48 to 38 is beyond it and falls
\* below the critical threshold; 38 to 48 is an improvement by exactly its own.
None == 0 - 1
SomeOutcomes == {[score |-> 48, rate |-> 10], [score |-> 43, rate |-> None],
                 [score |-> 38, rate |-> 0]}

\* The columns' defaults; a window is two ticks.
Defaults ==
  [enabled |-> TRUE, kinds |-> {"drop", "critical", "mention_drop", "mention_improvement", "failed"},
   drop |-> 5, improvement |-> 10, critical |-> 40, rate |-> 10, window |-> 2, age |-> 2]

SomePatches ==
  {<< >>, [enabled |-> FALSE],
   [enabled |-> TRUE, kinds |-> {"improvement", "critical"}, critical |-> 45, window |-> 1]}
=============================================================================
