---------------------------- MODULE RunLifecycle ----------------------------
(***************************************************************************)
(* What the audit service promises of a run, without requests, queue,      *)
(* versions or pipeline steps: a run waits, is executed by one holder at   *)
(* most once, and ends.  While it is held a failure can still be undone by *)
(* its holder; once nobody holds it, an end is final.                      *)
(***************************************************************************)
CONSTANT Runs

VARIABLES
  state,  \* what a reader of the run sees
  taken,  \* runs a worker has ever executed
  held    \* runs a worker is executing

vars == <<state, taken, held>>

Init ==
  /\ state = [r \in Runs |-> "none"]
  /\ taken = {}
  /\ held = {}

Become(r, s) == state' = [state EXCEPT ![r] = s]

Submit(r) ==
  /\ state[r] = "none"
  /\ \/ Become(r, "waiting")
     \/ Become(r, "failed") /\ r \notin taken
  /\ UNCHANGED <<taken, held>>

Take(r) ==
  /\ r \notin taken
  /\ taken' = taken \cup {r}
  /\ held' = held \cup {r}
  /\ \/ state[r] \in {"none", "waiting"} /\ UNCHANGED state
     \/ state[r] = "none" /\ Become(r, "waiting")

Advance(r) ==
  /\ r \in held
  /\ state[r] \in {"waiting", "failed"}
  /\ Become(r, "running")
  /\ UNCHANGED <<taken, held>>

Cancel(r) ==
  /\ state[r] \in {"waiting", "running"}
  /\ Become(r, "failed")
  /\ UNCHANGED <<taken, held>>

End(r) ==
  /\ r \in held
  /\ state[r] # "none"
  /\ \/ Become(r, "done")
     \/ Become(r, "failed")
  /\ held' = held \ {r}
  /\ UNCHANGED taken

Abandon(r) ==
  /\ r \in held
  /\ held' = held \ {r}
  /\ UNCHANGED <<state, taken>>

Next ==
  \E r \in Runs :
    Submit(r) \/ Take(r) \/ Advance(r) \/ Cancel(r) \/ End(r) \/ Abandon(r)

Spec == Init /\ [][Next]_vars
=============================================================================
