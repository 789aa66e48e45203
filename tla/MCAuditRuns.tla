---------------------------- MODULE MCAuditRuns ----------------------------
(* Small instances of AuditRuns for TLC. *)
EXTENDS AuditRuns, TLC

CONSTANTS s1, r1, r2, c1, c2, w1, w2

OneSite == {s1}
OneRun == {r1}
OneClient == {c1}
TwoClients == {c1, c2}
OneWorker == {w1}
TwoWorkers == {w1, w2}

\* Clients and workers are interchangeable in every safety property.
Symmetry == Permutations(TwoClients) \cup Permutations(TwoWorkers)

\* A version is only ever compared with the version a session saw of the same
\* row, so two states that agree on which sessions are stale behave alike.
\* A version seen is shown by whether it is still current.
SeenCurrent(r, seen) ==
  [seen EXCEPT !.version = IF r \in Runs /\ row[r].version = seen.version THEN 1 ELSE 0]

VersionView ==
  <<[r \in Runs |-> [row[r] EXCEPT !.version = 0]], reports, job,
    [c \in Clients |-> [req[c] EXCEPT !.seen = SeenCurrent(req[c].run, @)]],
    [w \in Workers |-> [wk[w] EXCEPT !.seen = SeenCurrent(wk[w].run, @)]],
    cancelled, crashed, executed, cancels, jobDeletes, crashes, apiFailures>>
=============================================================================
