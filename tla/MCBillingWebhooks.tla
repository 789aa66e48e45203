------------------------- MODULE MCBillingWebhooks -------------------------
(* Small instances of BillingWebhooks for TLC. *)
EXTENDS BillingWebhooks, TLC

CONSTANTS c1, c2, h1, h2, s1, s2, pro, agency

TwoClients == {c1, c2}
TwoHandlers == {h1, h2}
OneSub == {s1}
TwoPlans == {pro, agency}
Symmetry == Permutations(TwoClients) \cup Permutations(TwoHandlers) \cup Permutations(TwoPlans)
=============================================================================
