-------------------------- MODULE ReconciliationMC --------------------------
(* Instances of Reconciliation for TLC. *)
EXTENDS Reconciliation, TLC

CONSTANTS c1, c2, c3, c4,   \* candidates
          here, there   \* scopes

\* Candidates are alike, and so are scopes.
Alike == Permutations(Candidates) \cup Permutations(Scopes)
=============================================================================
