------------------------- MODULE GraphProjectionMC -------------------------
(* Instances of GraphProjection for TLC. *)
EXTENDS GraphProjection, TLC

CONSTANTS c1, c2, c3,   \* candidates
          here, there, away,  \* scopes
          f1, f2        \* triples

\* The keys of two scopes are cleaned into one group.
Cleaned == [s \in Scopes |-> IF s = there THEN here ELSE s]

\* The last candidate came with relationships of its own, and its text needs the LLM.
OneRelated == [c \in Candidates |-> IF c = c3 THEN "parsed" ELSE "none"]

\* Away is there to be kept apart, not to be alone.
SomeInit == ProjectionInit /\ \E c \in Candidates : scope[c] # away

SomeSpec == SomeInit /\ [][ProjectionNext]_allVars

\* Plain candidates are alike, and so are triples and the scopes of one group.
Alike == Permutations(Plain) \cup Permutations(Facts) \cup Permutations({here, there})
=============================================================================
