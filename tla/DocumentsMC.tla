---------------------------- MODULE DocumentsMC ----------------------------
(* Instances of Documents for TLC. *)
EXTENDS Documents

CONSTANTS c1, c2, c3,   \* candidates
          here, there,  \* scopes
          f1, f2        \* files

\* The first candidate shares a word with each of the others, which share none.
SomeWords == (c1 :> {1, 2}) @@ (c2 :> {2}) @@ (c3 :> {1})

\* Only local files, and only those of scopes with something in them, are shared.
Shared == \E s, t \in Scopes : s # t /\ place[s] = place[t]

SomeInit == DocInit /\ (Shared => ~remote /\ \A s \in Scopes : \E c \in Candidates : scope[c] = s)

SomeSpec == SomeInit /\ [][DocNext]_knowledgeVars

Alike == Permutations(Scopes) \cup Permutations(Files)
=============================================================================
