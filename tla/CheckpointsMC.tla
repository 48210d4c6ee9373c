--------------------------- MODULE CheckpointsMC ---------------------------
(* Instances of Checkpoints for TLC. *)
EXTENDS Checkpoints, TLC

CONSTANTS r1, r2, r3,   \* the requests, interchangeable
          t1, t2,       \* the turns
          x, y          \* texts

\* Nothing of substance; a plan; one step done; another done and a new plan.
SomeContents == {
    Blank,
    [Blank EXCEPT !.goal = {x}, !.next_steps = {x}],
    [Blank EXCEPT !.completed = {x}],
    [Blank EXCEPT !.completed = {y}, !.next_steps = {y}, !.blockers = {x}]}

Symmetry == Permutations({r1, r2, r3})
=============================================================================
