----------------------------- MODULE LifecycleMC -----------------------------
(* Instances of Lifecycle for TLC. *)
EXTENDS Lifecycle

CONSTANTS m1,       \* the memory
          r1, r2,   \* recalls
          s1, s2    \* sweeps
=============================================================================
