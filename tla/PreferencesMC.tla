--------------------------- MODULE PreferencesMC ---------------------------
(* Instances of Preferences for TLC. *)
EXTENDS Preferences, TLC

CONSTANTS r1, r2, r3,       \* the requests, interchangeable
          short, detailed   \* values of response_style.verbosity

\* Nothing recognized, one value, or both in the order of extract_signals.
SomeSignals == {<<>>, <<short>>, <<short, detailed>>}

Symmetry == Permutations({r1, r2, r3})
=============================================================================
