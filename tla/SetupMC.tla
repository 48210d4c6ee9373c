------------------------------ MODULE SetupMC ------------------------------
(* An instance of Setup for TLC. *)
EXTENDS Setup

\* What the three commands are, one after the other ...
Scripts == {<<"up", "up", "down">>, <<"up", "down", "foreground">>, <<"up", "down", "down">>, <<"deps", "up", "up">>,
            <<"init", "up", "down">>, <<"connect", "connect", "connect">>}

\* ... and at once.
Crowds == {<<"up", "up", "up">>, <<"connect", "connect", "connect">>}

\* One kind of trouble at a time, or two.
SomeInit ==
    /\ Init
    /\ trouble \in {{w} : w \in Troubles} \cup {{"docker", "interrupts"}}
    /\ \E script \in IF trouble = {"overlaps"} THEN Crowds ELSE Scripts : \A c \in Commands : cmd[c].kind = script[c]
    /\ trouble = {"overlaps"} => ~cli
    /\ hooks # {} <=> cmd[1].kind = "connect"

SomeSpec == SomeInit /\ [][Next]_vars

Symmetry == Permutations(Pids)
=============================================================================
