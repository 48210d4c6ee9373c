---------------------------- MODULE PipelineMC ----------------------------
(* An instance of Pipeline for TLC. *)
EXTENDS Pipeline

CONSTANTS a, b, w,      \* facts, b for a procedure
          y,            \* a question, from before there was a gate
          x,            \* a fact and a directive in one text
          here, there   \* scopes

Fact == [blocks |-> {}, sentences |-> <<{}>>, chars |-> 2]
About(text, domain) == [text |-> text, type |-> "semantic", domain |-> domain, usefulness |-> 7, durability |-> 6,
                        trivial |-> FALSE, transient |-> FALSE, wordy |-> TRUE]

Statements ==
    (a :> About(Fact, "project")) @@ (w :> About(Fact, "session"))
        @@ (b :> [About([Fact EXCEPT !.chars = 3], "project") EXCEPT !.type = "procedural"])
        @@ (y :> About([Fact EXCEPT !.sentences = <<{"question"}>>], "user"))
        @@ (x :> About([Fact EXCEPT !.sentences = <<{}, {"directive"}>>], "project"))

Said(text, events, proposals) == [text |-> text, events |-> events, proposals |-> proposals]
SomeTurns == {Said(w, {"message"}, {w, b}), Said(w, {"message"}, {b}), Said(x, {"message"}, {x, b}), Said(a, {"tool"}, {a})}

Ask(terms, kinds, types) == [terms |-> terms, kinds |-> kinds, types |-> types]
SomeQueries == {Ask({1}, {"continue"}, {}), Ask({1, 2}, {"me"}, {"procedural", "semantic"})}

\* With an LLM in one scope, or without one in two; one of the old memories is elsewhere when
\* jobs are tried at once.
Several ==
    /\ Init
    /\ home[a] = here /\ home[y] = (IF eager THEN there ELSE here) /\ req[1].scope = here
    /\ admission = "llm" <=> req[2].scope = here

\* Two requests of a candidate at most, the second a recall only if the first is one, when
\* the jobs are left to the worker; one observe() alone when they are tried at once.
Bounded ==
    IF eager THEN req'[2] = req[2] /\ req'[1].kind # "recall" /\ UNCHANGED tools
    ELSE /\ \A r \in Requests : Len(req'[r].candidates) <= 1
         /\ req'[2].kind = "recall" => req'[1].kind = "recall"

SeveralSpec == Several /\ [][Next /\ Bounded]_vars /\ Fairness

SomeHits == (1 :> ({a, b, w} \cap Memories)) @@ (2 :> ({b, y} \cap Memories))
SomeNear == (1 :> {{a}}) @@ (2 :> {S \in {{b}, {y}} : S \subseteq Memories})
=============================================================================
