------------------------------ MODULE Formation ------------------------------
(***************************************************************************)
(* What may become a memory: the deterministic admission gate, the review  *)
(* of the LLM's proposals, the rule-based evaluator and the classification *)
(* by domain (core/formation, _admit of core/facade.py), as operators.     *)
(*                                                                         *)
(* A text is what the lexicons and patterns of the source tell of it: of   *)
(* the whole which blocks it shows, of each sentence which shapes it has.  *)
(***************************************************************************)
EXTENDS Naturals, SequencesExt

CONSTANTS
    Memories,           \* the statements that may become memories
    Statement,          \* what each of them says and how it is scored
    DefaultMaxChars,    \* DEFAULT_MAX_CANDIDATE_CHARS
    MaxChars,           \* AFTERMIND_MAX_CANDIDATE_CHARS
    MinScore            \* AFTERMIND_MEMORY_MIN_SCORE, in tenths

\* The reasons of a rejection, in the order they are looked for.
Blocks == <<"secret", "tool_output", "markup", "code_or_log", "url_or_path_only">>
Shapes == <<"greeting", "filler", "question", "directive", "narration">>
Reasons == Range(Blocks) \cup Range(Shapes) \cup {"empty"}

Text == [blocks : SUBSET Range(Blocks), sentences : Seq(SUBSET Range(Shapes)), chars : Nat]

\* classify_domain: the first pattern that matches, project being the default.
Domains == {"organization", "session", "user", "project"}

\* MemoryType.
Types == {"semantic", "episodic", "procedural"}

\* Scores are in tenths; a transient text is one with a word such as "right now".
ASSUME FormationAssumption ==
    /\ Statement \in [Memories -> [text : Text, type : Types, domain : Domains, usefulness : 0..10, durability : 0..10,
                                   trivial : BOOLEAN, transient : BOOLEAN, wordy : BOOLEAN]]
    /\ DefaultMaxChars \in Nat /\ MaxChars \in Nat /\ MinScore \in 0..10

\* EventType, as far as the gate tells them apart.
Events == {"message", "tool", "error"}

FirstOf(order, flags) ==
    LET i == SelectInSeq(order, LAMBDA x : x \in flags)
    IN  IF i = 0 THEN "ok" ELSE order[i]

\* shape_rejection of each sentence.
Verdicts(t) == [i \in DOMAIN t.sentences |-> FirstOf(Shapes, t.sentences[i])]

\* A text that mixes facts with something else, an error report or a long one.
NeedsExtraction(t, events, max) ==
    \/ \E i \in DOMAIN Verdicts(t) : Verdicts(t)[i] # "ok"
    \/ "error" \in events
    \/ t.chars > max

\* gate(): the whole text is looked at first, then every sentence.  A text with nothing
\* but rejected sentences goes for the first one's reason.
Gate(t, events, max) ==
    LET block == FirstOf(Blocks, t.blocks \cup (IF "tool" \in events THEN {"tool_output"} ELSE {}))
        no(reason) == [admitted |-> FALSE, reason |-> reason, extraction |-> FALSE]
    IN  IF t.sentences = <<>> THEN no("empty")
        ELSE IF block # "ok" THEN no(block)
        ELSE IF \A i \in DOMAIN t.sentences : Verdicts(t)[i] # "ok" THEN no(Verdicts(t)[1])
        ELSE [admitted |-> TRUE, reason |-> "ok", extraction |-> NeedsExtraction(t, events, max)]

-----------------------------------------------------------------------------
\* LLMAdmission.extract: each proposal passes the gate on its own, at the default
\* length, and both of its scores reach the bar.
Reviewed(proposals) ==
    {m \in proposals : LET d == Gate(Statement[m].text, {}, DefaultMaxChars)
                       IN  /\ d.admitted
                           /\ ~d.extraction
                           /\ Statement[m].usefulness >= MinScore
                           /\ Statement[m].durability >= MinScore}

\* MemoryEvaluator: six scores, of which the text decides two; the mean must reach the bar.
Overall(m) ==
    8 + 7 + (IF Statement[m].transient THEN 3 ELSE 7) + 6 + 6 + (IF Statement[m].wordy THEN 8 ELSE 4)

WorthRemembering(m) ==
    /\ Gate(Statement[m].text, {}, DefaultMaxChars).admitted
    /\ Overall(m) >= 6 * MinScore

\* CandidateExtractor.extract: the text itself, unless it is a stock phrase.
Extracted(m) == IF Statement[m].trivial THEN {} ELSE {m}

\* _admit: m is what was said, the agent's output or else the input; the LLM, if there
\* is one, may propose anything.
Admit(mode, m, events, proposals) ==
    LET d == Gate(Statement[m].text, events, MaxChars)
    IN  IF ~d.admitted THEN {}
        ELSE IF mode = "llm" THEN Reviewed(proposals)
        ELSE IF d.extraction THEN {}
        ELSE {c \in Extracted(m) : WorthRemembering(c)}

\* Slip: a text that would need extraction counts as rejected.
AuditRejectsStrictly(m) ==
    LET d == Gate(Statement[m].text, {}, MaxChars)
    IN  ~d.admitted \/ d.extraction

\* `aftermind memory audit`: whether today's gate refuses a stored text.
AuditRejects(m) == ~Gate(Statement[m].text, {}, MaxChars).admitted

=============================================================================
