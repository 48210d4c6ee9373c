---------------------------- MODULE Preferences ----------------------------
(***************************************************************************)
(* The preference profile of one scope, for one dimension such as          *)
(* response_style.verbosity (core/preferences/manager.py and its stores).  *)
(*                                                                         *)
(* A turn's text is observed at once, as far as the patterns recognize it, *)
(* and joins a buffer that the model reads once it holds enough texts.     *)
(* Every read and every write is a transaction of its own.                 *)
(*                                                                         *)
(* Each value the code observes is an explicit one, so counts are in units *)
(* of one observation; the confidence is a function of the count.          *)
(***************************************************************************)
EXTENDS Integers, Sequences, FiniteSets

CONSTANTS
    Requests,       \* requests, one text each; a text is named after its request
    Values,         \* values of the dimension
    Signals,        \* what extract_signals may find in a text: sequences of values
    Threshold       \* evidence_threshold

ASSUME PreferencesAssumption ==
    /\ Signals \subseteq Seq(Values)
    /\ Threshold \in Nat \ {0}

VARIABLES
    preferences,    \* the table, in the order of insertion
    evidence,       \* the buffer of texts
    request,        \* where each request is
    said,           \* history: how often a value has been observed
    disturbed       \* history: two requests wrote over each other, or one died in between

vars == <<preferences, evidence, request, said, disturbed>>

\* A row: heir is the row named by superseded_by, 0 if there is none.
Row == [value : Values, count : Nat \ {0}, version : Nat \ {0}, heir : Nat]

\* A request: the values it has yet to observe, the row it has read (0: none) with
\* its copy, the texts it has read; learned once the model has been asked.
Request == [phase : {"new", "observing", "saving", "linking", "counting", "asking", "clearing",
                     "ended", "failed"},
            todo : Seq(Values), of : Nat, copy : SUBSET Row, heir : Nat, learned : BOOLEAN]

Fresh == [phase |-> "new", todo |-> <<>>, of |-> 0, copy |-> {}, heir |-> 0, learned |-> FALSE]

TypeOK ==
    /\ preferences \in Seq(Row)
    /\ evidence \subseteq Requests
    /\ request \in [Requests -> Request]
    /\ said \in [Values -> Nat]
    /\ disturbed \in BOOLEAN

Init ==
    /\ preferences = <<>>
    /\ evidence = {}
    /\ request = [r \in Requests |-> Fresh]
    /\ said = [v \in Values |-> 0]
    /\ disturbed = FALSE

Active == {i \in DOMAIN preferences : preferences[i].heir = 0}

-----------------------------------------------------------------------------
\* observe: one value at a time.

\* observe_text: the values that the patterns recognize in the text come first.
Begin(r) ==
    /\ request[r].phase = "new"
    /\ \E signals \in Signals :
          request' = [request EXCEPT ![r].phase = "observing", ![r].todo = signals]
    /\ UNCHANGED <<preferences, evidence, said, disturbed>>

\* ORDER BY version DESC LIMIT 1 among the active rows; equal versions are not ordered.
Latest == {i \in Active : \A j \in Active : preferences[j].version <= preferences[i].version}

\* latest_by_dimension
Read(r) ==
    /\ request[r].phase = "observing"
    /\ request[r].todo # <<>>
    /\ \/ /\ Active = {}
          /\ request' = [request EXCEPT ![r].phase = "saving", ![r].of = 0, ![r].copy = {}]
       \/ \E i \in Latest :
             request' = [request EXCEPT ![r].phase = "saving", ![r].of = i,
                                        ![r].copy = {preferences[i]}]
    /\ UNCHANGED <<preferences, evidence, said, disturbed>>

\* Another request is between its read and its last write.
Overlaps(r) == \E o \in Requests \ {r} : request[o].phase \in {"saving", "linking"}

\* A request with its first value observed.
Observed(q) == [q EXCEPT !.todo = Tail(@), !.of = 0, !.copy = {}, !.heir = 0,
                         !.phase = IF q.learned /\ Len(q.todo) = 1 THEN "ended" ELSE "observing"]

NewRow(v, version) == [value |-> v, count |-> 1, version |-> version, heir |-> 0]

\* Nothing was active: the first preference, whatever has been saved meanwhile.
Create(r) ==
    /\ request[r].phase = "saving"
    /\ request[r].copy = {}
    /\ LET v == Head(request[r].todo)
       IN  /\ preferences' = Append(preferences, NewRow(v, 1))
           /\ said' = [said EXCEPT ![v] = @ + 1]
    /\ request' = [request EXCEPT ![r] = Observed(@)]
    /\ disturbed' = (disturbed \/ Overlaps(r))
    /\ UNCHANGED evidence

\* Slip: the value is observed again with the weight doubled.
ReinforceTwice(r) ==
    /\ request[r].phase = "saving"
    /\ \E old \in request[r].copy :
          /\ old.value = Head(request[r].todo)
          /\ preferences' = [preferences EXCEPT ![request[r].of] = [old EXCEPT !.count = @ + 2]]
          /\ said' = [said EXCEPT ![old.value] = @ + 1]
    /\ request' = [request EXCEPT ![r] = Observed(@)]
    /\ disturbed' = (disturbed \/ Overlaps(r))
    /\ UNCHANGED evidence

\* The same value again: the copy is saved with more evidence, all its columns, the
\* empty superseded_by included.
Reinforce(r) ==
    /\ request[r].phase = "saving"
    /\ \E old \in request[r].copy :
          /\ old.value = Head(request[r].todo)
          /\ preferences' = [preferences EXCEPT ![request[r].of] = [old EXCEPT !.count = @ + 1]]
          /\ said' = [said EXCEPT ![old.value] = @ + 1]
    /\ request' = [request EXCEPT ![r] = Observed(@)]
    /\ disturbed' = (disturbed \/ Overlaps(r))
    /\ UNCHANGED evidence

\* Another value: the successor is saved ...
Succeed(r) ==
    /\ request[r].phase = "saving"
    /\ \E old \in request[r].copy :
          LET v == Head(request[r].todo)
          IN  /\ old.value # v
              /\ preferences' = Append(preferences, NewRow(v, old.version + 1))
              /\ said' = [said EXCEPT ![v] = @ + 1]
    /\ request' = [request EXCEPT ![r].phase = "linking", ![r].heir = Len(preferences) + 1]
    /\ disturbed' = (disturbed \/ Overlaps(r))
    /\ UNCHANGED evidence

\* Slip: all rows of the dimension are superseded, the successor as well.
LinkAll(r) ==
    /\ request[r].phase = "linking"
    /\ preferences' = [i \in DOMAIN preferences |-> [preferences[i] EXCEPT !.heir = request[r].heir]]
    /\ request' = [request EXCEPT ![r] = Observed(@)]
    /\ disturbed' = (disturbed \/ Overlaps(r))
    /\ UNCHANGED <<evidence, said>>

\* Slip: the superseded copy is never saved.
LinkUnsaved(r) ==
    /\ request[r].phase = "linking"
    /\ request' = [request EXCEPT ![r] = Observed(@)]
    /\ disturbed' = (disturbed \/ Overlaps(r))
    /\ UNCHANGED <<preferences, evidence, said>>

\* ... and then the copy of the old row, superseded.
Link(r) ==
    /\ request[r].phase = "linking"
    /\ \E old \in request[r].copy :
          preferences' = [preferences EXCEPT ![request[r].of] = [old EXCEPT !.heir = request[r].heir]]
    /\ request' = [request EXCEPT ![r] = Observed(@)]
    /\ disturbed' = (disturbed \/ Overlaps(r))
    /\ UNCHANGED <<evidence, said>>

-----------------------------------------------------------------------------
\* The evidence buffer.

\* The text joins the buffer, recognized or not.
Buffer(r) ==
    /\ request[r].phase = "observing"
    /\ request[r].todo = <<>>
    /\ evidence' = evidence \cup {r}
    /\ request' = [request EXCEPT ![r].phase = "counting"]
    /\ UNCHANGED <<preferences, said, disturbed>>

\* Slip: the model is asked when the buffer holds more than the threshold.
CountMore(r) ==
    /\ request[r].phase = "counting"
    /\ request' = [request EXCEPT ![r].phase = IF Cardinality(evidence) <= Threshold THEN "ended" ELSE "asking"]
    /\ UNCHANGED <<preferences, evidence, said, disturbed>>

\* recent(): too few texts, and the request is done; else it goes on to the model.
Count(r) ==
    /\ request[r].phase = "counting"
    /\ request' = [request EXCEPT ![r].phase = IF Cardinality(evidence) < Threshold THEN "ended" ELSE "asking"]
    /\ UNCHANGED <<preferences, evidence, said, disturbed>>

\* The model reads the profile and the texts found, and answers: nothing, or a value.
Ask(r) ==
    /\ request[r].phase = "asking"
    /\ \E answer \in {<<>>} \cup {<<v>> : v \in Values} :
          request' = [request EXCEPT ![r].phase = "clearing", ![r].todo = answer]
    /\ UNCHANGED <<preferences, evidence, said, disturbed>>

\* The buffer is cleared either way, with what others have put there meanwhile.
Clear(r) ==
    /\ request[r].phase = "clearing"
    /\ evidence' = {}
    /\ request' = [request EXCEPT ![r].phase = IF request[r].todo = <<>> THEN "ended" ELSE "observing",
                                  ![r].learned = TRUE]
    /\ UNCHANGED <<preferences, said, disturbed>>

\* A store or the model fails, or the process dies.
Fail(r) ==
    /\ request[r].phase \notin {"new", "ended", "failed"}
    /\ request' = [request EXCEPT ![r] = [Fresh EXCEPT !.phase = "failed"]]
    /\ disturbed' = (disturbed \/ request[r].phase = "linking")
    /\ UNCHANGED <<preferences, evidence, said>>

Next == \E r \in Requests :
    \/ Begin(r) \/ Read(r) \/ Create(r) \/ Reinforce(r) \/ Succeed(r) \/ Link(r)
    \/ Buffer(r) \/ Count(r) \/ Ask(r) \/ Clear(r) \/ Fail(r)

Spec == Init /\ [][Next]_vars

-----------------------------------------------------------------------------
\* A dimension that has a preference never loses it, however requests supersede each
\* other's rows and save old copies of them: an active row is left, and rows are only
\* superseded by later ones of another value.
PreferenceStays ==
    /\ preferences # <<>> => Active # {}
    /\ \A i \in DOMAIN preferences \ Active :
          /\ preferences[i].heir \in (i + 1)..Len(preferences)
          /\ preferences[preferences[i].heir].value # preferences[i].value
          /\ preferences[preferences[i].heir].version = preferences[i].version + 1

\* The evidence of a row is real: its count, from which its confidence is computed,
\* never exceeds the times its value was observed, though copies are saved late.
EvidenceIsReal == \A i \in DOMAIN preferences : preferences[i].count <= said[preferences[i].value]

\* One active row per dimension, when no request has written between another's read
\* and write, and none has died between a successor and its link.
OneUnlessDisturbed ==
    ~disturbed /\ (\A r \in Requests : request[r].phase # "linking") => Cardinality(Active) <= 1

\* Evidence does not pile up: once the requests are through, fewer texts are left than
\* would make the model read them, however they overlapped.
EvidenceIsConsumed ==
    (\A r \in Requests : request[r].phase \notin {"counting", "asking", "clearing", "failed"})
        => Cardinality(evidence) < Threshold
=============================================================================
