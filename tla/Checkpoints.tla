---------------------------- MODULE Checkpoints ----------------------------
(***************************************************************************)
(* The checkpoints of one scope: "I stopped here, continue from where I    *)
(* left off" (core/checkpoints/manager.py, core/facade.py,                 *)
(* providers/sqlite/checkpoint_store.py), and the Hermes plugin's hooks    *)
(* that ask for one when a session ends (hermes_plugin/__init__.py).       *)
(*                                                                         *)
(* A request reads the latest checkpoint and inserts the next one in       *)
(* separate transactions; one that summarizes a session's text reads it a  *)
(* first time before it calls the model.  The table is append-only.        *)
(***************************************************************************)
EXTENDS Integers, Sequences

CONSTANTS
    Requests,       \* requests for a checkpoint of the scope, one each
    Turns,          \* turns of the Hermes conversation
    NoTurn,         \* no text pending
    Texts,          \* what a field of a checkpoint may list
    Contents        \* what callers and the model put into a checkpoint

\* goal and current hold one text or none; the order of a list is left out.
Fields == {"goal", "current", "completed", "blockers", "next_steps", "memory_ids"}
Content == [Fields -> SUBSET Texts]

ASSUME CheckpointsAssumption ==
    /\ Contents \subseteq Content
    /\ NoTurn \notin Turns

VARIABLES
    checkpoints,    \* the table, in the order of insertion
    request,        \* what each request has read and means to save
    pending,        \* _last_turn: the text a session hook would send
    observed        \* the turns the conversation has had

vars == <<checkpoints, request, pending, observed>>

Blank == [f \in Fields |-> {}]

\* Version 0 stands for "no previous checkpoint": all its fields are empty.
NoCheckpoint == [version |-> 0, content |-> Blank]
Base == [version : Nat, content : Content]

\* A row of the table; since is not in the code: the rows there were when the
\* request first looked at the table.
Checkpoint == [version : Nat \ {0}, content : Content, turn : Turns \cup {NoTurn},
               text : BOOLEAN, since : Nat]

Request == [phase : {"idle", "posted", "summarizing", "creating", "saving", "ended"},
            turn : Turns \cup {NoTurn}, text : BOOLEAN, previous : Base,
            content : Content, since : Nat]

NoRequest == [phase |-> "idle", turn |-> NoTurn, text |-> FALSE, previous |-> NoCheckpoint,
              content |-> Blank, since |-> 0]

Init ==
    /\ checkpoints = <<>>
    /\ request = [r \in Requests |-> NoRequest]
    /\ pending = NoTurn
    /\ observed = {}

----------------------------------------------------------------------------
(* What a checkpoint is made of. *)

\* Slip: ORDER BY version, without DESC.
EarliestVersion == {i \in DOMAIN checkpoints :
              \A j \in DOMAIN checkpoints : checkpoints[j].version >= checkpoints[i].version}

\* ORDER BY version DESC LIMIT 1: of equal versions, whichever comes first.
Latest == {i \in DOMAIN checkpoints :
              \A j \in DOMAIN checkpoints : checkpoints[j].version <= checkpoints[i].version}

LatestBases ==
    IF checkpoints = <<>>
        THEN {NoCheckpoint}
        ELSE {[version |-> checkpoints[i].version, content |-> checkpoints[i].content] : i \in Latest}

\* A field left empty is carried forward from the previous checkpoint.
CarryForward(new, old) == [f \in Fields |-> IF new[f] = {} THEN old[f] ELSE new[f]]

\* Slip: the session's own list replaces the completed work.
MergeReplacing(summary, old) == CarryForward(summary, old)

\* Completed work accumulates; steps it lists are no longer carried as next.
MergeSummary(summary, old) ==
    LET completed == old.completed \cup summary.completed
        next == [old EXCEPT !.next_steps = @ \ completed, !.blockers = {}, !.memory_ids = {}]
    IN  [CarryForward(summary, next) EXCEPT !.completed = completed]

----------------------------------------------------------------------------
(* The Hermes plugin, in its own process. *)

\* observe_turn: the text of the turn replaces the one before it.
ObserveTurn(t) ==
    /\ t \notin observed
    /\ observed' = observed \cup {t}
    /\ pending' = t
    /\ UNCHANGED <<checkpoints, request>>

\* Slip: the text stays pending.
FlushWithoutClearing(r) ==
    /\ request[r].phase = "idle"
    /\ pending # NoTurn
    /\ request' = [request EXCEPT ![r].phase = "posted", ![r].turn = pending, ![r].text = TRUE]
    /\ UNCHANGED <<checkpoints, pending, observed>>

\* on_session_end, on_session_finalize, on_session_reset: take the text, clear it,
\* and post it from a daemon thread.
Flush(r) ==
    /\ request[r].phase = "idle"
    /\ pending # NoTurn
    /\ request' = [request EXCEPT ![r].phase = "posted", ![r].turn = pending, ![r].text = TRUE]
    /\ pending' = NoTurn
    /\ UNCHANGED <<checkpoints, observed>>

----------------------------------------------------------------------------
(* The API: every request is served by a thread of its own. *)

\* Claude Code's and Codex' session hooks post the text of a transcript.
PostTranscript(r) ==
    /\ request[r].phase = "idle"
    /\ request' = [request EXCEPT ![r].phase = "posted", ![r].text = TRUE]
    /\ UNCHANGED <<checkpoints, pending, observed>>

\* checkpoint_from_text reads the previous checkpoint for the model to continue.
ReadPrevious(r) ==
    /\ request[r].phase = "posted"
    /\ \E base \in LatestBases :
          request' = [request EXCEPT ![r].phase = "summarizing", ![r].previous = base,
                                     ![r].since = Len(checkpoints)]
    /\ UNCHANGED <<checkpoints, pending, observed>>

\* The model answers, with any fields empty, and its answer is merged with what was
\* read.  memory_ids are the caller's.
Summarize(r) ==
    /\ request[r].phase = "summarizing"
    /\ \E summary \in Contents :
          request' = [request EXCEPT
                ![r].phase = "creating",
                ![r].content = MergeSummary(summary, request[r].previous.content)]
    /\ UNCHANGED <<checkpoints, pending, observed>>

\* /checkpoint and its tool, and observe() on a milestone event: fields as given.
Give(r) ==
    /\ request[r].phase = "idle"
    /\ \E given \in Contents :
          request' = [request EXCEPT ![r].phase = "creating", ![r].content = given]
    /\ UNCHANGED <<checkpoints, pending, observed>>

\* CheckpointManager.create reads the latest checkpoint, once more after a summary ...
ReadLatest(r) ==
    /\ request[r].phase = "creating"
    /\ \E base \in LatestBases :
          request' = [request EXCEPT
                ![r].phase = "saving",
                ![r].previous = base,
                ![r].content = CarryForward(@, base.content),
                ![r].since = IF request[r].text THEN @ ELSE Len(checkpoints)]
    /\ UNCHANGED <<checkpoints, pending, observed>>

\* ... and inserts the next one.
Save(r) ==
    /\ request[r].phase = "saving"
    /\ checkpoints' = Append(checkpoints,
            [version |-> request[r].previous.version + 1,
             content |-> request[r].content,
             turn |-> request[r].turn,
             text |-> request[r].text,
             since |-> request[r].since])
    /\ request' = [request EXCEPT ![r].phase = "ended"]
    /\ UNCHANGED <<pending, observed>>

\* The post never arrives, the model's call raises, or a process dies: errors are
\* swallowed and nothing is tried again.
Fail(r) ==
    /\ request[r].phase \in {"posted", "summarizing", "creating", "saving"}
    /\ request' = [request EXCEPT ![r].phase = "ended"]
    /\ UNCHANGED <<checkpoints, pending, observed>>

Next ==
    \/ \E t \in Turns : ObserveTurn(t)
    \/ \E r \in Requests :
          \/ Flush(r) \/ PostTranscript(r) \/ ReadPrevious(r) \/ Summarize(r)
          \/ Give(r) \/ ReadLatest(r) \/ Save(r) \/ Fail(r)

Spec == Init /\ [][Next]_vars

----------------------------------------------------------------------------
(* Properties. *)

\* Every variable has its type.
TypeOK ==
    /\ checkpoints \in Seq(Checkpoint)
    /\ request \in [Requests -> Request]
    /\ pending \in Turns \cup {NoTurn}
    /\ observed \subseteq Turns

\* Whatever hooks follow each other at the end of a session, and however slow the
\* posts are, no turn of the conversation is checkpointed twice.
TurnsCheckpointedOnce ==
    \A i, j \in DOMAIN checkpoints :
        i # j /\ checkpoints[i].turn = checkpoints[j].turn => checkpoints[i].turn = NoTurn

\* A checkpoint is newer than all that had been saved when its request began: only
\* requests that overlap share a version, or leave the older work as the latest.
NewerThanSeen ==
    \A i \in DOMAIN checkpoints : \A j \in 1..checkpoints[i].since :
        checkpoints[j].version < checkpoints[i].version

\* The latest of the first n rows.
SeenLatest(n) ==
    {j \in 1..n : \A k \in 1..n : checkpoints[k].version <= checkpoints[j].version}

\* Nothing of an older checkpoint is emptied.  A session's text may answer its blockers
\* and finish its steps, and loses none of the completed work.
Keeps(new, old, text) ==
    /\ \A f \in {"goal", "current"} : old[f] # {} => new[f] # {}
    /\ ~(old.next_steps \subseteq new.completed) => new.next_steps # {}
    /\ IF text THEN old.completed \subseteq new.completed
               ELSE \A f \in Fields : old[f] # {} => new[f] # {}

\* Whatever is saved in between, and whichever row of two with one version the second
\* read returns: a checkpoint keeps the hand-off state its request saw first.
SeenIsKept ==
    \A i \in DOMAIN checkpoints : checkpoints[i].since > 0 =>
        \E j \in SeenLatest(checkpoints[i].since) :
            Keeps(checkpoints[i].content, checkpoints[j].content, checkpoints[i].text)
=============================================================================
