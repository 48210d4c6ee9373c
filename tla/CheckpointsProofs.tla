------------------------- MODULE CheckpointsProofs -------------------------
(***************************************************************************)
(* Proofs about Checkpoints: every text of a Hermes turn is in one place    *)
(* at a time, and what a request saw first stays in what it means to save.  *)
(***************************************************************************)
EXTENDS Checkpoints, SequenceTheorems, TLAPS

----------------------------------------------------------------------------
(* The inductive invariant. *)

\* Where the text of a turn is: pending, with one request, or in one row.
TurnsApart ==
    /\ pending \in observed \cup {NoTurn}
    /\ \A r \in Requests :
          /\ request[r].turn \in observed \cup {NoTurn}
          /\ request[r].turn = pending => pending = NoTurn
          /\ request[r].phase = "idle" => request[r].turn = NoTurn
    /\ \A r, s \in Requests :
          r # s /\ request[r].turn = request[s].turn => request[r].turn = NoTurn
    /\ \A i \in DOMAIN checkpoints : checkpoints[i].turn # NoTurn =>
          \E r \in Requests : request[r].phase = "ended" /\ request[r].turn = checkpoints[i].turn

\* What a request holds of the rows it saw.
ReadSound(q) ==
    /\ q.phase = "idle" => ~q.text
    /\ q.phase \in {"posted", "summarizing"} => q.text
    /\ q.since <= Len(checkpoints)
    /\ q.phase = "summarizing" /\ q.since > 0 =>
          \E j \in SeenLatest(q.since) : q.previous.content = checkpoints[j].content
    /\ q.phase = "creating" /\ q.text /\ q.since > 0 =>
          \E j \in SeenLatest(q.since) : Keeps(q.content, checkpoints[j].content, TRUE)
    /\ q.phase = "saving" =>
          \A j \in 1..q.since : checkpoints[j].version <= q.previous.version
    /\ q.phase = "saving" /\ q.since > 0 =>
          \E j \in SeenLatest(q.since) : Keeps(q.content, checkpoints[j].content, q.text)

ReadsSound == \A r \in Requests : ReadSound(request[r])

\* A row is younger than the rows its request saw first.
RowsAge == \A i \in DOMAIN checkpoints : checkpoints[i].since < i

Inv ==
    /\ TypeOK
    /\ TurnsApart
    /\ ReadsSound
    /\ RowsAge
    /\ TurnsCheckpointedOnce
    /\ NewerThanSeen
    /\ SeenIsKept

----------------------------------------------------------------------------
(* Contents. *)

\* Carrying forward makes a content, and empties no field of either.
LEMMA CarryContent ==
    ASSUME NEW new \in Content, NEW old \in Content
    PROVE  /\ CarryForward(new, old) \in Content
           /\ \A f \in Fields : new[f] # {} => CarryForward(new, old)[f] = new[f]
           /\ \A f \in Fields : old[f] # {} => CarryForward(new, old)[f] # {}
           /\ \A f \in Fields : new[f] \subseteq CarryForward(new, old)[f]
  BY DEF CarryForward, Content

\* A caller's fields keep what they are carried forward from, and a merged summary
\* keeps what it did whatever it is carried forward from next.
LEMMA CarryKeeps ==
    ASSUME NEW new \in Content, NEW base \in Content, NEW old \in Content
    PROVE  /\ Keeps(CarryForward(new, base), base, FALSE)
           /\ Keeps(new, old, TRUE) => Keeps(CarryForward(new, base), old, TRUE)
  <1>1. {"goal", "current", "completed", "next_steps"} \subseteq Fields
    BY DEF Fields
  <1>2. Keeps(CarryForward(new, base), base, FALSE)
    <2>1. \A f \in Fields : base[f] # {} => CarryForward(new, base)[f] # {}
      BY CarryContent
    <2>2. base["next_steps"] # {} => CarryForward(new, base)["next_steps"] # {}
      BY <2>1, <1>1
    <2> QED
      BY <2>1, <2>2, <1>1 DEF Keeps
  <1>3. ASSUME Keeps(new, old, TRUE)
        PROVE  Keeps(CarryForward(new, base), old, TRUE)
    <2> DEFINE c == CarryForward(new, base)
    <2>1. /\ \A f \in Fields : new[f] # {} => c[f] = new[f]
          /\ \A f \in Fields : new[f] \subseteq c[f]
      BY CarryContent
    <2> HIDE DEF c
    <2>2. new["completed"] \subseteq c["completed"] /\ (new["next_steps"] # {} => c["next_steps"] # {})
      BY <2>1, <1>1
    <2>3. \A f \in {"goal", "current"} : old[f] # {} => c[f] # {}
      BY <2>1, <1>1, <1>3 DEF Keeps
    <2>4. ~(old["next_steps"] \subseteq c["completed"]) => c["next_steps"] # {}
      BY <2>2, <1>3 DEF Keeps
    <2>5. old["completed"] \subseteq c["completed"]
      BY <2>2, <1>3 DEF Keeps
    <2> QED
      BY <2>3, <2>4, <2>5 DEF Keeps, c
  <1> QED
    BY <1>2, <1>3

\* The merge makes a content that keeps the old one.
LEMMA MergeContent ==
    ASSUME NEW summary \in Content, NEW old \in Content
    PROVE  /\ MergeSummary(summary, old) \in Content
           /\ Keeps(MergeSummary(summary, old), old, TRUE)
  <1> DEFINE completed == old.completed \cup summary.completed
             next == [old EXCEPT !.next_steps = @ \ completed, !.blockers = {}, !.memory_ids = {}]
             merged == MergeSummary(summary, old)
  <1>1. /\ next \in Content
        /\ next["goal"] = old["goal"] /\ next["current"] = old["current"]
        /\ next["next_steps"] = old["next_steps"] \ completed
    BY DEF Content, Fields
  <1> HIDE DEF next
  <1>2. /\ CarryForward(summary, next) \in Content
        /\ \A f \in Fields : next[f] # {} => CarryForward(summary, next)[f] # {}
    BY <1>1, CarryContent
  <1>3. merged = [CarryForward(summary, next) EXCEPT !.completed = completed]
    BY DEF MergeSummary, next
  <1>4. completed \in SUBSET Texts
    BY DEF Content, Fields
  <1>5. {"completed", "goal", "current", "next_steps"} \subseteq Fields
    BY DEF Fields
  <1>6. old["completed"] \subseteq completed
    OBVIOUS
  <1> HIDE DEF completed, merged
  <1>7. /\ merged \in Content /\ merged["completed"] = completed
        /\ \A f \in {"goal", "current", "next_steps"} : merged[f] = CarryForward(summary, next)[f]
    BY <1>2, <1>3, <1>4, <1>5 DEF Content
  <1>8. \A f \in {"goal", "current", "next_steps"} : next[f] # {} => merged[f] # {}
    BY <1>2, <1>5, <1>7
  <1>9. Keeps(merged, old, TRUE)
    BY <1>1, <1>6, <1>7, <1>8 DEF Keeps
  <1> QED
    BY <1>7, <1>9 DEF merged

\* No previous checkpoint is an empty one.
LEMMA NothingTyped == NoCheckpoint \in Base
  BY DEF NoCheckpoint, Base, Blank, Content

\* A base that is read is well typed, it is one of the latest rows if there are any, and
\* no row has a higher version.
LEMMA BasesLatest ==
    ASSUME TypeOK, NEW base \in LatestBases
    PROVE  /\ base \in Base
           /\ \A j \in DOMAIN checkpoints : checkpoints[j].version <= base.version
           /\ Len(checkpoints) > 0 =>
                 \E j \in SeenLatest(Len(checkpoints)) : base.content = checkpoints[j].content
  <1>1. CASE checkpoints = <<>>
    <2>1. base = NoCheckpoint /\ DOMAIN checkpoints = {} /\ Len(checkpoints) = 0
      BY <1>1 DEF LatestBases
    <2> QED
      BY <2>1, NothingTyped
  <1>2. CASE checkpoints # <<>>
    <2>1. PICK i \in Latest :
              base = [version |-> checkpoints[i].version, content |-> checkpoints[i].content]
      BY <1>2 DEF LatestBases
    <2>2. /\ i \in DOMAIN checkpoints
          /\ \A j \in DOMAIN checkpoints : checkpoints[j].version <= checkpoints[i].version
      BY <2>1 DEF Latest
    <2>3. checkpoints[i] \in Checkpoint /\ DOMAIN checkpoints = 1..Len(checkpoints)
      BY <2>2 DEF TypeOK
    <2>4. base \in Base /\ base.version = checkpoints[i].version /\ base.content = checkpoints[i].content
      BY <2>1, <2>3 DEF Base, Checkpoint
    <2>5. i \in SeenLatest(Len(checkpoints))
      BY <2>2, <2>3 DEF SeenLatest
    <2> QED
      BY <2>2, <2>4, <2>5
  <1> QED
    BY <1>1, <1>2

----------------------------------------------------------------------------
(* Steps that leave the table alone. *)

\* What does not touch the table keeps what is said of its rows alone.
LEMMA SameRows ==
    ASSUME Inv, UNCHANGED checkpoints
    PROVE  RowsAge' /\ TurnsCheckpointedOnce' /\ NewerThanSeen' /\ SeenIsKept'
  BY DEF Inv, RowsAge, TurnsCheckpointedOnce, NewerThanSeen, SeenIsKept, SeenLatest

\* The table is empty and nothing has been asked for.
LEMMA InitInv == Init => Inv
  <1> SUFFICES ASSUME Init PROVE Inv
    OBVIOUS
  <1> USE DEF Init
  <1>1. DOMAIN checkpoints = {} /\ checkpoints \in Seq(Checkpoint) /\ Len(checkpoints) = 0
    OBVIOUS
  <1>2. NoRequest \in Request
    BY NothingTyped DEF NoRequest, Request, Blank, Content, NoCheckpoint
  <1>3. TypeOK
    BY <1>1, <1>2 DEF TypeOK
  <1>4. TurnsApart /\ TurnsCheckpointedOnce /\ RowsAge /\ NewerThanSeen /\ SeenIsKept
    BY <1>1 DEF TurnsApart, NoRequest, TurnsCheckpointedOnce, RowsAge, NewerThanSeen, SeenIsKept
  <1> HIDE DEF Init
  <1>6. NoRequest.phase = "idle" /\ NoRequest.text = FALSE /\ NoRequest.since = 0
    BY DEF NoRequest
  <1>7. ReadSound(NoRequest)
    BY <1>1, <1>6 DEF ReadSound
  <1>8. ReadsSound
    BY <1>7 DEF ReadsSound, Init
  <1> QED
    BY <1>3, <1>4, <1>8 DEF Inv

\* A step of one request that leaves the table and the turns alone.
LEMMA RequestStep ==
    ASSUME Inv, NEW r \in Requests, NEW q \in Request,
           request' = [request EXCEPT ![r] = q],
           UNCHANGED <<checkpoints, pending, observed>>,
           q.turn = request[r].turn,
           q.phase # "idle", request[r].phase # "ended",
           ReadSound(q)
    PROVE  Inv'
  <1>1. \A s \in Requests : request'[s] = IF s = r THEN q ELSE request[s]
    BY DEF Inv, TypeOK
  <1>2. TypeOK'
    BY DEF Inv, TypeOK
  <1>3. TurnsApart'
    BY <1>1 DEF Inv, TurnsApart
  <1>4. \A p : ReadSound(p) => ReadSound(p)'
    BY DEF ReadSound, SeenLatest
  <1>5. ReadsSound'
    <2> SUFFICES ASSUME NEW s \in Requests PROVE ReadSound(request[s])'
      BY DEF ReadsSound
    <2>1. ReadSound(request'[s])
      BY <1>1 DEF Inv, ReadsSound
    <2> QED
      BY <2>1 DEF ReadSound, SeenLatest
  <1> QED
    BY <1>2, <1>3, <1>5, SameRows DEF Inv

\* What the invariant says of one request.
LEMMA RequestFacts ==
    ASSUME Inv, NEW r \in Requests
    PROVE  /\ request[r] \in Request
           /\ ReadSound(request[r])
           /\ Len(checkpoints) \in Nat
           /\ DOMAIN checkpoints = 1..Len(checkpoints)
  BY DEF Inv, TypeOK, ReadsSound

\* A request saw some of the rows there are.
LEMMA SinceSeen ==
    ASSUME Inv, NEW r \in Requests
    PROVE  request[r].since \in Nat /\ request[r].since <= Len(checkpoints)
  <1>1. request[r] \in Request /\ ReadSound(request[r])
    BY RequestFacts
  <1> QED
    BY <1>1 DEF Request, ReadSound

\* A transcript is posted.
LEMMA PostTranscriptInv ==
    ASSUME Inv, NEW r \in Requests, PostTranscript(r)
    PROVE  Inv'
  <1> DEFINE q == [request[r] EXCEPT !.phase = "posted", !.text = TRUE]
  <1>1. request' = [request EXCEPT ![r] = q] /\ request[r].phase = "idle"
    BY DEF PostTranscript
  <1>2. /\ q \in Request /\ q.phase = "posted" /\ q.text = TRUE
        /\ q.turn = request[r].turn /\ q.since = request[r].since
    BY RequestFacts DEF Request
  <1>3. UNCHANGED <<checkpoints, pending, observed>>
    BY DEF PostTranscript
  <1> HIDE DEF q
  <1>4. ReadSound(q)
    BY <1>2, RequestFacts DEF ReadSound
  <1> QED
    BY <1>1, <1>2, <1>3, <1>4, RequestStep

\* The latest checkpoint is read for the model.
LEMMA ReadPreviousInv ==
    ASSUME Inv, NEW r \in Requests, ReadPrevious(r)
    PROVE  Inv'
  <1>1. PICK base \in LatestBases :
            request' = [request EXCEPT ![r].phase = "summarizing", ![r].previous = base,
                                       ![r].since = Len(checkpoints)]
    BY DEF ReadPrevious
  <1>2. /\ base \in Base
        /\ Len(checkpoints) > 0 =>
              \E j \in SeenLatest(Len(checkpoints)) : base.content = checkpoints[j].content
    BY BasesLatest DEF Inv
  <1> DEFINE q == [request[r] EXCEPT !.phase = "summarizing", !.previous = base,
                                     !.since = Len(checkpoints)]
  <1>3. request' = [request EXCEPT ![r] = q]
    BY <1>1
  <1>4. /\ q \in Request /\ q.phase = "summarizing" /\ q.text = request[r].text
        /\ q.turn = request[r].turn /\ q.since = Len(checkpoints) /\ q.previous = base
    BY <1>2, RequestFacts DEF Request
  <1>5. UNCHANGED <<checkpoints, pending, observed>> /\ request[r].phase = "posted"
    BY DEF ReadPrevious
  <1> HIDE DEF q
  <1>6. Len(checkpoints) > 0 =>
            \E j \in SeenLatest(q.since) : q.previous.content = checkpoints[j].content
    BY <1>2, <1>4
  <1>7. q.text = TRUE
    BY <1>4, <1>5, RequestFacts DEF ReadSound, Request
  <1>8. ReadSound(q)
    BY <1>4, <1>6, <1>7, RequestFacts DEF ReadSound
  <1> QED
    BY <1>3, <1>4, <1>5, <1>8, RequestStep

\* The summary is merged with what was read.
LEMMA SummarizeInv ==
    ASSUME Inv, NEW r \in Requests, Summarize(r)
    PROVE  Inv'
  <1>1. PICK summary \in Contents :
            request' = [request EXCEPT
                ![r].phase = "creating",
                ![r].content = MergeSummary(summary, request[r].previous.content)]
    BY DEF Summarize
  <1> DEFINE merged == MergeSummary(summary, request[r].previous.content)
             q == [request[r] EXCEPT !.phase = "creating", !.content = merged]
  <1>2. request[r].previous \in Base /\ request[r].previous.content \in Content
    BY RequestFacts DEF Request, Base
  <1>3. summary \in Content
    BY CheckpointsAssumption
  <1>4. merged \in Content /\ Keeps(merged, request[r].previous.content, TRUE)
    BY <1>2, <1>3, MergeContent
  <1>5. request' = [request EXCEPT ![r] = q]
    BY <1>1
  <1> HIDE DEF merged
  <1>6. /\ q \in Request /\ q.phase = "creating" /\ q.text = request[r].text
        /\ q.turn = request[r].turn /\ q.since = request[r].since /\ q.content = merged
    BY <1>4, RequestFacts DEF Request
  <1>7. UNCHANGED <<checkpoints, pending, observed>> /\ request[r].phase = "summarizing"
    BY DEF Summarize
  <1> HIDE DEF q
  <1>8. request[r].since > 0 =>
            \E j \in SeenLatest(request[r].since) : Keeps(merged, checkpoints[j].content, TRUE)
    BY <1>4, <1>7, RequestFacts DEF ReadSound
  <1>9. ReadSound(q)
    BY <1>6, <1>7, <1>8, RequestFacts DEF ReadSound
  <1> QED
    BY <1>5, <1>6, <1>7, <1>9, RequestStep

\* A caller gives the fields.
LEMMA GiveInv ==
    ASSUME Inv, NEW r \in Requests, Give(r)
    PROVE  Inv'
  <1>1. PICK given \in Contents :
            request' = [request EXCEPT ![r].phase = "creating", ![r].content = given]
    BY DEF Give
  <1> DEFINE q == [request[r] EXCEPT !.phase = "creating", !.content = given]
  <1>2. request' = [request EXCEPT ![r] = q]
    BY <1>1
  <1>3. given \in Content
    BY CheckpointsAssumption
  <1>4. /\ q \in Request /\ q.phase = "creating" /\ q.text = request[r].text
        /\ q.turn = request[r].turn /\ q.since = request[r].since
    BY <1>3, RequestFacts DEF Request
  <1>5. UNCHANGED <<checkpoints, pending, observed>> /\ request[r].phase = "idle"
    BY DEF Give
  <1> HIDE DEF q
  <1>6. ReadSound(q)
    BY <1>4, <1>5, RequestFacts DEF ReadSound
  <1> QED
    BY <1>2, <1>4, <1>5, <1>6, RequestStep

\* The latest checkpoint is read, and what it carries forward is filled in.
LEMMA ReadLatestInv ==
    ASSUME Inv, NEW r \in Requests, ReadLatest(r)
    PROVE  Inv'
  <1>1. PICK base \in LatestBases :
            request' = [request EXCEPT
                ![r].phase = "saving",
                ![r].previous = base,
                ![r].content = CarryForward(@, base.content),
                ![r].since = IF request[r].text THEN @ ELSE Len(checkpoints)]
    BY DEF ReadLatest
  <1>2. /\ base \in Base
        /\ \A j \in DOMAIN checkpoints : checkpoints[j].version <= base.version
        /\ Len(checkpoints) > 0 =>
              \E j \in SeenLatest(Len(checkpoints)) : base.content = checkpoints[j].content
    BY BasesLatest DEF Inv
  <1> DEFINE old == request[r].content
             new == CarryForward(old, base.content)
             since == IF request[r].text THEN request[r].since ELSE Len(checkpoints)
             q == [request[r] EXCEPT !.phase = "saving", !.previous = base,
                                     !.content = new, !.since = since]
  <1>3. request' = [request EXCEPT ![r] = q]
    BY <1>1
  <1>4. old \in Content /\ base.content \in Content
    BY <1>2, RequestFacts DEF Request, Base
  <1>5. new \in Content
    BY <1>4, CarryContent
  <1>6. since \in Nat /\ since <= Len(checkpoints)
    BY RequestFacts, SinceSeen
  <1>7. UNCHANGED <<checkpoints, pending, observed>> /\ request[r].phase = "creating"
    BY DEF ReadLatest
  <1> HIDE DEF new, since
  <1>8. /\ q \in Request /\ q.phase = "saving" /\ q.text = request[r].text
        /\ q.turn = request[r].turn /\ q.since = since /\ q.content = new /\ q.previous = base
    BY <1>2, <1>5, <1>6, RequestFacts DEF Request
  <1> HIDE DEF q
  <1>9. ASSUME request[r].text, since > 0
        PROVE  \E j \in SeenLatest(since) : Keeps(new, checkpoints[j].content, TRUE)
    <2>1. since = request[r].since
      BY <1>9 DEF since
    <2>2. PICK j \in SeenLatest(since) : Keeps(old, checkpoints[j].content, TRUE)
      BY <1>7, <1>9, <2>1, RequestFacts DEF ReadSound
    <2>3. j \in DOMAIN checkpoints
      BY <1>6, <2>2, RequestFacts DEF SeenLatest
    <2>4. checkpoints[j].content \in Content
      <3>1. checkpoints[j] \in Checkpoint
        BY <2>3 DEF Inv, TypeOK
      <3> QED
        BY <3>1 DEF Checkpoint
    <2>5. Keeps(new, checkpoints[j].content, TRUE)
      BY <1>4, <2>2, <2>4, CarryKeeps DEF new
    <2> QED
      BY <2>2, <2>5
  <1>10. ASSUME ~request[r].text, since > 0
         PROVE  \E j \in SeenLatest(since) : Keeps(new, checkpoints[j].content, FALSE)
    <2>1. since = Len(checkpoints)
      BY <1>10 DEF since
    <2>2. PICK j \in SeenLatest(since) : base.content = checkpoints[j].content
      BY <1>2, <1>10, <2>1
    <2>3. Keeps(new, base.content, FALSE)
      BY <1>4, CarryKeeps DEF new
    <2> QED
      BY <2>2, <2>3
  <1>11. \A j \in 1..since : checkpoints[j].version <= base.version
    BY <1>2, <1>6, RequestFacts
  <1>12. since > 0 =>
             \E j \in SeenLatest(since) : Keeps(new, checkpoints[j].content, request[r].text)
    <2>1. request[r].text \in BOOLEAN
      BY RequestFacts DEF Request
    <2>2. CASE request[r].text = TRUE
      BY <1>9, <2>2
    <2>3. CASE request[r].text = FALSE
      BY <1>10, <2>3
    <2> QED
      BY <2>1, <2>2, <2>3
  <1>13. ReadSound(q)
    BY <1>6, <1>8, <1>11, <1>12 DEF ReadSound
  <1> QED
    BY <1>3, <1>7, <1>8, <1>13, RequestStep

\* A request fails.
LEMMA FailInv ==
    ASSUME Inv, NEW r \in Requests, Fail(r)
    PROVE  Inv'
  <1> DEFINE q == [request[r] EXCEPT !.phase = "ended"]
  <1>1. request' = [request EXCEPT ![r] = q]
    BY DEF Fail
  <1>2. /\ q \in Request /\ q.phase = "ended"
        /\ q.turn = request[r].turn /\ q.since = request[r].since
    BY RequestFacts DEF Request
  <1>3. UNCHANGED <<checkpoints, pending, observed>> /\ request[r].phase # "ended"
    BY DEF Fail
  <1> HIDE DEF q
  <1>4. ReadSound(q)
    BY <1>2, RequestFacts DEF ReadSound
  <1> QED
    BY <1>1, <1>2, <1>3, <1>4, RequestStep

----------------------------------------------------------------------------
(* Steps that move a turn's text, and the insertion. *)

\* A turn replaces the pending text.
LEMMA ObserveTurnInv ==
    ASSUME Inv, NEW t \in Turns, ObserveTurn(t)
    PROVE  Inv'
  <1> USE DEF ObserveTurn
  <1>1. TypeOK'
    BY DEF Inv, TypeOK
  <1>2. t # NoTurn
    BY CheckpointsAssumption
  <1>3. TurnsApart'
    BY <1>2 DEF Inv, TurnsApart
  <1>4. ReadsSound'
    BY DEF Inv, ReadsSound, ReadSound, SeenLatest
  <1> QED
    BY <1>1, <1>3, <1>4, SameRows DEF Inv

\* A hook takes the pending text.
LEMMA FlushInv ==
    ASSUME Inv, NEW r \in Requests, Flush(r)
    PROVE  Inv'
  <1> DEFINE q == [request[r] EXCEPT !.phase = "posted", !.turn = pending, !.text = TRUE]
  <1>1. /\ request' = [request EXCEPT ![r] = q] /\ pending' = NoTurn
        /\ UNCHANGED <<checkpoints, observed>>
        /\ request[r].phase = "idle" /\ pending # NoTurn
    BY DEF Flush
  <1>2. /\ q \in Request /\ q.phase = "posted" /\ q.text = TRUE /\ q.turn = pending
        /\ q.since = request[r].since
    BY RequestFacts DEF Request, Inv, TypeOK
  <1> HIDE DEF q
  <1>3. \A s \in Requests : request'[s] = IF s = r THEN q ELSE request[s]
    BY <1>1 DEF Inv, TypeOK
  <1>4. TypeOK'
    BY <1>1, <1>2 DEF Inv, TypeOK
  <1>5. TurnsApart'
    BY <1>1, <1>2, <1>3 DEF Inv, TurnsApart
  <1>6. ReadSound(q)
    BY <1>2, RequestFacts DEF ReadSound
  <1>7. ReadsSound'
    <2> SUFFICES ASSUME NEW s \in Requests PROVE ReadSound(request[s])'
      BY DEF ReadsSound
    <2>1. ReadSound(request'[s])
      BY <1>3, <1>6 DEF Inv, ReadsSound
    <2> QED
      BY <1>1, <2>1 DEF ReadSound, SeenLatest
  <1> QED
    BY <1>1, <1>4, <1>5, <1>7, SameRows DEF Inv

\* A checkpoint is inserted: what others have seen stays as it was.
LEMMA SaveInv ==
    ASSUME Inv, NEW r \in Requests, Save(r)
    PROVE  Inv'
  <1> DEFINE n == Len(checkpoints)
             row == [version |-> request[r].previous.version + 1,
                     content |-> request[r].content, turn |-> request[r].turn,
                     text |-> request[r].text, since |-> request[r].since]
             q == [request[r] EXCEPT !.phase = "ended"]
  <1>1. /\ checkpoints' = Append(checkpoints, row) /\ request' = [request EXCEPT ![r] = q]
        /\ UNCHANGED <<pending, observed>> /\ request[r].phase = "saving"
    BY DEF Save
  <1>2. /\ q \in Request /\ q.phase = "ended" /\ q.turn = request[r].turn
        /\ q.since = request[r].since
    BY RequestFacts DEF Request
  <1>3. /\ row \in Checkpoint
        /\ row.version = request[r].previous.version + 1 /\ row.content = request[r].content
        /\ row.turn = request[r].turn /\ row.text = request[r].text
        /\ row.since = request[r].since /\ row.since \in Nat
        /\ request[r].previous.version \in Nat
    BY RequestFacts DEF Request, Base, Checkpoint
  <1>4. /\ n \in Nat /\ DOMAIN checkpoints = 1..n /\ DOMAIN checkpoints' = 1..(n + 1)
        /\ Len(checkpoints') = n + 1
        /\ \A i \in 1..n : checkpoints'[i] = checkpoints[i]
        /\ checkpoints'[n + 1] = row
        /\ checkpoints' \in Seq(Checkpoint)
    BY <1>1, <1>3 DEF Inv, TypeOK
  <1>5. \A s \in Requests : request'[s] = IF s = r THEN q ELSE request[s]
    BY <1>1 DEF Inv, TypeOK
  <1>6. ReadSound(request[r])
    BY RequestFacts
  <1>7. request[r].since <= n
    BY <1>6 DEF ReadSound
  <1>8. \A i \in 1..n : checkpoints[i] \in Checkpoint /\ checkpoints[i].since \in Nat
                        /\ checkpoints[i].since < i
    <2> SUFFICES ASSUME NEW i \in 1..n
                 PROVE  /\ checkpoints[i] \in Checkpoint /\ checkpoints[i].since \in Nat
                        /\ checkpoints[i].since < i
      OBVIOUS
    <2>1. checkpoints[i] \in Checkpoint
      BY <1>4 DEF Inv, TypeOK
    <2>2. checkpoints[i].since < i
      BY <1>4 DEF Inv, RowsAge
    <2> QED
      BY <2>1, <2>2 DEF Checkpoint
  <1> HIDE DEF n, row, q
  <1>9. TypeOK'
    BY <1>1, <1>2, <1>4 DEF Inv, TypeOK
  <1>10. /\ TurnsApart'
         /\ \A i \in 1..n : checkpoints[i].turn = row.turn => row.turn = NoTurn
    <2>1. ASSUME NEW i \in 1..n, checkpoints[i].turn = row.turn, row.turn # NoTurn
          PROVE  FALSE
      <3>1. PICK s \in Requests : request[s].phase = "ended" /\ request[s].turn = row.turn
        BY <1>4, <2>1 DEF Inv, TurnsApart
      <3> QED
        BY <3>1, <1>1, <1>3, <2>1 DEF Inv, TurnsApart
    <2>2. \A i \in 1..(n + 1) : checkpoints'[i].turn # NoTurn =>
              \E s \in Requests : request'[s].phase = "ended" /\ request'[s].turn = checkpoints'[i].turn
      <3> SUFFICES ASSUME NEW i \in 1..(n + 1), checkpoints'[i].turn # NoTurn
                   PROVE  \E s \in Requests :
                              request'[s].phase = "ended" /\ request'[s].turn = checkpoints'[i].turn
        OBVIOUS
      <3>1. CASE i = n + 1
        BY <3>1, <1>2, <1>3, <1>4, <1>5
      <3>2. CASE i \in 1..n
        <4>1. PICK s \in Requests : request[s].phase = "ended" /\ request[s].turn = checkpoints[i].turn
          BY <3>2, <1>4 DEF Inv, TurnsApart
        <4>2. s # r
          BY <4>1, <1>1
        <4> QED
          BY <4>1, <4>2, <3>2, <1>4, <1>5
      <3> QED
        BY <3>1, <3>2, <1>4
    <2>3. /\ pending' \in observed' \cup {NoTurn}
          /\ \A s \in Requests :
                /\ request'[s].turn \in observed' \cup {NoTurn}
                /\ request'[s].turn = pending' => pending' = NoTurn
                /\ request'[s].phase = "idle" => request'[s].turn = NoTurn
          /\ \A s, u \in Requests :
                s # u /\ request'[s].turn = request'[u].turn => request'[s].turn = NoTurn
      BY <1>1, <1>2, <1>5 DEF Inv, TurnsApart
    <2> QED
      BY <1>4, <2>1, <2>2, <2>3 DEF TurnsApart
  <1>11. ReadsSound'
    <2> SUFFICES ASSUME NEW s \in Requests PROVE ReadSound(request[s])'
      BY DEF ReadsSound
    <2>1. /\ ReadSound(request[s]) /\ request[s].since \in Nat
      BY RequestFacts DEF Request
    <2>2. CASE s = r
      <3>1. request'[s] = q /\ request'[s].since <= Len(checkpoints')
        BY <2>2, <1>2, <1>4, <1>5, <1>7, <2>1
      <3> QED
        BY <3>1, <1>2 DEF ReadSound
    <2>3. CASE s # r
      <3>1. request'[s] = request[s] /\ request[s].since <= n
        BY <2>3, <1>5, <2>1 DEF ReadSound, n
      <3>2. \A j \in 1..request[s].since : checkpoints'[j] = checkpoints[j]
        BY <3>1, <1>4, <2>1
      <3>3. SeenLatest(request[s].since)' = SeenLatest(request[s].since)
        BY <3>1, <3>2 DEF SeenLatest
      <3>4. \A j \in SeenLatest(request[s].since) : checkpoints'[j] = checkpoints[j]
        BY <3>2 DEF SeenLatest
      <3>5. request[s].since <= Len(checkpoints')
        BY <3>1, <1>4, <2>1
      <3> QED
        BY <3>1, <3>2, <3>3, <3>4, <3>5, <2>1 DEF ReadSound
    <2> QED
      BY <2>2, <2>3
  <1>12. RowsAge'
    BY <1>3, <1>4, <1>7, <1>8 DEF RowsAge
  <1>13. TurnsCheckpointedOnce'
    BY <1>4, <1>10 DEF Inv, TurnsCheckpointedOnce
  <1>14. NewerThanSeen'
    <2> SUFFICES ASSUME NEW i \in 1..(n + 1), NEW j \in 1..checkpoints'[i].since
                 PROVE  checkpoints'[j].version < checkpoints'[i].version
      BY <1>4 DEF NewerThanSeen
    <2>1. CASE i \in 1..n
      <3>1. j \in 1..n /\ j \in 1..checkpoints[i].since
        BY <2>1, <1>4, <1>8
      <3> QED
        BY <2>1, <3>1, <1>4 DEF Inv, NewerThanSeen
    <2>2. CASE i = n + 1
      <3>1. j \in 1..n /\ j \in 1..request[r].since /\ checkpoints[j].version \in Nat
        BY <2>2, <1>3, <1>4, <1>7, <1>8 DEF Checkpoint
      <3>2. checkpoints[j].version <= request[r].previous.version
        BY <3>1, <1>1, <1>6 DEF ReadSound
      <3> QED
        BY <2>2, <3>1, <3>2, <1>3, <1>4
    <2> QED
      BY <2>1, <2>2, <1>4
  <1>15. SeenIsKept'
    <2> SUFFICES ASSUME NEW i \in 1..(n + 1), checkpoints'[i].since > 0
                 PROVE  \E j \in SeenLatest(checkpoints[i].since)' :
                            Keeps(checkpoints'[i].content, checkpoints'[j].content, checkpoints'[i].text)
      BY <1>4 DEF SeenIsKept, Keeps
    <2>1. \A k \in 0..n : \A j \in SeenLatest(k) : checkpoints'[j] = checkpoints[j]
      BY <1>4 DEF SeenLatest
    <2>3. CASE i \in 1..n
      <3>1. checkpoints'[i] = checkpoints[i] /\ checkpoints[i].since \in 0..n
        BY <2>3, <1>4, <1>8
      <3>2. PICK j \in SeenLatest(checkpoints[i].since) :
                Keeps(checkpoints[i].content, checkpoints[j].content, checkpoints[i].text)
        BY <2>3, <3>1, <1>4 DEF Inv, SeenIsKept
      <3>3. SeenLatest(checkpoints[i].since)' = SeenLatest(checkpoints[i].since)
        BY <1>4, <3>1 DEF SeenLatest
      <3> QED
        BY <2>1, <3>1, <3>2, <3>3
    <2>4. CASE i = n + 1
      <3>1. checkpoints'[i] = row /\ request[r].since \in 0..n /\ request[r].since > 0
        BY <2>4, <1>3, <1>4, <1>7
      <3>2. PICK j \in SeenLatest(request[r].since) :
                Keeps(request[r].content, checkpoints[j].content, request[r].text)
        BY <3>1, <1>1, <1>6 DEF ReadSound
      <3>3. SeenLatest(checkpoints[i].since)' = SeenLatest(request[r].since)
        <4>1. checkpoints'[i].since = request[r].since
          BY <3>1, <1>3
        <4>2. \A k \in 1..request[r].since : checkpoints'[k] = checkpoints[k]
          BY <1>4, <3>1
        <4> QED
          BY <4>1, <4>2 DEF SeenLatest
      <3> QED
        BY <2>1, <3>1, <3>2, <3>3, <1>3
    <2> QED
      BY <2>3, <2>4, <1>4
  <1> QED
    BY <1>9, <1>10, <1>11, <1>12, <1>13, <1>14, <1>15 DEF Inv

\* Every step keeps the invariant.
LEMMA StepInv == Inv /\ [Next]_vars => Inv'
  <1> SUFFICES ASSUME Inv, [Next]_vars PROVE Inv'
    OBVIOUS
  <1>1. CASE UNCHANGED vars
    <2>1. TypeOK' /\ TurnsApart' /\ ReadsSound'
      BY <1>1 DEF Inv, vars, TypeOK, TurnsApart, ReadsSound, ReadSound, SeenLatest
    <2> QED
      BY <1>1, <2>1, SameRows DEF Inv, vars
  <1>2. ASSUME NEW t \in Turns, ObserveTurn(t) PROVE Inv'
    BY <1>2, ObserveTurnInv
  <1>3. ASSUME NEW r \in Requests, Flush(r) PROVE Inv'
    BY <1>3, FlushInv
  <1>4. ASSUME NEW r \in Requests, PostTranscript(r) PROVE Inv'
    BY <1>4, PostTranscriptInv
  <1>5. ASSUME NEW r \in Requests, ReadPrevious(r) PROVE Inv'
    BY <1>5, ReadPreviousInv
  <1>6. ASSUME NEW r \in Requests, Summarize(r) PROVE Inv'
    BY <1>6, SummarizeInv
  <1>7. ASSUME NEW r \in Requests, Give(r) PROVE Inv'
    BY <1>7, GiveInv
  <1>8. ASSUME NEW r \in Requests, ReadLatest(r) PROVE Inv'
    BY <1>8, ReadLatestInv
  <1>9. ASSUME NEW r \in Requests, Save(r) PROVE Inv'
    BY <1>9, SaveInv
  <1>10. ASSUME NEW r \in Requests, Fail(r) PROVE Inv'
    BY <1>10, FailInv
  <1> QED
    BY <1>1, <1>2, <1>3, <1>4, <1>5, <1>6, <1>7, <1>8, <1>9, <1>10 DEF Next

----------------------------------------------------------------------------
(* The theorems. *)

\* The invariant holds in every state.
LEMMA Invariance == Spec => []Inv
  BY InitInv, StepInv, PTL DEF Spec

\* Every state is well typed: versions count from one.
THEOREM CheckpointsTypeCorrect == Spec => []TypeOK
  <1>1. Inv => TypeOK
    BY DEF Inv
  <1> QED
    BY <1>1, Invariance, PTL

\* No turn of the Hermes conversation is checkpointed twice: its text is pending, or
\* with the one request whose hook took it, or in that request's row.
THEOREM CheckpointedOnce == Spec => []TurnsCheckpointedOnce
  <1>1. Inv => TurnsCheckpointedOnce
    BY DEF Inv
  <1> QED
    BY <1>1, Invariance, PTL

\* A checkpoint is newer than all that had been saved when its request began.
THEOREM SavedIsNewer == Spec => []NewerThanSeen
  <1>1. Inv => NewerThanSeen
    BY DEF Inv
  <1> QED
    BY <1>1, Invariance, PTL

\* What a request saw first is kept in the checkpoint it saves, whatever was saved in
\* between: the text is merged with it, and carrying forward empties nothing.
THEOREM SeenStays == Spec => []SeenIsKept
  <1>1. Inv => SeenIsKept
    BY DEF Inv
  <1> QED
    BY <1>1, Invariance, PTL
=============================================================================
