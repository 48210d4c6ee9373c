--------------------------- MODULE LifecycleProofs ---------------------------
(***************************************************************************)
(* Proofs about Lifecycle: every record of a memory, the one in the table  *)
(* and the copies that recalls and sweeps hold of it, bears out its status *)
(* by itself, so it does not matter whose copy is saved over which.        *)
(***************************************************************************)
EXTENDS Lifecycle, FiniteSetTheorems, TLAPS

-----------------------------------------------------------------------------
(* The inductive invariant. *)

Busy == {t \in Recalls : recall[t].phase # "idle"}

\* The recalls that are over.
Over == recalls - Cardinality(Busy)

\* r is the record of m in the table, or a copy that may still be saved.
About(m, r) ==
    \/ r = row[m]
    \/ \E t \in Recalls : recall[t].phase = "read" /\ m \in recall[t].of /\ r = recall[t].copy
    \/ \E s \in Sweeps : \E c \in sweep[s].todo \cup sweep[s].done : c.of = m /\ r = c.copy

\* A missing record has no uses, an expired one is old enough for its uses ...
Sane(r) ==
    /\ r \in Record
    /\ r.status = "none" => r.uses = 0
    /\ r.status = "expired" => r.age >= ExpireAfter(r.uses)

\* ... and one archived by a sweep has none.
Deserved(r) == r.status = "archived" => r.uses = 0 /\ r.age >= ExpireAfter(r.uses)

Accepted(m) == memory[m] \in {"none", "live"}

RecordsBearOut ==
    \A m \in Memories : \A r : About(m, r) =>
        /\ Sane(r)
        /\ r.uses <= Over
        /\ Accepted(m) => Deserved(r)
        /\ m \in used /\ memory[m] = "live" => r.uses > 0

\* Of a memory that does not exist yet nobody knows anything.
Unborn ==
    \A m \in Memories : memory[m] = "none" =>
        /\ row[m].status = "none" /\ m \notin used
        /\ \A t \in Recalls : m \notin recall[t].of
        /\ \A s \in Sweeps : \A c \in sweep[s].todo \cup sweep[s].done : c.of # m

Inv == TypeOK /\ RecordsBearOut /\ Unborn

-----------------------------------------------------------------------------
(* The operations on a record. *)

LEMMA Thresholds ==
  /\ Oldest \in Nat /\ MaxRecalls \in Nat
  /\ \A n \in 0..MaxRecalls : DecayAfter(n) \in Nat /\ ExpireAfter(n) \in Nat
  BY LifecycleAssumption DEF Oldest, DecayAfter, ExpireAfter

LEMMA FirstRecords == NoRecord \in Record /\ NewRecord \in Record
  BY Thresholds DEF Record, Status, NoRecord, NewRecord

\* The ways in which a record is changed without being used or superseded.
Moved(q, r) ==
    \/ r = q \/ r = Known(q) \/ r = Decayed(q) \/ r = Aged(q)
    \/ Unused(q) /\ r = Archived(q)

LEMMA MovedTyped ==
  ASSUME NEW q \in Record
  PROVE  /\ Known(q) \in Record /\ Decayed(q) \in Record /\ Aged(q) \in Record /\ Archived(q) \in Record
         /\ q.uses < MaxRecalls => Reinforced(q) \in Record
  <1>1. /\ q.status \in Status /\ q.uses \in 0..MaxRecalls /\ q.age \in 0..Oldest
        /\ q = [status |-> q.status, uses |-> q.uses, age |-> q.age]
    BY DEF Record
  <1>2. Known(q) \in Record
    BY FirstRecords DEF Known
  <1>3. Decayed(q) \in Record
    BY <1>1 DEF Decayed, Record, Status
  <1>4. Aged(q) \in Record
    BY <1>1, Thresholds DEF Aged, Record
  <1>5. Archived(q) \in Record
    BY <1>1 DEF Archived, Record, Status
  <1>6. q.uses < MaxRecalls => Reinforced(q) \in Record
    BY <1>1, Thresholds DEF Reinforced, Record, Status
  <1> QED
    BY <1>2, <1>3, <1>4, <1>5, <1>6

LEMMA MovedBearsOut ==
  ASSUME NEW q, Sane(q), NEW r, Moved(q, r)
  PROVE  Sane(r) /\ r.uses = q.uses /\ (Deserved(q) => Deserved(r))
  <1>1. /\ q.status \in Status /\ q.uses \in 0..MaxRecalls /\ q.age \in 0..Oldest /\ q \in Record
        /\ q.status = "none" => q.uses = 0
        /\ q.status = "expired" => q.age >= ExpireAfter(q.uses)
    BY DEF Sane, Record
  <1>2. r \in Record
    BY <1>1, MovedTyped DEF Moved
  <1>3. ExpireAfter(q.uses) \in Nat /\ DecayAfter(q.uses) \in Nat
    BY <1>1, Thresholds
  <1>4. CASE r = q
    BY <1>4
  <1>5. CASE r = Known(q)
    BY <1>1, <1>2, <1>5 DEF Known, NewRecord, Sane, Deserved
  <1>6. CASE r = Decayed(q)
    BY <1>1, <1>2, <1>3, <1>6 DEF Decayed, Record, Sane, Deserved
  <1>7. CASE r = Aged(q)
    BY <1>1, <1>2, <1>3, <1>7 DEF Aged, Record, Sane, Deserved
  <1>8. CASE Unused(q) /\ r = Archived(q)
    BY <1>1, <1>2, <1>3, <1>8 DEF Unused, Archived, Record, Sane, Deserved
  <1> QED
    BY <1>4, <1>5, <1>6, <1>7, <1>8 DEF Moved

LEMMA ReinforcedBearsOut ==
  ASSUME NEW q, Sane(q), q.uses < MaxRecalls
  PROVE  /\ Sane(Reinforced(q)) /\ Reinforced(q).uses \in {q.uses, q.uses + 1}
         /\ Deserved(q) => Deserved(Reinforced(q))
         /\ q.status \notin Retired => Reinforced(q).uses > 0
  <1>1. q \in Record /\ q.uses \in 0..MaxRecalls
    BY DEF Sane, Record
  <1>2. Reinforced(q) \in Record /\ q.uses \in Nat
    BY <1>1, MovedTyped, Thresholds
  <1> QED
    BY <1>1, <1>2 DEF Reinforced, Sane, Deserved, Retired

\* Superseded or purged, it need bear out nothing but its type.
LEMMA LeftBearsOut ==
  ASSUME NEW q, Sane(q), NEW r, r = NoRecord \/ r = Archived(Known(q))
  PROVE  Sane(r) /\ r.uses \in 0..q.uses
  <1>1. q \in Record /\ q.uses \in Nat
    BY DEF Sane, Record
  <1>2. Known(q) \in Record /\ Archived(Known(q)) \in Record
    BY <1>1, MovedTyped
  <1>3. Known(q).uses \in 0..q.uses
    BY <1>1 DEF Known, NewRecord
  <1>4. Archived(Known(q)).status = "archived" /\ Archived(Known(q)).uses = Known(q).uses
    BY <1>2 DEF Archived, Record
  <1> QED
    BY <1>1, <1>2, <1>3, <1>4, FirstRecords DEF Sane, NoRecord
-----------------------------------------------------------------------------
(* Steps. *)

LEMMA Counting ==
  ASSUME TypeOK
  PROVE  IsFiniteSet(Busy) /\ Cardinality(Busy) \in Nat /\ Over \in Int /\ Over <= MaxRecalls
  <1>1. IsFiniteSet(Busy) /\ Cardinality(Busy) \in Nat
    BY LifecycleAssumption, FS_Subset, FS_CardinalityType DEF Busy
  <1> QED
    BY <1>1, LifecycleAssumption DEF TypeOK, Over

\* It is enough to know where each record comes from.
LEMMA RecordsStay ==
  ASSUME Inv, TypeOK', Over' >= Over,
         \A m \in Memories : \A r : About(m, r)' => \E q :
            /\ About(m, q)
            /\ \/ Moved(q, r)
               \/ r = Reinforced(q) /\ Over' > Over
               \/ ~Accepted(m)' /\ (r = NoRecord \/ r = Archived(Known(q))),
         \A m \in Memories : Accepted(m)' => Accepted(m),
         \A m \in used' : memory'[m] = "live" =>
            \/ m \in used /\ memory[m] = "live"
            \/ \A r : About(m, r)' => r.uses > 0
  PROVE  RecordsBearOut'
  <1> SUFFICES ASSUME NEW m \in Memories, NEW r, About(m, r)'
               PROVE  /\ Sane(r)
                      /\ r.uses <= Over'
                      /\ Accepted(m)' => Deserved(r)
                      /\ m \in used' /\ memory'[m] = "live" => r.uses > 0
    BY DEF RecordsBearOut
  <1>1. PICK q :
          /\ About(m, q)
          /\ \/ Moved(q, r)
             \/ r = Reinforced(q) /\ Over' > Over
             \/ ~Accepted(m)' /\ (r = NoRecord \/ r = Archived(Known(q)))
    OBVIOUS
  <1>2. /\ Sane(q) /\ q.uses <= Over
        /\ Accepted(m)' => Deserved(q)
        /\ m \in used /\ memory[m] = "live" => q.uses > 0
    BY <1>1 DEF Inv, RecordsBearOut
  <1>3. Over \in Int /\ Over' \in Int /\ Over' <= MaxRecalls /\ MaxRecalls \in Nat
    <2>1. Over \in Int
      BY Counting DEF Inv
    <2>2. Over' \in Int /\ Over' <= MaxRecalls
      <3>1. IsFiniteSet(Busy') /\ Cardinality(Busy') \in Nat
        BY LifecycleAssumption, FS_Subset, FS_CardinalityType DEF Busy
      <3> QED
        BY <3>1, LifecycleAssumption DEF TypeOK, Over
    <2> QED
      BY <2>1, <2>2, Thresholds
  <1>4. q.uses \in Nat
    BY <1>2 DEF Sane, Record
  <1>5. m \in used' /\ memory'[m] = "live" => q.uses > 0 \/ r.uses > 0
    BY <1>2
  <1>6. CASE Moved(q, r)
    <2>1. Sane(r) /\ r.uses = q.uses /\ (Deserved(q) => Deserved(r))
      BY <1>2, <1>6, MovedBearsOut
    <2> QED
      BY <1>2, <1>3, <1>4, <1>5, <2>1
  <1>7. CASE r = Reinforced(q) /\ Over' > Over
    <2>1. q.uses < MaxRecalls
      BY <1>2, <1>3, <1>4, <1>7
    <2>2. /\ Sane(r) /\ r.uses \in {q.uses, q.uses + 1}
          /\ Deserved(q) => Deserved(r)
      BY <1>2, <1>7, <2>1, ReinforcedBearsOut
    <2> QED
      BY <1>2, <1>3, <1>4, <1>5, <1>7, <2>2
  <1>8. CASE ~Accepted(m)' /\ (r = NoRecord \/ r = Archived(Known(q)))
    <2>1. Sane(r) /\ r.uses \in 0..q.uses
      BY <1>2, <1>8, LeftBearsOut
    <2>2. memory'[m] # "live"
      BY <1>8 DEF Accepted
    <2> QED
      BY <1>2, <1>3, <1>4, <1>8, <2>1, <2>2
  <1> QED
    BY <1>1, <1>6, <1>7, <1>8

LEMMA Initially == Init => Inv
  <1> SUFFICES ASSUME Init PROVE Inv
    OBVIOUS
  <1>1. Busy = {} /\ Over = 0
    <2>1. Busy = {}
      BY DEF Init, Busy, NoRecall
    <2>2. Cardinality({}) = 0
      BY FS_EmptySet
    <2> QED
      BY <2>1, <2>2 DEF Init, Over
  <1>2. \A t \in Recalls : recall[t] = [phase |-> "idle", of |-> {}, copy |-> NoRecord]
    BY DEF Init, NoRecall
  <1>3. TypeOK
    BY <1>2, FirstRecords, Thresholds DEF Init, TypeOK, NoRecall, NoSweep
  <1>4. RecordsBearOut
    <2>1. Sane(NoRecord) /\ Deserved(NoRecord) /\ NoRecord.uses = 0
      BY FirstRecords DEF Sane, Deserved, NoRecord
    <2>2. \A m \in Memories : \A r : About(m, r) => r = NoRecord
      BY DEF Init, About, NoRecall, NoSweep
    <2> QED
      BY <1>1, <2>1, <2>2 DEF RecordsBearOut, Init
  <1>5. Unborn
    BY DEF Init, Unborn, NoRecall, NoSweep, NoRecord
  <1> QED
    BY <1>3, <1>4, <1>5 DEF Inv

-----------------------------------------------------------------------------
(* Memories come and go. *)

\* The copies and the recalls stay what they are, and so do the records of other memories.
LEMMA Elsewhen ==
  ASSUME UNCHANGED <<recall, sweep, recalls>>
  PROVE  Over' = Over /\ \A m, r : About(m, r)' => About(m, r) \/ r = row'[m]
  BY DEF Over, Busy, About

LEMMA CreateKeeps == ASSUME Inv, NEW k \in Memories, Create(k) PROVE Inv'
  <1>1. /\ memory[k] = "none" /\ memory' = [memory EXCEPT ![k] = "live"]
        /\ row' = [row EXCEPT ![k] = Known(row[k])]
        /\ UNCHANGED <<recall, sweep, recalls, used>>
    BY DEF Create
  <1>2. /\ memory'[k] = "live" /\ row'[k] = Known(row[k]) /\ row[k] \in Record
        /\ \A m \in Memories : m # k => memory'[m] = memory[m] /\ row'[m] = row[m]
    BY <1>1 DEF Inv, TypeOK
  <1>3. Known(row[k]) \in Record
    BY <1>2, MovedTyped
  <1>4. TypeOK'
    BY <1>1, <1>3 DEF Inv, TypeOK
  <1>5. \A m \in Memories : \A r : About(m, r)' => \E q : About(m, q) /\ Moved(q, r)
    <2>1. \A m \in Memories : About(m, row[m]) /\ Moved(row[m], row'[m])
      BY <1>2 DEF About, Moved
    <2> QED
      BY <1>1, <2>1, Elsewhen DEF Moved
  <1>6. Over' = Over /\ Over \in Int
    BY <1>1, Elsewhen, Counting DEF Inv
  <1>7. \A m \in Memories : Accepted(m)' => Accepted(m)
    BY <1>1, <1>2 DEF Accepted
  <1>8. \A m \in used' : memory'[m] = "live" => m \in used /\ memory[m] = "live"
    BY <1>1, <1>2 DEF Inv, Unborn, TypeOK
  <1>9. RecordsBearOut'
    BY <1>4, <1>5, <1>6, <1>7, <1>8, RecordsStay
  <1>10. Unborn'
    BY <1>1, <1>2 DEF Inv, Unborn
  <1> QED
    BY <1>4, <1>9, <1>10 DEF Inv

LEMMA SupersedeKeeps == ASSUME Inv, NEW k \in Memories, Supersede(k) PROVE Inv'
  <1>1. /\ memory[k] = "live" /\ memory' = [memory EXCEPT ![k] = "superseded"]
        /\ row' = [row EXCEPT ![k] = Archived(Known(row[k]))]
        /\ UNCHANGED <<recall, sweep, recalls, used>>
    BY DEF Supersede
  <1>2. /\ memory'[k] = "superseded" /\ row'[k] = Archived(Known(row[k])) /\ row[k] \in Record
        /\ \A m \in Memories : m # k => memory'[m] = memory[m] /\ row'[m] = row[m]
    BY <1>1 DEF Inv, TypeOK
  <1>3. Archived(Known(row[k])) \in Record
    BY <1>2, MovedTyped
  <1>4. TypeOK'
    BY <1>1, <1>3 DEF Inv, TypeOK
  <1>5. \A m \in Memories : \A r : About(m, r)' => \E q :
            /\ About(m, q)
            /\ Moved(q, r) \/ (~Accepted(m)' /\ (r = NoRecord \/ r = Archived(Known(q))))
    <2>1. \A m \in Memories : About(m, row[m]) /\ (m # k => Moved(row[m], row'[m]))
      BY <1>2 DEF About, Moved
    <2>2. ~Accepted(k)'
      BY <1>2 DEF Accepted
    <2> QED
      BY <1>1, <1>2, <2>1, <2>2, Elsewhen DEF Moved
  <1>6. Over' = Over /\ Over \in Int
    BY <1>1, Elsewhen, Counting DEF Inv
  <1>7. \A m \in Memories : Accepted(m)' => Accepted(m)
    BY <1>2 DEF Accepted
  <1>8. \A m \in used' : memory'[m] = "live" => m \in used /\ memory[m] = "live"
    BY <1>1, <1>2 DEF Inv, TypeOK
  <1>9. RecordsBearOut'
    BY <1>4, <1>5, <1>6, <1>7, <1>8, RecordsStay
  <1>10. Unborn'
    BY <1>1, <1>2 DEF Inv, Unborn
  <1> QED
    BY <1>4, <1>9, <1>10 DEF Inv

LEMMA PurgeKeeps == ASSUME Inv, NEW k \in Memories, Purge(k) PROVE Inv'
  <1>1. /\ memory[k] # "none" /\ memory' = [memory EXCEPT ![k] = "purged"]
        /\ row' = [row EXCEPT ![k] = NoRecord]
        /\ UNCHANGED <<recall, sweep, recalls, used>>
    BY DEF Purge
  <1>2. /\ memory'[k] = "purged" /\ row'[k] = NoRecord
        /\ \A m \in Memories : m # k => memory'[m] = memory[m] /\ row'[m] = row[m]
    BY <1>1 DEF Inv, TypeOK
  <1>3. TypeOK'
    BY <1>1, FirstRecords DEF Inv, TypeOK
  <1>4. \A m \in Memories : \A r : About(m, r)' => \E q :
            /\ About(m, q)
            /\ Moved(q, r) \/ (~Accepted(m)' /\ (r = NoRecord \/ r = Archived(Known(q))))
    <2>1. \A m \in Memories : About(m, row[m]) /\ (m # k => Moved(row[m], row'[m]))
      BY <1>2 DEF About, Moved
    <2>2. ~Accepted(k)'
      BY <1>2 DEF Accepted
    <2> QED
      BY <1>1, <1>2, <2>1, <2>2, Elsewhen DEF Moved
  <1>5. Over' = Over /\ Over \in Int
    BY <1>1, Elsewhen, Counting DEF Inv
  <1>6. \A m \in Memories : Accepted(m)' => Accepted(m)
    BY <1>2 DEF Accepted
  <1>7. \A m \in used' : memory'[m] = "live" => m \in used /\ memory[m] = "live"
    BY <1>1, <1>2 DEF Inv, TypeOK
  <1>8. RecordsBearOut'
    BY <1>3, <1>4, <1>5, <1>6, <1>7, RecordsStay
  <1>9. Unborn'
    BY <1>1, <1>2 DEF Inv, Unborn
  <1> QED
    BY <1>3, <1>8, <1>9 DEF Inv
-----------------------------------------------------------------------------
(* Recalls. *)

LEMMA RecallTyped ==
  ASSUME TypeOK, NEW t \in Recalls
  PROVE  /\ recall[t] \in [phase : {"idle", "found", "chosen", "read"}, of : SUBSET Memories, copy : Record]
         /\ \A k \in recall[t].of : recall[t].of = {k}
         /\ recall[t].phase # "idle" => recall[t].of # {}
         /\ recalls \in 0..MaxRecalls /\ recalls \in Nat
  <1>1. recall[t] \in [phase : {"idle", "found", "chosen", "read"}, of : SUBSET Memories, copy : Record]
    BY DEF TypeOK
  <1>2. recall[t].of \in IF recall[t].phase = "idle" THEN {{}} ELSE {{m} : m \in Memories}
    BY DEF TypeOK
  <1>3. recalls \in 0..MaxRecalls /\ recalls \in Nat
    BY Thresholds DEF TypeOK
  <1> QED
    BY <1>1, <1>2, <1>3

\* A recall begins, goes on or ends.
LEMMA Recalling ==
  ASSUME Inv, NEW t \in Recalls, NEW next, recall' = [recall EXCEPT ![t] = next],
         next.phase \in {"idle", "found", "chosen", "read"}
  PROVE  /\ recall'[t] = next
         /\ \A o \in Recalls : o # t => recall'[o] = recall[o]
         /\ recall[t].phase = "idle" /\ next.phase # "idle" /\ recalls' = recalls + 1 => Over' = Over
         /\ recall[t].phase # "idle" /\ next.phase # "idle" /\ recalls' = recalls => Over' = Over
         /\ recall[t].phase # "idle" /\ next.phase = "idle" /\ recalls' = recalls => Over' = Over + 1
         /\ Over \in Int
  <1>1. /\ recall'[t] = next
        /\ \A o \in Recalls : o # t => recall'[o] = recall[o]
    BY DEF Inv, TypeOK
  <1>2. IsFiniteSet(Busy) /\ Cardinality(Busy) \in Nat /\ recalls \in Int /\ Over \in Int
    BY Counting, RecallTyped DEF Inv
  <1>3. CASE next.phase # "idle"
    <2>1. Busy' = Busy \cup {t}
      BY <1>1, <1>3 DEF Busy
    <2>2. Cardinality(Busy') = IF t \in Busy THEN Cardinality(Busy) ELSE Cardinality(Busy) + 1
      BY <1>2, <2>1, FS_AddElement
    <2> QED
      BY <1>1, <1>2, <1>3, <2>2 DEF Busy, Over
  <1>4. CASE next.phase = "idle"
    <2>1. Busy' = Busy \ {t}
      BY <1>1, <1>4 DEF Busy
    <2>2. Cardinality(Busy') = IF t \in Busy THEN Cardinality(Busy) - 1 ELSE Cardinality(Busy)
      BY <1>2, <2>1, FS_RemoveElement
    <2> QED
      BY <1>1, <1>2, <1>4, <2>2 DEF Busy, Over
  <1> QED
    BY <1>3, <1>4

\* A step of a recall that saves nothing.
LEMMA RecallKeeps ==
  ASSUME Inv, NEW t \in Recalls, NEW next, recall' = [recall EXCEPT ![t] = next],
         NEW k \in Memories, memory[k] # "none",
         next = NoRecall \/ (next.phase \in {"found", "chosen", "read"} /\ next.of = {k}),
         next \in [phase : {"idle", "found", "chosen", "read"}, of : SUBSET Memories, copy : Record],
         next.phase = "read" => next.copy = Known(row[k]),
         recalls' \in 0..MaxRecalls,
         recalls' = IF recall[t].phase = "idle" THEN recalls + 1 ELSE recalls,
         recall[t].phase = "idle" => next # NoRecall,
         UNCHANGED <<memory, row, sweep, used>>
  PROVE  Inv'
  <1>1. next.phase \in {"idle", "found", "chosen", "read"} /\ (next = NoRecall <=> next.phase = "idle")
    BY DEF NoRecall
  <1>2. /\ recall'[t] = next
        /\ \A o \in Recalls : o # t => recall'[o] = recall[o]
        /\ Over' >= Over
    <2>1. \/ Over' = Over
          \/ Over' = Over + 1
      BY <1>1, Recalling
    <2>2. Over \in Int
      BY Counting DEF Inv
    <2>3. /\ recall'[t] = next
          /\ \A o \in Recalls : o # t => recall'[o] = recall[o]
      BY <1>1, Recalling
    <2> QED
      BY <2>1, <2>2, <2>3
  <1>3. next.of \in IF next.phase = "idle" THEN {{}} ELSE {{m} : m \in Memories}
    BY <1>1 DEF NoRecall
  <1>4. TypeOK'
    <2>1. recall' \in [Recalls -> [phase : {"idle", "found", "chosen", "read"}, of : SUBSET Memories, copy : Record]]
      BY DEF Inv, TypeOK
    <2>2. \A o \in Recalls : recall'[o].of \in IF recall'[o].phase = "idle" THEN {{}} ELSE {{m} : m \in Memories}
      BY <1>2, <1>3 DEF Inv, TypeOK
    <2> QED
      BY <2>1, <2>2 DEF Inv, TypeOK
  <1>5. \A m \in Memories : \A r : About(m, r)' => \E q : About(m, q) /\ Moved(q, r)
    <2> SUFFICES ASSUME NEW m \in Memories, NEW r, About(m, r)'
                 PROVE  About(m, r) \/ (m = k /\ r = Known(row[k]))
      BY DEF About, Moved
    <2> QED
      BY <1>1, <1>2 DEF About
  <1>6. RecordsBearOut'
    BY <1>2, <1>4, <1>5, RecordsStay DEF Accepted
  <1>7. Unborn'
    BY <1>1, <1>2 DEF Inv, Unborn, NoRecall
  <1> QED
    BY <1>4, <1>6, <1>7 DEF Inv

LEMMA FindKeeps == ASSUME Inv, NEW t \in Recalls, NEW k \in Memories, Find(t, k) PROVE Inv'
  <1> DEFINE next == [phase |-> "found", of |-> {k}, copy |-> NoRecord]
  <1>1. /\ recall[t].phase = "idle" /\ memory[k] # "none" /\ recalls < MaxRecalls
        /\ recall' = [recall EXCEPT ![t] = next] /\ recalls' = recalls + 1
        /\ UNCHANGED <<memory, row, sweep, used>>
    BY DEF Find
  <1>2. recalls' \in 0..MaxRecalls
    BY <1>1, Thresholds DEF Inv, TypeOK
  <1>3. /\ next \in [phase : {"idle", "found", "chosen", "read"}, of : SUBSET Memories, copy : Record]
        /\ next.phase = "found" /\ next.of = {k} /\ next # NoRecall
    BY FirstRecords DEF NoRecall
  <1> HIDE DEF next
  <1>4. recalls' = IF recall[t].phase = "idle" THEN recalls + 1 ELSE recalls
    BY <1>1
  <1>5. next = NoRecall \/ (next.phase \in {"found", "chosen", "read"} /\ next.of = {k})
    BY <1>3
  <1>6. next.phase = "read" => next.copy = Known(row[k])
    BY <1>3
  <1>7. UNCHANGED <<memory, row, sweep, used>> /\ recall' = [recall EXCEPT ![t] = next]
    BY <1>1
  <1>8. memory[k] # "none" /\ (recall[t].phase = "idle" => next # NoRecall)
    BY <1>1, <1>3
  <1>9. next \in [phase : {"idle", "found", "chosen", "read"}, of : SUBSET Memories, copy : Record]
    BY <1>3
  <1> QED
    BY <1>2, <1>4, <1>5, <1>6, <1>7, <1>8, <1>9, RecallKeeps, ZenonT(30)

LEMMA ChooseKeeps == ASSUME Inv, NEW t \in Recalls, NEW k \in Memories, Choose(t, k) PROVE Inv'
  <1>1. /\ recall[t].phase = "found" /\ k \in recall[t].of
        /\ UNCHANGED <<memory, row, sweep, recalls, used>>
    BY DEF Choose
  <1>2. /\ recalls \in 0..MaxRecalls /\ memory[k] # "none" /\ recall[t].of = {k}
        /\ recall[t] \in [phase : {"idle", "found", "chosen", "read"}, of : SUBSET Memories, copy : Record]
    BY <1>1, RecallTyped DEF Inv, Unborn
  <1>3. CASE row[k].status \in Retired
    <2>1. NoRecall \in [phase : {"idle", "found", "chosen", "read"}, of : SUBSET Memories, copy : Record]
      BY FirstRecords DEF NoRecall
    <2>2. recall' = [recall EXCEPT ![t] = NoRecall]
      BY <1>3 DEF Choose
    <2>3. NoRecall.phase # "read"
      BY DEF NoRecall
    <2> QED
      BY <1>1, <1>2, <2>1, <2>2, <2>3, RecallKeeps
  <1>4. CASE row[k].status \notin Retired
    <2> DEFINE next == [recall[t] EXCEPT !.phase = "chosen"]
    <2>1. /\ next \in [phase : {"idle", "found", "chosen", "read"}, of : SUBSET Memories, copy : Record]
          /\ next.phase = "chosen" /\ next.of = {k}
      BY <1>2
    <2>2. recall' = [recall EXCEPT ![t] = next]
      BY <1>4 DEF Choose
    <2> HIDE DEF next
    <2> QED
      BY <1>1, <1>2, <2>1, <2>2, RecallKeeps
  <1> QED
    BY <1>3, <1>4

LEMMA ReadKeeps == ASSUME Inv, NEW t \in Recalls, NEW k \in Memories, Read(t, k) PROVE Inv'
  <1> DEFINE next == [recall[t] EXCEPT !.phase = "read", !.copy = Known(row[k])]
  <1>1. /\ recall[t].phase = "chosen" /\ k \in recall[t].of
        /\ recall' = [recall EXCEPT ![t] = next]
        /\ UNCHANGED <<memory, row, sweep, recalls, used>>
    BY DEF Read
  <1>2. /\ recalls \in 0..MaxRecalls /\ memory[k] # "none" /\ recall[t].of = {k}
        /\ recall[t] \in [phase : {"idle", "found", "chosen", "read"}, of : SUBSET Memories, copy : Record]
        /\ Known(row[k]) \in Record
    <2>1. row[k] \in Record
      BY DEF Inv, TypeOK
    <2> QED
      BY <1>1, <2>1, MovedTyped, RecallTyped DEF Inv, Unborn
  <1>3. /\ next \in [phase : {"idle", "found", "chosen", "read"}, of : SUBSET Memories, copy : Record]
        /\ next.phase = "read" /\ next.of = {k} /\ next.copy = Known(row[k])
    BY <1>2
  <1> HIDE DEF next
  <1>4. recalls' = IF recall[t].phase = "idle" THEN recalls + 1 ELSE recalls
    BY <1>1
  <1>5. recalls' \in 0..MaxRecalls /\ recall[t].phase # "idle"
    BY <1>1, <1>2
  <1>6. next = NoRecall \/ (next.phase \in {"found", "chosen", "read"} /\ next.of = {k})
    BY <1>3
  <1>7. UNCHANGED <<memory, row, sweep, used>>
    BY <1>1
  <1> QED
    BY <1>1, <1>2, <1>3, <1>4, <1>5, <1>6, <1>7, RecallKeeps

LEMMA SaveKeeps == ASSUME Inv, NEW t \in Recalls, NEW k \in Memories, Save(t, k) PROVE Inv'
  <1> DEFINE old == recall[t].copy
  <1>1. /\ recall[t].phase = "read" /\ k \in recall[t].of
        /\ row' = [row EXCEPT ![k] = Reinforced(old)]
        /\ recall' = [recall EXCEPT ![t] = NoRecall]
        /\ used' = IF old.status \in Retired \/ Elsewhere(t, k) THEN used ELSE used \cup {k}
        /\ UNCHANGED <<memory, sweep, recalls>>
    BY DEF Save
  <1>2. /\ row'[k] = Reinforced(old)
        /\ \A m \in Memories : m # k => row'[m] = row[m]
    BY <1>1 DEF Inv, TypeOK
  <1>3. NoRecall.phase = "idle" /\ NoRecall.of = {}
    BY DEF NoRecall
  <1>4. /\ recall'[t] = NoRecall
        /\ \A o \in Recalls : o # t => recall'[o] = recall[o]
        /\ Over' = Over + 1 /\ Over \in Int
    BY <1>1, <1>3, Recalling
  <1>5. About(k, old) /\ memory[k] # "none"
    BY <1>1 DEF About, Inv, Unborn
  <1>6. Sane(old) /\ old.uses < MaxRecalls
    <2>1. Sane(old) /\ old.uses <= Over /\ old.uses \in Nat
      BY <1>5 DEF Inv, RecordsBearOut, Sane, Record
    <2>2. t \in Busy /\ IsFiniteSet(Busy) /\ Cardinality(Busy) \in Nat
      BY <1>1, Counting DEF Inv, Busy
    <2>3. Cardinality(Busy) # 0
      BY <2>2, FS_EmptySet
    <2>4. Over < MaxRecalls
      BY <2>2, <2>3, Thresholds, RecallTyped DEF Over, Inv
    <2> QED
      BY <1>4, <2>1, <2>4, Thresholds
  <1>7. Reinforced(old) \in Record
    BY <1>6, MovedTyped DEF Sane
  <1>8. TypeOK'
    <2>1. NoRecall \in [phase : {"idle", "found", "chosen", "read"}, of : SUBSET Memories, copy : Record]
      BY FirstRecords DEF NoRecall
    <2>2. recall' \in [Recalls -> [phase : {"idle", "found", "chosen", "read"}, of : SUBSET Memories, copy : Record]]
      BY <1>1, <2>1 DEF Inv, TypeOK
    <2>3. \A o \in Recalls : recall'[o].of \in IF recall'[o].phase = "idle" THEN {{}} ELSE {{m} : m \in Memories}
      BY <1>3, <1>4 DEF Inv, TypeOK
    <2>4. row' \in [Memories -> Record] /\ used' \subseteq Memories
      BY <1>1, <1>7 DEF Inv, TypeOK
    <2> QED
      BY <1>1, <2>2, <2>3, <2>4 DEF Inv, TypeOK
  <1>9. \A m \in Memories : \A r : About(m, r)' => About(m, r) \/ (m = k /\ r = Reinforced(old))
    BY <1>1, <1>2, <1>3, <1>4 DEF About
  <1>10. \A m \in used' : memory'[m] = "live" =>
            \/ m \in used /\ memory[m] = "live"
            \/ \A r : About(m, r)' => r.uses > 0
    <2> SUFFICES ASSUME k \in used', k \notin used, NEW r, About(k, r)'
                 PROVE  r.uses > 0
      BY <1>1
    <2>1. old.status \notin Retired /\ ~Elsewhere(t, k)
      BY <1>1
    <2>2. r = row'[k]
      BY <1>1, <1>3, <1>4, <2>1 DEF About, Elsewhere
    <2> QED
      BY <1>2, <1>6, <2>1, <2>2, ReinforcedBearsOut
  <1>11. RecordsBearOut'
    <2>1. \A m \in Memories : \A r : About(m, r)' => \E q :
            /\ About(m, q)
            /\ Moved(q, r) \/ (r = Reinforced(q) /\ Over' > Over)
      BY <1>4, <1>5, <1>9 DEF Moved
    <2>2. Over' >= Over /\ \A m \in Memories : Accepted(m)' => Accepted(m)
      BY <1>1, <1>4 DEF Accepted
    <2> QED
      BY <1>8, <1>10, <2>1, <2>2, RecordsStay
  <1>12. Unborn'
    BY <1>1, <1>2, <1>3, <1>4, <1>5 DEF Inv, Unborn
  <1> QED
    BY <1>8, <1>11, <1>12 DEF Inv
-----------------------------------------------------------------------------
(* Sweeps, and time. *)

\* A step of a sweep: its copies stay, are dropped or are moved, and what it saves is
\* one of them.
LEMMA SweepKeeps ==
  ASSUME Inv, NEW s \in Sweeps, NEW next \in [todo : SUBSET Copies, done : SUBSET Copies],
         sweep' = [sweep EXCEPT ![s] = next],
         row' \in [Memories -> Record],
         \A c \in next.todo \cup next.done : \E q : About(c.of, q) /\ Moved(q, c.copy) /\ memory[c.of] # "none",
         \A m \in Memories :
           \/ row'[m] = row[m]
           \/ memory[m] # "none" /\ \E q : About(m, q) /\ Moved(q, row'[m]),
         UNCHANGED <<memory, recall, recalls, used>>
  PROVE  Inv'
  <1>1. /\ sweep'[s] = next
        /\ \A x \in Sweeps : x # s => sweep'[x] = sweep[x]
    BY DEF Inv, TypeOK
  <1>2. TypeOK'
    BY DEF Inv, TypeOK
  <1>3. Over' = Over /\ Over \in Int
    BY Counting DEF Inv, Over, Busy
  <1>4. \A m \in Memories : \A r : About(m, r)' => \E q : About(m, q) /\ Moved(q, r)
    <2> SUFFICES ASSUME NEW m \in Memories, NEW r, About(m, r)'
                 PROVE  \E q : About(m, q) /\ Moved(q, r)
      OBVIOUS
    <2>1. CASE r = row'[m]
      <3>1. About(m, row[m]) /\ Moved(row[m], row[m])
        BY DEF About, Moved
      <3> QED
        BY <2>1, <3>1
    <2>2. CASE \E t \in Recalls : recall'[t].phase = "read" /\ m \in recall'[t].of /\ r = recall'[t].copy
      BY <2>2 DEF About, Moved
    <2>3. ASSUME NEW x \in Sweeps, NEW c \in sweep'[x].todo \cup sweep'[x].done, c.of = m, r = c.copy
          PROVE  \E q : About(m, q) /\ Moved(q, r)
      <3>1. CASE x = s
        BY <1>1, <2>3, <3>1
      <3>2. CASE x # s
        <4>1. About(m, r)
          BY <1>1, <2>3, <3>2 DEF About
        <4> QED
          BY <4>1 DEF Moved
      <3> QED
        BY <3>1, <3>2
    <2> QED
      BY <2>1, <2>2, <2>3 DEF About
  <1>5. RecordsBearOut'
    BY <1>2, <1>3, <1>4, RecordsStay DEF Accepted
  <1>6. Unborn'
    BY <1>1 DEF Inv, Unborn
  <1> QED
    BY <1>2, <1>5, <1>6 DEF Inv

LEMMA SweepTyped ==
  ASSUME TypeOK, NEW s \in Sweeps
  PROVE  /\ sweep[s] \in [todo : SUBSET Copies, done : SUBSET Copies]
         /\ \A c \in sweep[s].todo \cup sweep[s].done : c.of \in Memories /\ c.copy \in Record /\ c \in Copies
  BY DEF TypeOK, Copies

\* The copies of a sweep are about memories that exist.
LEMMA SweptAbout ==
  ASSUME Inv, NEW s \in Sweeps, NEW c \in sweep[s].todo \cup sweep[s].done
  PROVE  About(c.of, c.copy) /\ memory[c.of] # "none"
  BY SweepTyped DEF Inv, Unborn, About

LEMMA ListKeeps == ASSUME Inv, NEW s \in Sweeps, List(s) PROVE Inv'
  <1> DEFINE next == [sweep[s] EXCEPT !.todo = Listed]
  <1>1. /\ sweep[s] = NoSweep /\ sweep' = [sweep EXCEPT ![s] = next]
        /\ UNCHANGED <<memory, row, recall, recalls, used>>
    BY DEF List
  <1>2. \A c \in Listed : /\ c \in Copies /\ c.of \in Memories
                          /\ c.copy = row[c.of] /\ c.copy.status # "none"
    BY DEF Listed, Copies, Inv, TypeOK
  <1>3. next \in [todo : SUBSET Copies, done : SUBSET Copies] /\ next.todo = Listed /\ next.done = {}
    BY <1>1, <1>2 DEF NoSweep
  <1> HIDE DEF next
  <1>4. \A c \in next.todo \cup next.done : \E q : About(c.of, q) /\ Moved(q, c.copy) /\ memory[c.of] # "none"
    BY <1>2, <1>3 DEF About, Moved, Inv, Unborn
  <1>5. row' \in [Memories -> Record] /\ \A m \in Memories : row'[m] = row[m]
    BY <1>1 DEF Inv, TypeOK
  <1> QED
    BY <1>1, <1>3, <1>4, <1>5, SweepKeeps

LEMMA DecayKeeps == ASSUME Inv, NEW s \in Sweeps, NEW c \in sweep[s].todo, Decay(s, c) PROVE Inv'
  <1> DEFINE saved == [c EXCEPT !.copy = Decayed(c.copy)]
             next == [todo |-> sweep[s].todo \ {c}, done |-> sweep[s].done \cup {saved}]
  <1>1. /\ row' = [row EXCEPT ![c.of] = Decayed(c.copy)]
        /\ sweep' = [sweep EXCEPT ![s] = next]
        /\ UNCHANGED <<memory, recall, recalls, used>>
    BY DEF Decay
  <1>2. c.of \in Memories /\ c.copy \in Record /\ c \in Copies /\ sweep[s] \in [todo : SUBSET Copies, done : SUBSET Copies]
    BY SweepTyped DEF Inv
  <1>3. Decayed(c.copy) \in Record
    BY <1>2, MovedTyped
  <1>4. saved \in Copies /\ saved.of = c.of /\ saved.copy = Decayed(c.copy)
    BY <1>2, <1>3 DEF Copies
  <1> HIDE DEF saved
  <1>5. About(c.of, c.copy) /\ memory[c.of] # "none" /\ Moved(c.copy, Decayed(c.copy))
    BY SweptAbout DEF Moved
  <1>6. next \in [todo : SUBSET Copies, done : SUBSET Copies]
    BY <1>2, <1>4
  <1>7. \A x \in next.todo \cup next.done : x \in sweep[s].todo \cup sweep[s].done \/ x = saved
    OBVIOUS
  <1> HIDE DEF next
  <1>8. \A x \in next.todo \cup next.done : \E q : About(x.of, q) /\ Moved(q, x.copy) /\ memory[x.of] # "none"
    BY <1>4, <1>5, <1>7, SweptAbout DEF Moved
  <1>9. /\ row' \in [Memories -> Record]
        /\ row'[c.of] = Decayed(c.copy)
        /\ \A m \in Memories : m # c.of => row'[m] = row[m]
    BY <1>1, <1>2, <1>3 DEF Inv, TypeOK
  <1> QED
    BY <1>1, <1>5, <1>6, <1>8, <1>9, SweepKeeps

LEMMA ArchiveKeeps == ASSUME Inv, NEW s \in Sweeps, NEW c \in sweep[s].done, Archive(s, c) PROVE Inv'
  <1> DEFINE next == [sweep[s] EXCEPT !.done = sweep[s].done \ {c}]
  <1>1. /\ row' = IF Unused(c.copy) THEN [row EXCEPT ![c.of] = Archived(c.copy)] ELSE row
        /\ sweep' = [sweep EXCEPT ![s] = next]
        /\ UNCHANGED <<memory, recall, recalls, used>>
    BY DEF Archive
  <1>2. c.of \in Memories /\ c.copy \in Record /\ sweep[s] \in [todo : SUBSET Copies, done : SUBSET Copies]
    BY SweepTyped DEF Inv
  <1>3. next \in [todo : SUBSET Copies, done : SUBSET Copies]
        /\ next.todo = sweep[s].todo /\ next.done = sweep[s].done \ {c}
    BY <1>2
  <1> HIDE DEF next
  <1>4. \A x \in next.todo \cup next.done : \E q : About(x.of, q) /\ Moved(q, x.copy) /\ memory[x.of] # "none"
    BY <1>3, SweptAbout DEF Moved
  <1>5. Archived(c.copy) \in Record
    BY <1>2, MovedTyped
  <1>6. About(c.of, c.copy) /\ memory[c.of] # "none" /\ (Unused(c.copy) => Moved(c.copy, Archived(c.copy)))
    BY SweptAbout DEF Moved
  <1>7. /\ row' \in [Memories -> Record]
        /\ Unused(c.copy) => row'[c.of] = Archived(c.copy)
        /\ \A m \in Memories : m # c.of \/ ~Unused(c.copy) => row'[m] = row[m]
    BY <1>1, <1>2, <1>5 DEF Inv, TypeOK
  <1> QED
    BY <1>1, <1>3, <1>4, <1>6, <1>7, SweepKeeps

LEMMA DropKeeps == ASSUME Inv, NEW s \in Sweeps, Drop(s) PROVE Inv'
  <1>1. NoSweep \in [todo : SUBSET Copies, done : SUBSET Copies] /\ NoSweep.todo = {} /\ NoSweep.done = {}
    BY DEF NoSweep
  <1>2. sweep' = [sweep EXCEPT ![s] = NoSweep] /\ UNCHANGED <<memory, row, recall, recalls, used>>
    BY DEF Drop
  <1>3. row' \in [Memories -> Record] /\ \A m \in Memories : row'[m] = row[m]
    BY <1>2 DEF Inv, TypeOK
  <1> QED
    BY <1>1, <1>2, <1>3, SweepKeeps
\* Time makes the records older, and the copies with them.
LEMMA TickKeeps == ASSUME Inv, Tick PROVE Inv'
  <1>1. /\ row' = [m \in Memories |-> Aged(row[m])]
        /\ recall' = [t \in Recalls |-> [recall[t] EXCEPT !.copy = Aged(recall[t].copy)]]
        /\ sweep' = [s \in Sweeps |->
                         [todo |-> {[c EXCEPT !.copy = Aged(c.copy)] : c \in sweep[s].todo},
                          done |-> {[c EXCEPT !.copy = Aged(c.copy)] : c \in sweep[s].done}]]
        /\ UNCHANGED <<memory, recalls, used>>
    BY DEF Tick
  <1>2. \A t \in Recalls :
          /\ recall'[t] \in [phase : {"idle", "found", "chosen", "read"}, of : SUBSET Memories, copy : Record]
          /\ recall'[t].phase = recall[t].phase /\ recall'[t].of = recall[t].of
          /\ recall'[t].copy = Aged(recall[t].copy)
    BY <1>1, RecallTyped, MovedTyped DEF Inv
  <1>3. \A s \in Sweeps : \A x \in sweep'[s].todo \cup sweep'[s].done :
          \E c \in sweep[s].todo \cup sweep[s].done : x.of = c.of /\ x.copy = Aged(c.copy) /\ x \in Copies
    <2> SUFFICES ASSUME NEW s \in Sweeps, NEW x \in sweep'[s].todo \cup sweep'[s].done
                 PROVE  \E c \in sweep[s].todo \cup sweep[s].done : x.of = c.of /\ x.copy = Aged(c.copy) /\ x \in Copies
      OBVIOUS
    <2>1. PICK c \in sweep[s].todo \cup sweep[s].done : x = [c EXCEPT !.copy = Aged(c.copy)]
      BY <1>1
    <2>2. c \in Copies /\ c.copy \in Record
      BY SweepTyped DEF Inv
    <2>3. Aged(c.copy) \in Record
      BY <2>2, MovedTyped
    <2> QED
      BY <2>1, <2>2, <2>3 DEF Copies
  <1>4. TypeOK'
    <2>1. row' \in [Memories -> Record]
      BY <1>1, MovedTyped DEF Inv, TypeOK
    <2>2. recall' \in [Recalls -> [phase : {"idle", "found", "chosen", "read"}, of : SUBSET Memories, copy : Record]]
      BY <1>1, <1>2
    <2>3. \A t \in Recalls : recall'[t].of \in IF recall'[t].phase = "idle" THEN {{}} ELSE {{m} : m \in Memories}
      BY <1>2 DEF Inv, TypeOK
    <2>4. \A s \in Sweeps : sweep'[s] \in [todo : SUBSET Copies, done : SUBSET Copies]
      <3> SUFFICES ASSUME NEW s \in Sweeps PROVE sweep'[s] \in [todo : SUBSET Copies, done : SUBSET Copies]
        OBVIOUS
      <3>1. sweep'[s].todo \subseteq Copies /\ sweep'[s].done \subseteq Copies
        BY <1>3
      <3>2. sweep'[s] = [todo |-> sweep'[s].todo, done |-> sweep'[s].done]
        BY <1>1
      <3> QED
        BY <3>1, <3>2
    <2>5. sweep' \in [Sweeps -> [todo : SUBSET Copies, done : SUBSET Copies]]
      BY <1>1, <2>4
    <2> QED
      BY <1>1, <2>1, <2>2, <2>3, <2>5 DEF Inv, TypeOK
  <1>5. Over' = Over /\ Over \in Int
    <2>1. Busy' = Busy
      BY <1>2 DEF Busy
    <2> QED
      BY <1>1, <2>1, Counting DEF Inv, Over
  <1>6. \A m \in Memories : \A r : About(m, r)' => \E q : About(m, q) /\ Moved(q, r)
    <2> SUFFICES ASSUME NEW m \in Memories, NEW r, About(m, r)'
                 PROVE  \E q : About(m, q) /\ r = Aged(q)
      BY DEF Moved
    <2>1. CASE r = row'[m]
      BY <1>1, <2>1 DEF About
    <2>2. CASE \E t \in Recalls : recall'[t].phase = "read" /\ m \in recall'[t].of /\ r = recall'[t].copy
      BY <1>2, <2>2 DEF About
    <2>3. CASE \E s \in Sweeps : \E x \in sweep'[s].todo \cup sweep'[s].done : x.of = m /\ r = x.copy
      BY <1>3, <2>3 DEF About
    <2> QED
      BY <2>1, <2>2, <2>3 DEF About
  <1>7. RecordsBearOut'
    BY <1>1, <1>4, <1>5, <1>6, RecordsStay DEF Accepted
  <1>8. Unborn'
    <2>1. \A m \in Memories : row[m].status = "none" => row'[m].status = "none"
      BY <1>1 DEF Aged
    <2>2. \A m \in Memories : memory[m] = "none" => \A s \in Sweeps : \A x \in sweep'[s].todo \cup sweep'[s].done : x.of # m
      BY <1>3 DEF Inv, Unborn
    <2> QED
      BY <1>1, <1>2, <2>1, <2>2 DEF Inv, Unborn
  <1> QED
    BY <1>4, <1>7, <1>8 DEF Inv

LEMMA StutterKeeps == ASSUME Inv, UNCHANGED vars PROVE Inv'
  BY DEF Inv, vars, TypeOK, RecordsBearOut, Unborn, About, Accepted, Over, Busy

LEMMA InvKept == Inv /\ [Next]_vars => Inv'
  <1> SUFFICES ASSUME Inv, [Next]_vars PROVE Inv'
    OBVIOUS
  <1>1. ASSUME NEW m \in Memories, Create(m) \/ Supersede(m) \/ Purge(m) PROVE Inv'
    BY <1>1, CreateKeeps, SupersedeKeeps, PurgeKeeps
  <1>2. ASSUME NEW t \in Recalls, NEW m \in Memories, Find(t, m) \/ Choose(t, m) \/ Read(t, m) \/ Save(t, m) PROVE Inv'
    BY <1>2, FindKeeps, ChooseKeeps, ReadKeeps, SaveKeeps
  <1>3. ASSUME NEW s \in Sweeps, SweepStep(s) \/ Drop(s) PROVE Inv'
    BY <1>3, ListKeeps, DecayKeeps, ArchiveKeeps, DropKeeps DEF SweepStep
  <1>4. CASE Tick
    BY <1>4, TickKeeps
  <1>5. CASE UNCHANGED vars
    BY <1>5, StutterKeeps
  <1> QED
    BY <1>1, <1>2, <1>3, <1>4, <1>5 DEF Next

-----------------------------------------------------------------------------
(* What follows. *)

\* Records, recalls and sweeps are what the code takes them for; above all, no number of
\* overlapping recalls counts more uses than there were recalls.
THEOREM TypeCorrect == Spec => []TypeOK
  <1>1. Inv => TypeOK
    BY DEF Inv
  <1> QED
    BY <1>1, Initially, InvKept, PTL DEF Spec

\* A live memory leaves recall only for disuse that its record shows, however many recalls
\* and sweeps save stale copies of it.
THEOREM RetirementIsDeserved == Spec => []RetiredForAReason
  <1>1. Inv => RetiredForAReason
    <2> SUFFICES ASSUME Inv, NEW m \in Memories, memory[m] = "live"
                 PROVE  /\ row[m].status \in Retired => row[m].age >= ExpireAfter(row[m].uses)
                        /\ row[m].status = "archived" => row[m].uses = 0
      BY DEF RetiredForAReason
    <2>1. Sane(row[m]) /\ Deserved(row[m])
      BY DEF Inv, RecordsBearOut, About, Accepted
    <2> QED
      BY <2>1 DEF Sane, Deserved, Retired
  <1> QED
    BY <1>1, Initially, InvKept, PTL DEF Spec

\* A use that was recorded while nobody else had a copy of the record is not forgotten.
THEOREM UsesAreKept == Spec => []OnlyOverlapsForgetUses
  <1>1. Inv => OnlyOverlapsForgetUses
    BY DEF Inv, RecordsBearOut, About, OnlyOverlapsForgetUses, TypeOK
  <1> QED
    BY <1>1, Initially, InvKept, PTL DEF Spec

\* A retired record comes back only from a copy that was read before it retired:
\* record_access and run_decay never revive what they read as retired.
THEOREM RevivedByOverlaps == Spec => OnlyOverlapsRevive
  <1> DEFINE Overlap(m) ==
        \/ \E t \in Recalls : recall[t].phase = "read" /\ m \in recall[t].of
                              /\ recall[t].copy.status \notin Retired
        \/ \E s \in Sweeps : \E c \in sweep[s].todo : c.of = m /\ c.copy.status \notin Retired
  <1>1. Inv /\ [Next]_vars => [\A m \in Memories : row[m].status \in Retired /\ row'[m].status \in {"active", "decayed"} =>
                                Overlap(m)]_vars
    <2> SUFFICES ASSUME Inv, Next, NEW m \in Memories, row[m].status \in Retired, row'[m].status \in {"active", "decayed"}
                 PROVE  Overlap(m)
      OBVIOUS
    <2>1. row[m].status \notin {"active", "decayed", "none"} /\ row \in [Memories -> Record]
      BY DEF Retired, Inv, TypeOK
    <2>2. ASSUME NEW k \in Memories, Create(k) \/ Supersede(k) \/ Purge(k) PROVE FALSE
      <3>1. CASE k = m
        <4>1. memory[m] # "none"
          BY <2>1 DEF Inv, Unborn
        <4>2. row'[m] = Archived(Known(row[m])) \/ row'[m] = NoRecord
          BY <2>1, <2>2, <3>1, <4>1 DEF Create, Supersede, Purge
        <4>3. Known(row[m]) \in Record
          BY <2>1, MovedTyped
        <4> QED
          BY <4>2, <4>3 DEF Archived, NoRecord, Record
      <3>2. CASE k # m
        BY <2>1, <2>2, <3>2 DEF Create, Supersede, Purge
      <3> QED
        BY <3>1, <3>2
    <2>3. ASSUME NEW t \in Recalls, NEW k \in Memories, Save(t, k) PROVE Overlap(m)
      <3>1. k = m /\ row'[m] = Reinforced(recall[t].copy)
        BY <2>1, <2>3 DEF Save
      <3>2. recall[t].copy.status \notin Retired
        BY <3>1 DEF Reinforced, Retired
      <3> QED
        BY <2>3, <3>1, <3>2 DEF Save
    <2>4. ASSUME NEW s \in Sweeps, NEW c \in sweep[s].todo, Decay(s, c) PROVE Overlap(m)
      <3>1. c.of = m /\ row'[m] = Decayed(c.copy)
        BY <2>1, <2>4 DEF Decay
      <3>2. Sane(c.copy)
        BY <3>1, SweptAbout DEF Inv, RecordsBearOut
      <3>3. c.copy.status \notin Retired
        <4>1. c.copy \in Record /\ (c.copy.status = "expired" => c.copy.age >= ExpireAfter(c.copy.uses))
          BY <3>2 DEF Sane
        <4> QED
          BY <3>1, <4>1 DEF Decayed, Retired, Record
      <3> QED
        BY <3>1, <3>3
    <2>5. ASSUME NEW s \in Sweeps, NEW c \in sweep[s].done, Archive(s, c) PROVE FALSE
      <3>1. c.copy \in Record /\ Unused(c.copy) /\ row'[m] = Archived(c.copy)
        BY <2>1, <2>5, SweepTyped DEF Archive, Inv
      <3> QED
        BY <3>1 DEF Archived, Record
    <2>6. ASSUME Tick PROVE FALSE
      <3>1. row'[m] = Aged(row[m]) /\ row[m] \in Record
        BY <2>1, <2>6 DEF Tick
      <3> QED
        BY <2>1, <3>1 DEF Aged, Record
    <2>7. row' # row
      BY <2>1
    <2> QED
      BY <2>2, <2>3, <2>4, <2>5, <2>6, <2>7 DEF Next, SweepStep, Find, Choose, Read, List, Drop
  <1> QED
    BY <1>1, Initially, InvKept, PTL DEF Spec, OnlyOverlapsRevive
=============================================================================
