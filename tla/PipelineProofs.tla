---------------------------- MODULE PipelineProofs ----------------------------
(***************************************************************************)
(* Proofs about Pipeline.                                                  *)
(*                                                                         *)
(* First, what an answer of recall() holds, whatever other requests,       *)
(* sweeps and audits do between its steps.  Memories may be revised,       *)
(* superseded, deleted, archived and, by the save of an old copy, shown    *)
(* again while it is put together: so what is found is judged by the       *)
(* history, and the invariant ties the history to the stores: it knows     *)
(* all that is live or shown now, and what it says has stayed is still     *)
(* there.                                                                  *)
(*                                                                         *)
(* Then what observe() says of the graph, however late handlers end, and   *)
(* what texts there are for the audit to find.                             *)
(***************************************************************************)
EXTENDS Pipeline, FiniteSetTheorems, TLAPS

-----------------------------------------------------------------------------
(* The inductive invariant. *)

Fields == {"at", "kind", "scope", "candidates", "jobs", "wrote", "sync", "terms", "left",
           "domains", "types", "found", "old", "todo", "copy", "rivals"}

Observing == {"commit", "launch", "await", "embed", "checkpoint"}
Searching == {"search", "semantic", "graph", "history", "status", "access", "reinforce"}

\* A memory gets its home when it is made.
StoresTyped ==
    /\ home \in [Memories -> Scopes \cup {NoScope}]
    /\ row \in [Memories -> {"absent", "live", "superseded", "purged"}]
    /\ content \in [Memories -> SUBSET Memories]
    /\ \A m \in Memories : row[m] = "absent" => home[m] \notin Scopes

RequestTyped(q) ==
    /\ DOMAIN q = Fields
    /\ q.scope \in Scopes /\ q.terms \subseteq Terms /\ q.left \subseteq q.terms
    /\ q.found \subseteq Memories /\ q.old \subseteq Memories /\ q.rivals \subseteq Memories
    /\ q.todo \subseteq q.found
    /\ q.at = "idle" => q.kind = "none"
    /\ q.at \in Observing => q.kind = "observe"
    /\ q.at \in Searching => q.kind = "recall"
    /\ q.kind # "recall" => q.found = {} /\ q.old = {}

\* Nothing superseded is looked for before all that is current has been found.
Once(q) ==
    /\ q.at \in {"search", "semantic", "graph"} => q.old = {}
    /\ q.found \cap q.old = {}

\* What was found belongs here, and has competed for its place.
Belongs(q) ==
    /\ q.found \subseteq q.rivals
    /\ \A m \in q.found : Wanted(m, q)
    /\ \A m \in q.found \cup q.old : home[m] = q.scope /\ InDomain(m, q) /\ row[m] # "absent"

\* The history h of a recall knows what is live and what is shown now, and what it says
\* has stayed is still there.
UpToDate(q, h) ==
    /\ \A m \in Memories : row[m] = "live" => m \in h.lived
    /\ \A m \in Memories : m \notin archived => m \in h.shown
    /\ \A m \in h.stayed : m \in Memories /\ Current(m, q.scope)

\* What was found was live, and what passed the look at its status was shown.
WasSeen(q, h) ==
    /\ q.found \subseteq h.lived
    /\ q.at = "status" => q.found \ q.todo \subseteq h.shown
    /\ q.at \in {"access", "reinforce", "answered"} => q.found \subseteq h.shown

\* What has stayed throughout is found, or the terms it matches are still to come.
IsFound(q, h) ==
    \A m \in h.stayed : \A t \in q.terms : Matches(m, t) /\ Wanted(m, q) =>
        \/ m \in q.found
        \/ Cardinality(q.rivals) > Limit
        \/ q.at = "search" /\ t \in q.left

Remembered(q, h) == q.kind = "recall" => UpToDate(q, h) /\ WasSeen(q, h) /\ IsFound(q, h)

Sound(q, h) == RequestTyped(q) /\ Once(q) /\ Belongs(q) /\ Remembered(q, h)

Inv ==
    /\ StoresTyped
    /\ DOMAIN req = Requests
    /\ \A r \in Requests : Sound(req[r], past[r])

-----------------------------------------------------------------------------
\* When there is place for all, all are taken.
LEMMA AllAtTop ==
  ASSUME NEW S, IsFiniteSet(S), Cardinality(S) <= Limit, NEW T \in Top(S)
  PROVE  T = S
  <1>1. T \subseteq S /\ (Cardinality(T) = Limit \/ T = S)
    BY DEF Top
  <1>2. Cardinality(T) <= Cardinality(S) /\ (Cardinality(S) = Cardinality(T) => S = T)
    BY <1>1, FS_Subset
  <1>3. IsFiniteSet(T) /\ Cardinality(S) \in Nat /\ Cardinality(T) \in Nat /\ Limit \in Nat
    BY <1>1, FS_Subset, FS_CardinalityType, PipelineAssumption
  <1> QED
    BY <1>1, <1>2, <1>3

\* Rivals that are few enough all find a place; and adding rivals makes no room.
LEMMA AllOfFewRivals ==
  ASSUME NEW R, R \subseteq Memories, ~(Cardinality(R) > Limit), NEW S, S \subseteq R
  PROVE  (\A T \in Top(S) : T = S) /\ ~(Cardinality(S) > Limit)
  <1>1. IsFiniteSet(R) /\ Cardinality(R) \in Nat /\ Limit \in Nat
    BY FS_Subset, FS_CardinalityType, PipelineAssumption
  <1>2. IsFiniteSet(S) /\ Cardinality(S) <= Cardinality(R) /\ Cardinality(S) \in Nat
    BY <1>1, FS_Subset, FS_CardinalityType
  <1>3. Cardinality(S) <= Limit
    BY <1>1, <1>2
  <1> QED
    BY <1>1, <1>2, <1>3, AllAtTop

\* What happens to the stores: memories are made and stay where they were made.
StoresMoveOn ==
    /\ StoresTyped'
    /\ \A m \in Memories : row[m] # "absent" => row'[m] # "absent" /\ home'[m] = home[m]

\* What time adds to the history of a recall of scope s.
Later(s, h, g) ==
    g = [lived |-> h.lived \cup {m \in Memories : row'[m] = "live"},
         shown |-> h.shown \cup (Memories \ archived'),
         stayed |-> h.stayed \cap {m \in Memories : home'[m] = s /\ row'[m] = "live" /\ m \notin archived'}
                              \cap {m \in Memories : content'[m] = content[m]}]

\* It takes nothing from what is said of a request that stands still.
LEMMA StandsStill ==
  ASSUME StoresTyped, StoresMoveOn
  PROVE  \A q, h, g : Sound(q, h) /\ (IF q.kind = "recall" THEN Later(q.scope, h, g) ELSE g = h) => Sound(q, g)'
  <1> SUFFICES ASSUME NEW q, NEW h, NEW g, Sound(q, h),
                      IF q.kind = "recall" THEN Later(q.scope, h, g) ELSE g = h
               PROVE  Sound(q, g)'
    OBVIOUS
  <1>1. /\ RequestTyped(q)' /\ Once(q)'
        /\ q.scope \in Scopes /\ q.found \subseteq Memories /\ q.old \subseteq Memories
    BY DEF Sound, RequestTyped, Once
  <1>2. \A m : (InDomain(m, q)' <=> InDomain(m, q)) /\ (Wanted(m, q)' <=> Wanted(m, q))
    BY DEF InDomain, Wanted
  <1>3. Belongs(q)'
    BY <1>1, <1>2 DEF Sound, Belongs, StoresMoveOn
  <1>4. ASSUME q.kind = "recall"
        PROVE  UpToDate(q, g)' /\ WasSeen(q, g)' /\ IsFound(q, g)'
    <2>1. /\ g.lived = h.lived \cup {m \in Memories : row'[m] = "live"}
          /\ g.shown = h.shown \cup (Memories \ archived')
          /\ g.stayed = h.stayed \cap {m \in Memories : home'[m] = q.scope /\ row'[m] = "live" /\ m \notin archived'}
                                 \cap {m \in Memories : content'[m] = content[m]}
      BY <1>4 DEF Later
    <2>2. UpToDate(q, g)'
      BY <2>1 DEF UpToDate, Current
    <2>3. WasSeen(q, g)'
      BY <1>4, <2>1 DEF Sound, Remembered, WasSeen
    <2>4. IsFound(q, g)'
      <3>1. \A m \in g.stayed : m \in h.stayed /\ \A t : Matches(m, t)' <=> Matches(m, t)
        BY <2>1 DEF Matches
      <3> QED
        BY <1>2, <1>4, <3>1 DEF Sound, Remembered, IsFound
    <2> QED
      BY <2>2, <2>3, <2>4
  <1> QED
    BY <1>1, <1>3, <1>4 DEF Sound, Remembered

LEMMA Remembers ==
  ASSUME Remember, NEW r \in Requests, req'[r].kind = "recall" => req[r].at # "idle" /\ req'[r].scope = req[r].scope
  PROVE  IF req'[r].kind = "recall" THEN Later(req'[r].scope, past[r], past'[r]) ELSE past'[r] = past[r]
  <1>1. CASE req'[r].kind # "recall"
    BY <1>1 DEF Remember
  <1>2. CASE req'[r].kind = "recall"
    <2>1. past'[r] = [lived |-> past[r].lived \cup {m \in Memories : row'[m] = "live"},
                      shown |-> past[r].shown \cup (Memories \ archived'),
                      stayed |-> past[r].stayed \cap {m \in Memories : Current(m, req[r].scope)'}
                                                \cap {m \in Memories : content'[m] = content[m]}]
      BY <1>2 DEF Remember
    <2> QED
      BY <1>2, <2>1 DEF Later, Current
  <1> QED
    BY <1>1, <1>2

\* A request goes on, the stores and the history move on: all requests stay sound.
LEMMA OneMoves ==
  ASSUME Inv, Remember, NEW r \in Requests, NEW next, Becomes(r, next), Sound(next, past[r]),
         next.scope = req[r].scope, next.kind = "recall" => req[r].at # "idle", StoresMoveOn
  PROVE  Inv'
  <1>1. \A q, h, g : Sound(q, h) /\ (IF q.kind = "recall" THEN Later(q.scope, h, g) ELSE g = h) => Sound(q, g)'
    BY StandsStill DEF Inv
  <1>2. DOMAIN req' = Requests
    BY DEF Inv, Becomes
  <1>3. ASSUME NEW s \in Requests
        PROVE  Sound(req[s], past[s])'
    <2>1. req'[s] = IF s = r THEN next ELSE req[s]
      BY DEF Inv, Becomes
    <2>2. Sound(req'[s], past[s])
      BY <2>1 DEF Inv
    <2>3. req'[s].kind = "recall" => req[s].at # "idle" /\ req'[s].scope = req[s].scope
      BY <2>1 DEF Inv, Sound, RequestTyped
    <2>4. IF req'[s].kind = "recall" THEN Later(req'[s].scope, past[s], past'[s]) ELSE past'[s] = past[s]
      BY <2>3, Remembers
    <2> QED
      BY <1>1, <2>2, <2>4
  <1> QED
    BY <1>2, <1>3 DEF Inv, StoresMoveOn

LEMMA AllStand ==
  ASSUME Inv, Remember, req' = req, StoresMoveOn
  PROVE  Inv'
  <1>1. \A q, h, g : Sound(q, h) /\ (IF q.kind = "recall" THEN Later(q.scope, h, g) ELSE g = h) => Sound(q, g)'
    BY StandsStill DEF Inv
  <1>2. ASSUME NEW s \in Requests
        PROVE  Sound(req[s], past[s])'
    <2>1. Sound(req'[s], past[s])
      BY DEF Inv
    <2>2. req'[s].kind = "recall" => req[s].at # "idle" /\ req'[s].scope = req[s].scope
      BY DEF Inv, Sound, RequestTyped
    <2>3. IF req'[s].kind = "recall" THEN Later(req'[s].scope, past[s], past'[s]) ELSE past'[s] = past[s]
      BY <2>2, Remembers
    <2> QED
      BY <1>1, <2>1, <2>3
  <1> QED
    BY <1>2 DEF Inv, StoresMoveOn

LEMMA NothingMoves ==
  ASSUME Inv, UNCHANGED <<home, row, content>>
  PROVE  StoresMoveOn
  BY DEF Inv, StoresTyped, StoresMoveOn

LEMMA Starts == Init => Inv
  <1> SUFFICES ASSUME Init PROVE Inv
    OBVIOUS
  <1>1. StoresTyped
    BY PipelineAssumption DEF Init, StoresTyped
  <1>2. ASSUME NEW r \in Requests
        PROVE  Sound(req[r], past[r])
    <2>1. PICK s \in Scopes : req[r] = Fresh(s)
      BY DEF Init
    <2> QED
      BY <2>1 DEF Fresh, Sound, RequestTyped, Fields, Observing, Searching, Once, Belongs, Remembered
  <1> QED
    BY <1>1, <1>2 DEF Inv, Init

-----------------------------------------------------------------------------
(* observe(). *)

\* What a step of observe() leaves alone is what recall() needs.
OnlyReports(q, next) ==
    /\ DOMAIN next = Fields /\ next.kind = "observe" /\ next.at \in Observing \cup {"answered"}
    /\ next.scope = q.scope /\ next.terms = q.terms /\ next.left = q.left
    /\ next.found = q.found /\ next.old = q.old /\ next.todo = q.todo /\ next.rivals = q.rivals

LEMMA ObserverMoves ==
  ASSUME Inv, Remember, NEW r \in Requests, req[r].at \in Observing \cup {"idle"},
         NEW next, Becomes(r, next), StoresMoveOn, OnlyReports(req[r], next)
  PROVE  Inv'
  <1> DEFINE q == req[r]
  <1>1. Sound(q, past[r]) /\ q.found = {} /\ q.old = {}
    BY DEF Inv, Sound, RequestTyped
  <1>2. RequestTyped(next)
    BY <1>1 DEF Sound, RequestTyped, OnlyReports, Observing, Searching
  <1>3. Once(next) /\ Belongs(next) /\ Remembered(next, past[r])
    BY <1>1 DEF OnlyReports, Once, Belongs, Remembered
  <1>4. Sound(next, past[r])
    BY <1>2, <1>3 DEF Sound
  <1> QED
    BY <1>4, OneMoves DEF OnlyReports

LEMMA AllFields == \A r \in Requests : Inv => DOMAIN req[r] = Fields /\ (req[r].at \in Observing => req[r].kind = "observe")
  BY DEF Inv, Sound, RequestTyped

LEMMA Observes == \A r \in Requests, turn \in Turns : Inv /\ Remember /\ Observe(r, turn) => Inv'
  <1> SUFFICES ASSUME NEW r \in Requests, NEW turn \in Turns, Inv, Remember, Observe(r, turn)
               PROVE  Inv'
    OBVIOUS
  <1> DEFINE Given(left) == [req[r] EXCEPT !.kind = "observe", !.candidates = left,
                                            !.at = IF left = <<>> THEN "checkpoint" ELSE "commit",
                                            !.sync = IF left = <<>> THEN "none" ELSE "skipped"]
  <1>1. PICK left : Becomes(r, Given(left))
    BY Zenon DEF Observe
  <1> DEFINE next == Given(left)
  <1>2. OnlyReports(req[r], next)
    BY <1>1, AllFields DEF OnlyReports, Fields, Observing
  <1>3. StoresMoveOn /\ req[r].at = "idle" /\ Becomes(r, next)
    BY <1>1, NothingMoves DEF Observe, stores
  <1> HIDE DEF next
  <1> QED
    BY <1>2, <1>3, ObserverMoves

\* What apply() can leave: the memory it returns is new, the candidate's, or of the evidence.
LEMMA Outcomes ==
  ASSUME StoresTyped, NEW s \in Scopes, NEW seen \in Evidence(s), NEW c \in Memories,
         NEW new \in Creations(c) \cup Supersessions(c, seen) \cup Revisions(c, seen) \cup Mergers(c, seen)
  PROVE  /\ new.memory \in Memories /\ new.row[new.memory] # "absent"
         /\ row[new.memory] = "absent" \/ home[new.memory] = s
         /\ new.row \in [Memories -> {"absent", "live", "superseded", "purged"}]
         /\ \A m \in Memories : row[m] # "absent" => new.row[m] # "absent"
         /\ \A m \in Memories : m # new.memory /\ row[m] = "absent" => new.row[m] = "absent"
         /\ new.content \in [Memories -> SUBSET Memories]
         /\ \A m \in Memories : \/ new.content[m] = content[m]
                                \/ new.content[m] = {c}
                                \/ new.content[m] = content[m] \cup {c}
  <1>1. seen \subseteq Memories /\ \A t \in seen : home[t] = s /\ row[t] \in {"live", "superseded"}
    BY DEF Evidence
  <1>2. ASSUME NEW made \in Creations(c)
        PROVE  /\ made = [memory |-> c, row |-> [row EXCEPT ![c] = "live"], content |-> [content EXCEPT ![c] = {c}]]
               /\ row[c] = "absent"
    BY DEF Creations
  <1>3. CASE new \in Creations(c)
    <2>1. /\ new.memory = c /\ new.row = [row EXCEPT ![c] = "live"] /\ new.content = [content EXCEPT ![c] = {c}]
          /\ row[c] = "absent"
      BY <1>2, <1>3
    <2> QED
      BY <2>1 DEF StoresTyped
  <1>4. CASE new \in Supersessions(c, seen)
    <2>1. PICK made \in Creations(c), t \in seen : new = [made EXCEPT !.row[t] = "superseded"]
      BY <1>4 DEF Supersessions
    <2>2. /\ new.memory = c /\ new.row = [[row EXCEPT ![c] = "live"] EXCEPT ![t] = "superseded"]
          /\ new.content = [content EXCEPT ![c] = {c}] /\ row[c] = "absent"
      BY <1>2, <2>1
    <2> QED
      BY <1>1, <2>2 DEF StoresTyped
  <1>5. CASE new \in Revisions(c, seen)
    <2>1. PICK t \in seen : new = [memory |-> t, row |-> row, content |-> [content EXCEPT ![t] = {c}]]
      BY <1>5 DEF Revisions
    <2>2. new.memory = t /\ new.row = row /\ new.content = [content EXCEPT ![t] = {c}]
      BY <2>1
    <2> QED
      BY <1>1, <2>2 DEF StoresTyped
  <1>6. CASE new \in Mergers(c, seen)
    <2>1. PICK t \in seen : new = [memory |-> t, row |-> row, content |-> [content EXCEPT ![t] = @ \cup {c}]]
      BY <1>6 DEF Mergers
    <2>2. new.memory = t /\ new.row = row /\ new.content = [content EXCEPT ![t] = content[t] \cup {c}]
      BY <2>1
    <2> QED
      BY <1>1, <2>2 DEF StoresTyped
  <1> QED
    BY <1>3, <1>4, <1>5, <1>6

\* Candidates are statements the audit would spare.
Queued(q) ==
    /\ q.candidates \in Seq(Memories)
    /\ \A m \in Range(q.candidates) : ~AuditRejects(m)
    /\ q.at \in {"commit", "launch", "await", "embed"} => q.candidates # <<>>

\* A transaction of observe(): either nothing is decided, or this.
Writes(r, new, all) ==
    LET q == req[r]
        c == Head(q.candidates)
    IN  /\ \E seen \in Evidence(q.scope) :
            /\ new \in Creations(c) \cup Supersessions(c, seen) \cup Revisions(c, seen) \cup Mergers(c, seen)
            /\ all \in JobsFor(r, c, new.memory, {m \in seen : new.row[m] = "superseded"})
        /\ row' = new.row /\ content' = new.content
        /\ home' = [home EXCEPT ![new.memory] = q.scope]
        /\ job' = [j \in DOMAIN job \cup Range(all) |-> IF j \in Range(all) THEN "pending" ELSE job[j]]
        /\ Becomes(r, [q EXCEPT !.at = "launch", !.jobs = all,
                                !.wrote = [memory |-> new.memory, text |-> new.content[new.memory]]])

LEMMA CommitDecides ==
  ASSUME NEW r \in Requests, Commit(r)
  PROVE  \/ Becomes(r, AfterCandidate(req[r])) /\ UNCHANGED stores
         \/ \E new, all : Writes(r, new, all)
  <1>1. CASE Becomes(r, AfterCandidate(req[r])) /\ UNCHANGED stores
    BY <1>1
  <1>2. CASE ~(Becomes(r, AfterCandidate(req[r])) /\ UNCHANGED stores)
    <2> DEFINE q == req[r]
               c == Head(q.candidates)
    <2>1. PICK seen \in Evidence(q.scope) :
            \E new \in Creations(c) \cup Supersessions(c, seen) \cup Revisions(c, seen) \cup Mergers(c, seen) :
                LET gone == {m \in seen : new.row[m] = "superseded"}
                IN  /\ row' = new.row /\ content' = new.content
                    /\ home' = [home EXCEPT ![new.memory] = q.scope]
                    /\ archived' = archived \cup gone
                    /\ \E all \in JobsFor(r, c, new.memory, gone) :
                        /\ job' = [j \in DOMAIN job \cup Range(all) |-> IF j \in Range(all) THEN "pending" ELSE job[j]]
                        /\ Becomes(r, [q EXCEPT !.at = "launch", !.jobs = all,
                                                !.wrote = [memory |-> new.memory, text |-> new.content[new.memory]]])
      BY <1>2, Zenon DEF Commit
    <2>2. PICK new \in Creations(c) \cup Supersessions(c, seen) \cup Revisions(c, seen) \cup Mergers(c, seen) :
                LET gone == {m \in seen : new.row[m] = "superseded"}
                IN  /\ row' = new.row /\ content' = new.content
                    /\ home' = [home EXCEPT ![new.memory] = q.scope]
                    /\ \E all \in JobsFor(r, c, new.memory, gone) :
                        /\ job' = [j \in DOMAIN job \cup Range(all) |-> IF j \in Range(all) THEN "pending" ELSE job[j]]
                        /\ Becomes(r, [q EXCEPT !.at = "launch", !.jobs = all,
                                                !.wrote = [memory |-> new.memory, text |-> new.content[new.memory]]])
      BY <2>1, Zenon
    <2> QED
      BY <2>2, Zenon DEF Writes
  <1> QED
    BY <1>1, <1>2

LEMMA FirstAndRest ==
  ASSUME NEW S, NEW s \in Seq(S), s # <<>>
  PROVE  /\ Head(s) \in S /\ Head(s) \in Range(s)
         /\ Tail(s) \in Seq(S) /\ Range(Tail(s)) \subseteq Range(s)
         /\ Range(s) \subseteq {Head(s)} \cup Range(Tail(s))
  <1>1. Head(s) = s[1] /\ 1 \in DOMAIN s /\ DOMAIN s = 1..Len(s) /\ s[1] \in S
    OBVIOUS
  <1>2. /\ Tail(s) \in Seq(S) /\ DOMAIN Tail(s) = 1..(Len(s) - 1)
        /\ \A i \in 1..(Len(s) - 1) : Tail(s)[i] = s[i + 1]
    OBVIOUS
  <1>3. Range(Tail(s)) \subseteq Range(s)
    <2> SUFFICES ASSUME NEW i \in 1..(Len(s) - 1) PROVE Tail(s)[i] \in Range(s)
      BY <1>2 DEF Range
    <2> QED
      BY <1>1, <1>2 DEF Range
  <1>4. Range(s) \subseteq {Head(s)} \cup Range(Tail(s))
    <2> SUFFICES ASSUME NEW i \in 1..Len(s), i # 1 PROVE s[i] \in Range(Tail(s))
      BY <1>1 DEF Range
    <2>1. i - 1 \in 1..(Len(s) - 1) /\ Tail(s)[i - 1] = s[i]
      BY <1>2
    <2> QED
      BY <1>2, <2>1 DEF Range
  <1>5. Head(s) \in Range(s)
    BY <1>1 DEF Range
  <1> QED
    BY <1>1, <1>2, <1>3, <1>4, <1>5

LEMMA Commits == \A r \in Requests : Inv /\ Remember /\ Commit(r) /\ Queued(req[r]) => Inv'
  <1> SUFFICES ASSUME NEW r \in Requests, Inv, Remember, Commit(r), Queued(req[r])
               PROVE  Inv'
    OBVIOUS
  <1> DEFINE q == req[r]
             c == Head(q.candidates)
  <1>1. q.at = "commit" /\ q.kind = "observe" /\ DOMAIN q = Fields /\ q.scope \in Scopes /\ StoresTyped
    BY AllFields DEF Commit, Observing, Inv, Sound, RequestTyped
  <1>2. CASE Becomes(r, AfterCandidate(q)) /\ UNCHANGED stores
    <2>1. StoresMoveOn
      BY <1>2, NothingMoves DEF stores
    <2> DEFINE next == AfterCandidate(q)
    <2>2. OnlyReports(q, next)
      BY <1>1 DEF AfterCandidate, OnlyReports, Observing, Fields
    <2> HIDE DEF next
    <2> QED
      BY <1>1, <1>2, <2>1, <2>2, ObserverMoves DEF next, Observing
  <1>3. ASSUME NEW new, NEW all, Writes(r, new, all)
        PROVE  Inv'
    <2>1. PICK seen \in Evidence(q.scope) :
            new \in Creations(c) \cup Supersessions(c, seen) \cup Revisions(c, seen) \cup Mergers(c, seen)
      BY <1>3 DEF Writes
    <2>2. c \in Memories
      BY <1>1, FirstAndRest DEF Queued
    <2> HIDE DEF c
    <2>3. /\ new.memory \in Memories /\ new.row[new.memory] # "absent"
          /\ row[new.memory] = "absent" \/ home[new.memory] = q.scope
          /\ new.row \in [Memories -> {"absent", "live", "superseded", "purged"}]
          /\ \A m \in Memories : row[m] # "absent" => new.row[m] # "absent"
          /\ \A m \in Memories : m # new.memory /\ row[m] = "absent" => new.row[m] = "absent"
          /\ new.content \in [Memories -> SUBSET Memories]
      BY <1>1, <2>1, <2>2, Outcomes
    <2>4. row' = new.row /\ content' = new.content /\ home' = [home EXCEPT ![new.memory] = q.scope]
      BY <1>3 DEF Writes
    <2>5. StoresMoveOn
      BY <1>1, <2>3, <2>4 DEF StoresTyped, StoresMoveOn
    <2> DEFINE next == [q EXCEPT !.at = "launch", !.jobs = all,
                                 !.wrote = [memory |-> new.memory, text |-> new.content[new.memory]]]
    <2>6. OnlyReports(q, next)
      BY <1>1 DEF OnlyReports, Observing, Fields
    <2>7. Becomes(r, next)
      BY <1>3, Zenon DEF Writes
    <2> HIDE DEF next
    <2> QED
      BY <1>1, <2>5, <2>6, <2>7, ObserverMoves DEF Observing
  <1> QED
    BY <1>2, <1>3, CommitDecides

\* The steps of observe() that leave the memories alone.
LEMMA Reports ==
  \A r \in Requests :
    Inv /\ Remember /\ (Defer(r) \/ Launch(r) \/ Await(r) \/ Embed(r) \/ Checkpoint(r)) => Inv'
  <1> SUFFICES ASSUME NEW r \in Requests, Inv, Remember,
                      Defer(r) \/ Launch(r) \/ Await(r) \/ Embed(r) \/ Checkpoint(r)
               PROVE  Inv'
    OBVIOUS
  <1> DEFINE q == req[r]
  <1>1. q.at \in Observing /\ DOMAIN q = Fields /\ q.kind = "observe"
    BY AllFields DEF Defer, Launch, Await, Embed, Checkpoint, Observing
  <1>2. PICK next : Becomes(r, next) /\ OnlyReports(q, next)
    <2>1. CASE Defer(r)
      <3> DEFINE next == [q EXCEPT !.jobs = <<>>, !.sync = Worse(@, "pending"), !.at = "embed"]
      <3>1. Becomes(r, next)
        BY <2>1 DEF Defer
      <3>2. OnlyReports(q, next)
        BY <1>1 DEF OnlyReports, Observing, Fields
      <3> QED
        BY <3>1, <3>2
    <2>2. ASSUME NEW at \in {"await", "answered"}, Moves(r, at)
          PROVE  \E next : Becomes(r, next) /\ OnlyReports(q, next)
      <3> DEFINE next == [q EXCEPT !.at = at]
      <3>1. Becomes(r, next)
        BY <2>2 DEF Moves, Becomes
      <3>2. OnlyReports(q, next)
        BY <1>1 DEF OnlyReports, Observing, Fields
      <3> QED
        BY <3>1, <3>2
    <2>3. CASE Await(r)
      <3>1. PICK left, sync, at : /\ at \in {"embed", "launch"}
                                  /\ Becomes(r, [q EXCEPT !.jobs = left, !.sync = sync, !.at = at])
        BY <2>3 DEF Await
      <3> DEFINE next == [q EXCEPT !.jobs = left, !.sync = sync, !.at = at]
      <3>2. OnlyReports(q, next)
        BY <1>1, <3>1 DEF OnlyReports, Observing, Fields
      <3> QED
        BY <3>1, <3>2
    <2>4. CASE Embed(r)
      <3> DEFINE next == AfterCandidate(q)
      <3>1. Becomes(r, next)
        BY <2>4 DEF Embed
      <3>2. OnlyReports(q, next)
        BY <1>1 DEF AfterCandidate, OnlyReports, Observing, Fields
      <3> QED
        BY <3>1, <3>2
    <2>5. CASE Launch(r)
      BY <2>2, <2>5 DEF Launch
    <2>6. CASE Checkpoint(r)
      BY <2>2, <2>6 DEF Checkpoint
    <2> QED
      BY <2>1, <2>3, <2>4, <2>5, <2>6
  <1>3. StoresMoveOn
    <2>1. UNCHANGED <<home, row, content>>
      BY DEF Defer, Launch, Await, Embed, Checkpoint, stores
    <2> QED
      BY <2>1, NothingMoves
  <1> QED
    BY <1>1, <1>2, <1>3, ObserverMoves

-----------------------------------------------------------------------------
(* recall(). *)

\* A recall goes on; what time does to it is known.
LEMMA RecallMoves ==
  ASSUME Inv, Remember, NEW r \in Requests, req[r].at \in Searching, NEW next, Becomes(r, next), StoresMoveOn,
         next.scope = req[r].scope, next.kind = "recall", RequestTyped(next), Once(next), Belongs(next),
         WasSeen(next, past[r]), IsFound(next, past[r])
  PROVE  Inv'
  <1>1. UpToDate(req[r], past[r]) /\ req[r].at # "idle"
    BY DEF Inv, Sound, RequestTyped, Remembered, Searching
  <1>2. UpToDate(next, past[r])
    BY <1>1 DEF UpToDate
  <1>3. Sound(next, past[r])
    BY <1>2 DEF Sound, Remembered
  <1> QED
    BY <1>1, <1>3, OneMoves

\* What is known of a recall before it goes on.
LEMMA RecallStands ==
  ASSUME Inv, NEW r \in Requests, req[r].at \in Searching
  PROVE  /\ DOMAIN req[r] = Fields /\ RequestTyped(req[r]) /\ req[r].kind = "recall" /\ Once(req[r]) /\ Belongs(req[r])
         /\ UpToDate(req[r], past[r]) /\ WasSeen(req[r], past[r]) /\ IsFound(req[r], past[r])
  BY DEF Inv, Sound, RequestTyped, Remembered

\* Whatever changes in a request but these fields, the same memories are wanted.
LEMMA WantsTheSame ==
  ASSUME NEW q, NEW next, next.types = q.types, next.domains = q.domains
  PROVE  \A m : (InDomain(m, next) <=> InDomain(m, q)) /\ (Wanted(m, next) <=> Wanted(m, q))
  BY DEF InDomain, Wanted

LEMMA Begins == \A r \in Requests, query \in Queries : Inv /\ Remember /\ Recall(r, query) => Inv'
  <1> SUFFICES ASSUME NEW r \in Requests, NEW query \in Queries, Inv, Remember, Recall(r, query)
               PROVE  Inv'
    OBVIOUS
  <1> DEFINE q == req[r]
             terms == query.terms \cup (IF q.scope \in kept THEN CheckpointTerms ELSE {})
             next == [q EXCEPT !.kind = "recall", !.at = "search", !.terms = terms, !.left = terms,
                               !.domains = Routed(query.kinds), !.types = Planned(query.types)]
  <1>1. q.at = "idle" /\ Becomes(r, next) /\ UNCHANGED <<home, row, content, archived>>
    BY DEF Recall, stores
  <1>2. RequestTyped(q) /\ Once(q) /\ q.kind = "none" /\ q.found = {} /\ q.old = {} /\ q.todo = {}
    BY <1>1 DEF Inv, Sound, RequestTyped
  <1>3. terms \subseteq Terms
    BY PipelineAssumption
  <1>4. /\ DOMAIN next = Fields /\ next.at = "search" /\ next.kind = "recall" /\ next.scope = q.scope
        /\ next.terms = terms /\ next.left = terms /\ next.found = {} /\ next.old = {} /\ next.todo = {}
        /\ next.rivals = q.rivals
    BY <1>2 DEF RequestTyped, Fields
  <1>5. StoresMoveOn
    BY <1>1, NothingMoves
  <1> HIDE DEF next, terms
  <1>6. RequestTyped(next)
    BY <1>2, <1>3, <1>4 DEF RequestTyped, Observing, Searching
  <1>7. Once(next) /\ Belongs(next)
    BY <1>4 DEF Once, Belongs
  <1>8. req'[r] = next /\ DOMAIN req' = Requests /\ \A s \in Requests \ {r} : req'[s] = req[s]
    BY <1>1 DEF Becomes, Inv
  <1>9. ASSUME NEW s \in Requests \ {r}
        PROVE  Sound(req[s], past[s])'
    <2>1. req'[s] = req[s] /\ Sound(req[s], past[s])
      BY <1>8 DEF Inv
    <2>2. req'[s].kind = "recall" => req[s].at # "idle" /\ req'[s].scope = req[s].scope
      BY <2>1 DEF Sound, RequestTyped
    <2>3. IF req'[s].kind = "recall" THEN Later(req'[s].scope, past[s], past'[s]) ELSE past'[s] = past[s]
      BY <2>2, Remembers
    <2> QED
      BY <1>5, <2>1, <2>3, StandsStill DEF Inv
  <1>10. Sound(req[r], past[r])'
    <2>1. past'[r] = [lived |-> {m \in Memories : row'[m] = "live"}, shown |-> Memories \ archived',
                      stayed |-> {m \in Memories : Current(m, q.scope)'}]
      BY <1>1, <1>4, <1>8 DEF Remember
    <2>2. UpToDate(req[r], past[r])'
      BY <1>4, <1>8, <2>1 DEF UpToDate, Current
    <2>3. WasSeen(req[r], past[r])' /\ IsFound(req[r], past[r])'
      BY <1>4, <1>8 DEF WasSeen, IsFound
    <2>4. RequestTyped(req[r])' /\ Once(req[r])' /\ Belongs(req[r])'
      BY <1>4, <1>6, <1>7, <1>8 DEF RequestTyped, Once, Belongs
    <2> QED
      BY <2>2, <2>3, <2>4 DEF Sound, Remembered
  <1> QED
    BY <1>5, <1>8, <1>9, <1>10 DEF Inv, StoresMoveOn

\* Nothing is found by going on to the next searches, nothing is lost.
LEMMA GoesOn ==
  ASSUME Inv, Remember, NEW r \in Requests, UNCHANGED <<home, row, content>>,
         NEW stage \in {"semantic", "graph", "history"}, NextStage(r, stage),
         req[r].at \in {"search", "semantic", "graph"}, req[r].at = "search" => req[r].left = {}
  PROVE  Inv'
  <1> DEFINE q == req[r]
             next == [q EXCEPT !.at = stage, !.left = q.terms]
  <1>1. q.at \in Searching
    BY DEF Searching
  <1>2. /\ DOMAIN q = Fields /\ RequestTyped(q) /\ q.kind = "recall" /\ Once(q) /\ Belongs(q)
        /\ WasSeen(q, past[r]) /\ IsFound(q, past[r])
    BY <1>1, RecallStands
  <1>3. /\ DOMAIN next = Fields /\ next.at = stage /\ next.left = q.terms /\ next.terms = q.terms
        /\ next.kind = q.kind /\ next.scope = q.scope /\ next.found = q.found /\ next.old = q.old
        /\ next.todo = q.todo /\ next.rivals = q.rivals /\ next.types = q.types /\ next.domains = q.domains
    BY <1>2 DEF Fields
  <1>4. Becomes(r, next)
    BY DEF NextStage
  <1> HIDE DEF next
  <1>5. RequestTyped(next) /\ Once(next)
    BY <1>2, <1>3 DEF RequestTyped, Once, Observing, Searching
  <1>6. \A m : (InDomain(m, next) <=> InDomain(m, q)) /\ (Wanted(m, next) <=> Wanted(m, q))
    BY <1>3, WantsTheSame
  <1>7. Belongs(next) /\ WasSeen(next, past[r])
    BY <1>2, <1>3, <1>6 DEF Belongs, WasSeen
  <1>8. IsFound(next, past[r])
    BY <1>2, <1>3, <1>6 DEF IsFound
  <1>9. StoresMoveOn
    BY NothingMoves
  <1> QED
    BY <1>1, <1>2, <1>3, <1>4, <1>5, <1>7, <1>8, <1>9, RecallMoves

\* A search adds what it found of those that competed.
LEMMA FindsMore ==
  ASSUME Inv, Remember, NEW r \in Requests, UNCHANGED <<home, row, content>>, req[r].at \in {"search", "semantic"},
         NEW left, left \subseteq req[r].left, NEW hits, NEW more, more \subseteq hits,
         \A m \in hits : m \in Memories,
         \A m \in more : home[m] = req[r].scope /\ row[m] = "live" /\ Wanted(m, req[r]),
         Becomes(r, [req[r] EXCEPT !.left = left, !.rivals = @ \cup hits, !.found = @ \cup more]),
         req[r].at = "search" => \A m \in past[r].stayed : \A t \in req[r].left \ left :
            Matches(m, t) /\ Wanted(m, req[r]) => m \in more \/ Cardinality(req[r].rivals \cup hits) > Limit
  PROVE  Inv'
  <1> DEFINE q == req[r]
             next == [q EXCEPT !.left = left, !.rivals = @ \cup hits, !.found = @ \cup more]
  <1>1. q.at \in Searching
    BY DEF Searching
  <1>2. /\ DOMAIN q = Fields /\ RequestTyped(q) /\ q.kind = "recall" /\ Once(q) /\ Belongs(q)
        /\ UpToDate(q, past[r]) /\ WasSeen(q, past[r]) /\ IsFound(q, past[r])
    BY <1>1, RecallStands
  <1>3. /\ DOMAIN next = Fields /\ next.at = q.at /\ next.left = left /\ next.terms = q.terms
        /\ next.kind = q.kind /\ next.scope = q.scope /\ next.found = q.found \cup more /\ next.old = q.old
        /\ next.todo = q.todo /\ next.rivals = q.rivals \cup hits /\ next.types = q.types /\ next.domains = q.domains
    BY <1>2 DEF Fields
  <1>4. Becomes(r, next)
    OBVIOUS
  <1> HIDE DEF next
  <1>5. RequestTyped(next) /\ Once(next)
    BY <1>2, <1>3 DEF RequestTyped, Once, Observing, Searching
  <1>6. \A m : (InDomain(m, next) <=> InDomain(m, q)) /\ (Wanted(m, next) <=> Wanted(m, q))
    BY <1>3, WantsTheSame
  <1>7. Belongs(next)
    BY <1>2, <1>3, <1>6 DEF Belongs, Wanted
  <1>8. WasSeen(next, past[r])
    BY <1>2, <1>3 DEF WasSeen, UpToDate
  <1>9. Cardinality(q.rivals) > Limit => Cardinality(next.rivals) > Limit
    BY <1>2, <1>3, AllOfFewRivals DEF RequestTyped
  <1>10. IsFound(next, past[r])
    <2> SUFFICES ASSUME NEW m \in past[r].stayed, NEW t \in q.terms, Matches(m, t), Wanted(m, q),
                        ~(Cardinality(next.rivals) > Limit)
                 PROVE  m \in q.found \cup more \/ (q.at = "search" /\ t \in left)
      BY <1>3, <1>6 DEF IsFound
    <2>1. m \in q.found \/ (q.at = "search" /\ t \in q.left)
      BY <1>2, <1>9 DEF IsFound
    <2> QED
      BY <1>3, <2>1
  <1>11. StoresMoveOn
    BY NothingMoves
  <1> QED
    BY <1>1, <1>2, <1>3, <1>4, <1>5, <1>7, <1>8, <1>10, <1>11, RecallMoves

\* Full-text search comes across all that has stayed and matches.
LEMMA Searches == \A r \in Requests : Inv /\ Remember /\ Search(r) => Inv'
  <1> SUFFICES ASSUME NEW r \in Requests, Inv, Remember, Search(r) PROVE Inv'
    OBVIOUS
  <1> DEFINE q == req[r]
             t == First(q.left)
             hits == {m \in Memories : home[m] = q.scope /\ row[m] = "live" /\ Matches(m, t)}
  <1>1. q.at = "search" /\ UNCHANGED <<home, row, content>>
    BY DEF Search, stores
  <1>2. CASE q.left = {} /\ NextStage(r, "semantic")
    BY <1>1, <1>2, GoesOn
  <1>3. CASE q.left # {} /\ ~(q.left = {} /\ NextStage(r, "semantic"))
    <2>1. PICK top \in Top(hits) :
            Becomes(r, [q EXCEPT !.left = @ \ {t}, !.rivals = @ \cup hits, !.found = @ \cup {m \in top : Wanted(m, q)}])
      BY <1>3, Zenon DEF Search
    <2> DEFINE more == {m \in top : Wanted(m, q)}
               left == q.left \ {t}
    <2>2. top \subseteq hits
      BY DEF Top
    <2>3. t \in q.left
      BY <1>3 DEF First
    <2>4. q.rivals \subseteq Memories /\ UpToDate(q, past[r]) /\ DOMAIN q = Fields
      BY <1>1, RecallStands DEF RequestTyped, Searching
    <2>5. ASSUME NEW m \in past[r].stayed, Matches(m, t), Wanted(m, q), ~(Cardinality(q.rivals \cup hits) > Limit)
          PROVE  m \in more
      <3>1. m \in hits
        BY <2>4, <2>5 DEF UpToDate, Current
      <3>2. q.rivals \cup hits \subseteq Memories /\ hits \subseteq q.rivals \cup hits
        BY <2>4
      <3>3. top = hits
        BY <2>1, <2>5, <3>2, AllOfFewRivals
      <3> QED
        BY <2>5, <3>1, <3>3
    <2>6. Becomes(r, [q EXCEPT !.left = left, !.rivals = @ \cup hits, !.found = @ \cup more])
      BY <2>1, <2>4 DEF Fields
    <2>7. \A m \in more : home[m] = q.scope /\ row[m] = "live" /\ Wanted(m, q)
      BY <2>2
    <2>8. q.left \ left = {t} /\ left \subseteq q.left /\ more \subseteq hits
      BY <2>2, <2>3
    <2>9. \A m \in past[r].stayed : \A u \in q.left \ left :
            Matches(m, u) /\ Wanted(m, q) => m \in more \/ Cardinality(q.rivals \cup hits) > Limit
      BY <2>5, <2>8
    <2>10. \A m \in hits : m \in Memories
      OBVIOUS
    <2> HIDE DEF t, hits, more, left
    <2> QED
      BY <1>1, <2>6, <2>7, <2>8, <2>9, <2>10, FindsMore
  <1> QED
    BY <1>2, <1>3 DEF Search

LEMMA SearchesByMeaning == \A r \in Requests : Inv /\ Remember /\ (Semantic(r) \/ Graph(r)) => Inv'
  <1> SUFFICES ASSUME NEW r \in Requests, Inv, Remember, Semantic(r) \/ Graph(r) PROVE Inv'
    OBVIOUS
  <1> DEFINE q == req[r]
             t == First(q.left)
  <1>1. q.at \in {"semantic", "graph"} /\ UNCHANGED <<home, row, content>>
    BY DEF Semantic, Graph, stores
  <1>2. ASSUME NEW stage \in {"graph", "history"}, NextStage(r, stage)
        PROVE  Inv'
    BY <1>1, <1>2, GoesOn
  <1>3. CASE Semantic(r) /\ ~NextStage(r, "graph")
    <2>1. PICK top \in Top({m \in Memories : home[m] = q.scope /\ vectors[m] # {}}) :
            LET hits == {m \in top : vectors[m] \in Near[t] /\ StillCurrent(m) /\ Wanted(m, q)}
            IN  Becomes(r, [q EXCEPT !.left = @ \ {t}, !.rivals = @ \cup hits, !.found = @ \cup hits])
      BY <1>3, Zenon DEF Semantic
    <2> DEFINE hits == {m \in top : vectors[m] \in Near[t] /\ StillCurrent(m) /\ Wanted(m, q)}
               left == q.left \ {t}
    <2>2. \A m \in hits : m \in Memories /\ home[m] = q.scope /\ row[m] = "live" /\ Wanted(m, q)
      BY DEF Top, StillCurrent
    <2>3. DOMAIN q = Fields
      BY <1>1, RecallStands DEF Searching
    <2>4. Becomes(r, [q EXCEPT !.left = left, !.rivals = @ \cup hits, !.found = @ \cup hits])
      BY <2>1, <2>3 DEF Fields
    <2>5. left \subseteq q.left /\ q.at = "semantic"
      BY <1>3 DEF Semantic
    <2> HIDE DEF t, hits, left
    <2> QED
      BY <1>1, <2>2, <2>4, <2>5, FindsMore
  <1> QED
    BY <1>2, <1>3 DEF Semantic, Graph

\* The superseded memories are looked for after the current ones.
LEMMA LooksBack == \A r \in Requests : Inv /\ Remember /\ History(r) => Inv'
  <1> SUFFICES ASSUME NEW r \in Requests, Inv, Remember, History(r) PROVE Inv'
    OBVIOUS
  <1> DEFINE q == req[r]
             t == First(q.left)
  <1>1. q.at = "history" /\ q.at \in Searching /\ UNCHANGED <<home, row, content>>
    BY DEF History, stores, Searching
  <1>2. /\ DOMAIN q = Fields /\ RequestTyped(q) /\ q.kind = "recall" /\ Once(q) /\ Belongs(q)
        /\ WasSeen(q, past[r]) /\ IsFound(q, past[r])
    BY <1>1, RecallStands
  <1>3. PICK left, old, at, todo :
          /\ Becomes(r, [q EXCEPT !.at = at, !.left = left, !.old = @ \cup old, !.todo = todo])
          /\ left \subseteq q.left /\ todo \subseteq q.found
          /\ at \in {"history", "status"} /\ (at = "status" => todo = q.found)
          /\ old \subseteq Memories
          /\ \A m \in old : home[m] = q.scope /\ row[m] # "absent" /\ m \notin q.found /\ InDomain(m, q)
    <2>1. CASE q.left = {} /\ Becomes(r, [q EXCEPT !.at = "status", !.todo = q.found])
      <3>1. [q EXCEPT !.at = "status", !.todo = q.found]
              = [q EXCEPT !.at = "status", !.left = q.left, !.old = @ \cup {}, !.todo = q.found]
        BY <1>2 DEF Fields
      <3> QED
        BY <2>1, <3>1
    <2>2. CASE ~(q.left = {} /\ Becomes(r, [q EXCEPT !.at = "status", !.todo = q.found]))
      <3>1. PICK top \in Top({m \in Memories : home[m] = q.scope /\ row[m] = "superseded" /\ Matches(m, t)}) :
              Becomes(r, [q EXCEPT !.left = @ \ {t}, !.old = @ \cup {m \in top : NewToAnswer(q, m) /\ InDomain(m, q)}])
        BY <2>2, Zenon DEF History
      <3> DEFINE old == {m \in top : NewToAnswer(q, m) /\ InDomain(m, q)}
      <3>2. top \subseteq {m \in Memories : home[m] = q.scope /\ row[m] = "superseded"}
        BY DEF Top
      <3>3. [q EXCEPT !.left = @ \ {t}, !.old = @ \cup old]
              = [q EXCEPT !.at = "history", !.left = q.left \ {t}, !.old = @ \cup old, !.todo = q.todo]
        BY <1>1, <1>2 DEF Fields
      <3>4. /\ q.left \ {t} \subseteq q.left /\ q.todo \subseteq q.found /\ old \subseteq Memories
            /\ \A m \in old : home[m] = q.scope /\ row[m] # "absent" /\ m \notin q.found /\ InDomain(m, q)
        BY <1>2, <3>2 DEF RequestTyped, NewToAnswer
      <3>5. Becomes(r, [q EXCEPT !.at = "history", !.left = q.left \ {t}, !.old = @ \cup old, !.todo = q.todo])
        BY <3>1, <3>3
      <3> HIDE DEF old, t
      <3> QED
        BY <3>4, <3>5
    <2> QED
      BY <2>1, <2>2
  <1> DEFINE next == [q EXCEPT !.at = at, !.left = left, !.old = @ \cup old, !.todo = todo]
  <1>4. /\ DOMAIN next = Fields /\ next.at = at /\ next.left = left /\ next.terms = q.terms
        /\ next.kind = q.kind /\ next.scope = q.scope /\ next.found = q.found /\ next.old = q.old \cup old
        /\ next.todo = todo /\ next.rivals = q.rivals /\ next.types = q.types /\ next.domains = q.domains
    BY <1>2 DEF Fields
  <1>5. Becomes(r, next)
    BY <1>3
  <1> HIDE DEF next
  <1>6. RequestTyped(next) /\ Once(next)
    BY <1>2, <1>3, <1>4 DEF RequestTyped, Once, Observing, Searching
  <1>7. \A m : (InDomain(m, next) <=> InDomain(m, q)) /\ (Wanted(m, next) <=> Wanted(m, q))
    BY <1>4, WantsTheSame
  <1>8. Belongs(next) /\ WasSeen(next, past[r])
    BY <1>2, <1>3, <1>4, <1>7 DEF Belongs, WasSeen
  <1>9. IsFound(next, past[r])
    BY <1>1, <1>2, <1>3, <1>4, <1>7 DEF IsFound
  <1>10. StoresMoveOn
    BY <1>1, NothingMoves
  <1> QED
    BY <1>1, <1>2, <1>4, <1>5, <1>6, <1>8, <1>9, <1>10, RecallMoves

\* What is left of the memories found is looked at, and what has stayed is left.
LEMMA Narrows ==
  ASSUME Inv, Remember, NEW r \in Requests, UNCHANGED <<home, row, content>>,
         req[r].at \in {"status", "access", "reinforce"}, NEW next, Becomes(r, next), DOMAIN next = Fields,
         next.at \in {"status", "access", "reinforce", "answered"},
         next.kind = "recall", next.scope = req[r].scope, next.terms = req[r].terms, next.left \subseteq req[r].left,
         next.types = req[r].types, next.domains = req[r].domains, next.old = req[r].old, next.rivals = req[r].rivals,
         next.found \subseteq req[r].found, next.todo \subseteq next.found, WasSeen(next, past[r]),
         \A m \in past[r].stayed : m \in req[r].found => m \in next.found \/ Cardinality(req[r].rivals) > Limit
  PROVE  Inv'
  <1> DEFINE q == req[r]
  <1>1. q.at \in Searching
    BY DEF Searching
  <1>2. RequestTyped(q) /\ Once(q) /\ Belongs(q) /\ IsFound(q, past[r])
    BY <1>1, RecallStands
  <1>3. RequestTyped(next) /\ Once(next)
    BY <1>2 DEF RequestTyped, Once, Observing, Searching
  <1>4. \A m : (InDomain(m, next) <=> InDomain(m, q)) /\ (Wanted(m, next) <=> Wanted(m, q))
    BY WantsTheSame
  <1>5. Belongs(next)
    BY <1>2, <1>4 DEF Belongs
  <1>6. IsFound(next, past[r])
    BY <1>2, <1>4 DEF IsFound
  <1>7. StoresMoveOn
    BY NothingMoves
  <1> QED
    BY <1>1, <1>3, <1>5, <1>6, <1>7, RecallMoves

LEMMA Statuses == \A r \in Requests : Inv /\ Remember /\ Status(r) => Inv'
  <1> SUFFICES ASSUME NEW r \in Requests, Inv, Remember, Status(r) PROVE Inv'
    OBVIOUS
  <1> DEFINE q == req[r]
             m == First(q.todo)
             next == [q EXCEPT !.todo = @ \ {m}, !.found = IF m \in archived THEN @ \ {m} ELSE @]
  <1>1. q.at = "status" /\ Becomes(r, next) /\ UNCHANGED <<home, row, content>> /\ m \in q.todo
    BY DEF Status, stores, First
  <1>2. /\ DOMAIN q = Fields /\ RequestTyped(q) /\ q.kind = "recall"
        /\ UpToDate(q, past[r]) /\ WasSeen(q, past[r])
    BY <1>1, RecallStands DEF Searching
  <1>3. /\ DOMAIN next = Fields /\ next.at = q.at /\ next.left = q.left /\ next.terms = q.terms
        /\ next.kind = q.kind /\ next.scope = q.scope /\ next.old = q.old /\ next.todo = q.todo \ {m}
        /\ next.found = (IF m \in archived THEN q.found \ {m} ELSE q.found)
        /\ next.rivals = q.rivals /\ next.types = q.types /\ next.domains = q.domains
    BY <1>2 DEF Fields
  <1> HIDE DEF next, m
  <1>4. next.todo \subseteq next.found /\ next.found \subseteq q.found
    BY <1>2, <1>3 DEF RequestTyped
  <1>5. WasSeen(next, past[r])
    BY <1>1, <1>2, <1>3 DEF WasSeen, UpToDate, RequestTyped
  <1>6. \A x \in past[r].stayed : x \in q.found => x \in next.found
    BY <1>2, <1>3 DEF UpToDate, Current
  <1> QED
    BY <1>1, <1>2, <1>3, <1>4, <1>5, <1>6, Narrows

LEMMA Ranks == \A r \in Requests : Inv /\ Remember /\ Rank(r) => Inv'
  <1> SUFFICES ASSUME NEW r \in Requests, Inv, Remember, Rank(r) PROVE Inv'
    OBVIOUS
  <1> DEFINE q == req[r]
  <1>1. PICK best \in Top(q.found) : Becomes(r, [q EXCEPT !.at = "access", !.found = best, !.todo = best, !.left = {}])
    BY Zenon DEF Rank
  <1> DEFINE next == [q EXCEPT !.at = "access", !.found = best, !.todo = best, !.left = {}]
  <1>2. q.at = "status" /\ q.todo = {} /\ UNCHANGED <<home, row, content>> /\ best \subseteq q.found
    BY DEF Rank, stores, Top
  <1>3. /\ DOMAIN q = Fields /\ RequestTyped(q) /\ q.kind = "recall" /\ Belongs(q) /\ WasSeen(q, past[r])
    BY <1>2, RecallStands DEF Searching
  <1>4. /\ DOMAIN next = Fields /\ next.at = "access" /\ next.left = {} /\ next.terms = q.terms
        /\ next.kind = q.kind /\ next.scope = q.scope /\ next.old = q.old /\ next.todo = best
        /\ next.found = best /\ next.rivals = q.rivals /\ next.types = q.types /\ next.domains = q.domains
    BY <1>3 DEF Fields
  <1>5. Becomes(r, next)
    BY <1>1
  <1> HIDE DEF next
  <1>6. WasSeen(next, past[r])
    BY <1>2, <1>3, <1>4 DEF WasSeen
  <1>7. best = q.found \/ Cardinality(q.rivals) > Limit
    BY <1>1, <1>3, AllOfFewRivals DEF RequestTyped, Belongs
  <1>8. \A x \in past[r].stayed : x \in q.found => x \in next.found \/ Cardinality(q.rivals) > Limit
    BY <1>4, <1>7
  <1> QED
    BY <1>2, <1>3, <1>4, <1>5, <1>6, <1>8, Narrows

LEMMA Accesses == \A r \in Requests : Inv /\ Remember /\ (Access(r) \/ Reinforce(r)) => Inv'
  <1> SUFFICES ASSUME NEW r \in Requests, Inv, Remember, Access(r) \/ Reinforce(r) PROVE Inv'
    OBVIOUS
  <1> DEFINE q == req[r]
  <1>1. q.at \in {"access", "reinforce"} /\ UNCHANGED <<home, row, content>>
    BY DEF Access, Reinforce, stores
  <1>2. DOMAIN q = Fields /\ RequestTyped(q) /\ q.kind = "recall" /\ WasSeen(q, past[r])
    BY <1>1, RecallStands DEF Searching
  <1>3. PICK at, todo, copy : /\ Becomes(r, [q EXCEPT !.at = at, !.todo = todo, !.copy = copy])
                              /\ at \in {"access", "reinforce", "answered"} /\ todo \subseteq q.todo
    <2>1. ASSUME NEW at \in {"reinforce", "answered"}, NEW copy, Becomes(r, [q EXCEPT !.at = at, !.copy = copy])
          PROVE  \E todo : /\ Becomes(r, [q EXCEPT !.at = at, !.todo = todo, !.copy = copy]) /\ todo \subseteq q.todo
      <3>1. [q EXCEPT !.at = at, !.copy = copy] = [q EXCEPT !.at = at, !.todo = q.todo, !.copy = copy]
        BY <1>2 DEF Fields
      <3> QED
        BY <2>1, <3>1
    <2>2. CASE Access(r) /\ q.todo = {}
      <3>1. [q EXCEPT !.at = "answered"] = [q EXCEPT !.at = "answered", !.copy = q.copy]
        BY <1>2 DEF Fields
      <3> QED
        BY <2>1, <2>2, <3>1 DEF Access, Moves, Becomes
    <2>3. CASE Access(r) /\ q.todo # {}
      BY <2>1, <2>3 DEF Access
    <2>4. CASE Reinforce(r)
      BY <2>4 DEF Reinforce
    <2> QED
      BY <2>2, <2>3, <2>4
  <1> DEFINE next == [q EXCEPT !.at = at, !.todo = todo, !.copy = copy]
  <1>4. /\ DOMAIN next = Fields /\ next.at = at /\ next.left = q.left /\ next.terms = q.terms
        /\ next.kind = q.kind /\ next.scope = q.scope /\ next.old = q.old /\ next.todo = todo
        /\ next.found = q.found /\ next.rivals = q.rivals /\ next.types = q.types /\ next.domains = q.domains
    BY <1>2 DEF Fields
  <1>5. Becomes(r, next)
    BY <1>3
  <1> HIDE DEF next
  <1>6. WasSeen(next, past[r]) /\ next.todo \subseteq next.found
    BY <1>1, <1>2, <1>3, <1>4 DEF WasSeen, RequestTyped
  <1> QED
    BY <1>1, <1>2, <1>3, <1>4, <1>5, <1>6, Narrows

-----------------------------------------------------------------------------
LEMMA Fails == \A r \in Requests : Inv /\ Remember /\ Fail(r) => Inv'
  <1> SUFFICES ASSUME NEW r \in Requests, Inv, Remember, Fail(r) PROVE Inv'
    OBVIOUS
  <1> DEFINE q == req[r]
             next == [Fresh(q.scope) EXCEPT !.at = "failed", !.kind = q.kind]
  <1>1. Becomes(r, next) /\ q.at \in Canonical /\ UNCHANGED <<home, row, content>>
    BY DEF Fail, stores
  <1>2. Sound(q, past[r]) /\ q.at # "idle"
    BY <1>1 DEF Inv, Canonical
  <1>3. /\ DOMAIN next = Fields /\ next.at = "failed" /\ next.kind = q.kind /\ next.scope = q.scope
        /\ next.terms = {} /\ next.left = {} /\ next.found = {} /\ next.old = {} /\ next.todo = {} /\ next.rivals = {}
    BY DEF Fresh, Fields
  <1> HIDE DEF next
  <1>4. RequestTyped(next) /\ Once(next) /\ Belongs(next)
    BY <1>2, <1>3 DEF Sound, RequestTyped, Once, Belongs, Observing, Searching
  <1>5. Remembered(next, past[r])
    BY <1>2, <1>3 DEF Sound, Remembered, UpToDate, WasSeen, IsFound
  <1>6. StoresMoveOn
    BY <1>1, NothingMoves
  <1> QED
    BY <1>1, <1>2, <1>3, <1>4, <1>5, <1>6, OneMoves DEF Sound

\* A handler ends, the sweep reads and saves, the audit lists and deletes.
Others ==
    \/ \E j \in DOMAIN job : Handle(j)
    \/ \E m \in Memories : SweepReads(m) \/ SweepSaves(m)
    \/ List \/ Purge

LEMMA OthersAct == Inv /\ Remember /\ Others => Inv'
  <1> SUFFICES ASSUME Inv, Remember, Others PROVE Inv'
    OBVIOUS
  <1>1. req' = req /\ UNCHANGED <<home, content>>
    BY DEF Others, Handle, SweepReads, SweepSaves, List, Purge, stores
  <1>2. StoresMoveOn
    <2>1. CASE row' = row
      BY <1>1, <2>1, NothingMoves
    <2>2. CASE row' # row
      <3>1. Purge
        BY <2>2 DEF Others, Handle, SweepReads, SweepSaves, List, stores
      <3>2. row' = [m \in Memories |-> IF m \in {l.memory : l \in listed} THEN "purged" ELSE row[m]]
        BY <2>2, <3>1 DEF Purge
      <3>3. row' \in [Memories -> {"absent", "live", "superseded", "purged"}]
            /\ \A m \in Memories : row'[m] = row[m] \/ row'[m] = "purged"
        BY <3>2 DEF Inv, StoresTyped
      <3> HIDE <3>2
      <3> QED
        BY <1>1, <3>3 DEF Inv, StoresTyped, StoresMoveOn
    <2> QED
      BY <2>1, <2>2
  <1> QED
    BY <1>1, <1>2, AllStand

-----------------------------------------------------------------------------
(***************************************************************************)
(* The books of observe(): which jobs a request recorded, and what it says *)
(* of those it no longer waits for.  Only the request that recorded a job  *)
(* can set it running again, so what it was told is still true later.      *)
(***************************************************************************)

Own(r) == {j \in DOMAIN job : j.request = r}

JobsKnown ==
    /\ DOMAIN job \subseteq Job
    /\ \A j \in DOMAIN job : job[j] \in {"running", "ok", "pending", "failed"}

Awaits(q, r) ==
    /\ q.jobs \in Seq(Job)
    /\ Range(q.jobs) \subseteq Own(r)
    /\ q.at \in {"launch", "await"} <=> q.jobs # <<>>
    /\ q.kind # "observe" => Own(r) = {}

Tells(q, r) ==
    /\ q.sync \in {"none", "skipped", "ok", "pending", "failed"}
    /\ q.at # "failed" =>
        /\ Own(r) = {} => q.sync \in {"none", "skipped"}
        /\ \A j \in Own(r) \ Range(q.jobs) :
            q.sync \in {"ok", "pending", "failed"} /\ (q.sync = "ok" => job[j] = "ok")

Accounted(q, r) == Queued(q) /\ Awaits(q, r) /\ Tells(q, r)

Books ==
    /\ Inv
    /\ JobsKnown
    /\ \A r \in Requests : Accounted(req[r], r)

LEMMA NothingQueued == <<>> \in Seq(Job) /\ <<>> \in Seq(Memories) /\ Range(<<>>) = {}
  BY DEF Range

\* The jobs of a request that does not move: none is added, none that is done is started.
JobsStay(r) == Own(r)' = Own(r) /\ \A j \in Own(r) : job[j] = "ok" => job'[j] = "ok"

LEMMA AccountStands ==
  ASSUME NEW q, NEW r \in Requests, Accounted(q, r), JobsStay(r)
  PROVE  Accounted(q, r)'
  <1>1. Queued(q)'
    BY DEF Accounted, Queued, AuditRejects
  <1>2. Awaits(q, r)'
    BY DEF Accounted, Awaits, JobsStay
  <1>3. Tells(q, r)'
    BY DEF Accounted, Tells, JobsStay
  <1> QED
    BY <1>1, <1>2, <1>3 DEF Accounted

\* One request goes on: all accounts are in order when its own is.
LEMMA OneAccounts ==
  ASSUME Books, Inv', NEW r \in Requests, NEW next, Becomes(r, next), JobsKnown',
         \A s \in Requests \ {r} : JobsStay(s), Accounted(req[r], r)'
  PROVE  Books'
  <1>1. ASSUME NEW s \in Requests \ {r}
        PROVE  Accounted(req[s], s)'
    <2>1. req'[s] = req[s]
      BY DEF Books, Inv, Becomes
    <2>2. \A q : Accounted(q, s) => Accounted(q, s)'
      BY AccountStands
    <2> QED
      BY <2>1, <2>2 DEF Books
  <1> QED
    BY <1>1 DEF Books

LEMMA SameBooks ==
  ASSUME Books, Inv', NEW r \in Requests, NEW next, Becomes(r, next), job' = job, Accounted(next, r)
  PROVE  Books'
  <1>1. JobsKnown' /\ \A s \in Requests : JobsStay(s)
    BY DEF Books, JobsKnown, JobsStay, Own
  <1>2. req'[r] = next
    BY DEF Books, Inv, Becomes
  <1>3. \A q : Accounted(q, r) => Accounted(q, r)'
    BY <1>1, AccountStands
  <1> QED
    BY <1>1, <1>2, <1>3, OneAccounts

LEMMA NoneAccounts ==
  ASSUME Books, Inv', req' = req, JobsKnown', \A s \in Requests : JobsStay(s)
  PROVE  Books'
  <1>1. ASSUME NEW s \in Requests
        PROVE  Accounted(req[s], s)'
    <2>1. \A q : Accounted(q, s) => Accounted(q, s)'
      BY AccountStands
    <2> QED
      BY <2>1 DEF Books
  <1> QED
    BY <1>1 DEF Books

LEMMA BooksStart == Init => Books
  <1> SUFFICES ASSUME Init PROVE Books
    OBVIOUS
  <1>1. Inv
    BY Starts
  <1>2. job = <<>> /\ DOMAIN job = {}
    BY DEF Init
  <1>3. JobsKnown
    BY <1>2 DEF JobsKnown
  <1>4. ASSUME NEW r \in Requests
        PROVE  Accounted(req[r], r)
    <2>1. PICK s \in Scopes : req[r] = Fresh(s)
      BY DEF Init
    <2>2. /\ req[r].at = "idle" /\ req[r].candidates = <<>> /\ req[r].jobs = <<>> /\ req[r].sync = "none"
          /\ Own(r) = {}
      BY <1>2, <2>1 DEF Fresh, Own
    <2> QED
      BY <2>2, NothingQueued DEF Accounted, Queued, Awaits, Tells
  <1> QED
    BY <1>1, <1>3, <1>4 DEF Books

-----------------------------------------------------------------------------
\* Whether the gate admits a text has nothing to do with its length.
LEMMA AnyLength ==
  \A t, events, max1, max2 : Gate(t, events, max1).admitted = Gate(t, events, max2).admitted
  BY DEF Gate

\* What is admitted, with an LLM or without, is nothing the audit would refuse.
LEMMA AdmittedIsSpared ==
  ASSUME NEW mode, NEW m \in Memories, NEW events, NEW proposals \in SUBSET Memories,
         NEW c \in Admit(mode, m, events, proposals)
  PROVE  c \in Memories /\ ~AuditRejects(c)
  <1>1. c \in Reviewed(proposals) \/ (c \in Extracted(m) /\ WorthRemembering(c))
    BY DEF Admit
  <1>2. c \in Memories
    BY <1>1 DEF Reviewed, Extracted
  <1>3. Gate(Statement[c].text, {}, DefaultMaxChars).admitted
    BY <1>1 DEF Reviewed, WorthRemembering
  <1> QED
    BY <1>2, <1>3, AnyLength DEF AuditRejects

LEMMA ObserveAccounts ==
  ASSUME Books, Inv', NEW r \in Requests, NEW turn \in Turns, Observe(r, turn)
  PROVE  Books'
  <1> DEFINE q == req[r]
             admitted == Admit(admission, turn.text, turn.events, turn.proposals)
             Given(left) == [q EXCEPT !.kind = "observe", !.candidates = left,
                                      !.at = IF left = <<>> THEN "checkpoint" ELSE "commit",
                                      !.sync = IF left = <<>> THEN "none" ELSE "skipped"]
  <1>1. PICK left \in SetToSeqs(admitted) : Becomes(r, Given(left))
    BY Zenon DEF Observe
  <1> DEFINE next == Given(left)
  <1>2. turn.text \in Memories /\ turn.proposals \in SUBSET Memories
    BY PipelineAssumption
  <1>3. \A c \in admitted : c \in Memories /\ ~AuditRejects(c)
    BY <1>2, AdmittedIsSpared
  <1>4. left \in Seq(Memories) /\ Range(left) \subseteq admitted
    <2>1. IsFiniteSet(admitted) /\ Cardinality(admitted) \in Nat
      <3>1. admitted \subseteq Memories
        BY <1>3
      <3> QED
        BY <3>1, FS_Subset, FS_CardinalityType, PipelineAssumption
    <2>2. left \in [1..Cardinality(admitted) -> admitted]
      BY DEF SetToSeqs
    <2> HIDE DEF admitted
    <2>3. left \in [1..Cardinality(admitted) -> Memories]
      BY <1>3, <2>2
    <2> QED
      BY <2>1, <2>2, <2>3 DEF Range
  <1>5. Accounted(q, r) /\ q.at = "idle" /\ q.kind = "none" /\ DOMAIN q = Fields
    BY DEF Books, Observe, Inv, Sound, RequestTyped
  <1>6. /\ next.at = (IF left = <<>> THEN "checkpoint" ELSE "commit") /\ next.candidates = left
        /\ next.jobs = q.jobs /\ next.sync = (IF left = <<>> THEN "none" ELSE "skipped") /\ next.kind = "observe"
    BY <1>5 DEF Fields
  <1>7. Becomes(r, next) /\ job' = job
    BY <1>1 DEF Observe, stores
  <1> HIDE DEF next, admitted
  <1>8. q.jobs = <<>> /\ Own(r) = {}
    BY <1>5 DEF Accounted, Awaits
  <1>9. Accounted(next, r)
    BY <1>3, <1>4, <1>6, <1>8, NothingQueued DEF Accounted, Queued, Awaits, Tells
  <1> QED
    BY <1>7, <1>9, SameBooks

\* The candidate is done with.
LEMMA NextCandidate ==
  ASSUME NEW r, NEW q, DOMAIN q = Fields, Accounted(q, r), q.at \in {"commit", "embed"}
  PROVE  Accounted(AfterCandidate(q), r)
  <1> DEFINE next == AfterCandidate(q)
             left == Tail(q.candidates)
  <1>1. /\ next.at = (IF left = <<>> THEN "checkpoint" ELSE "commit") /\ next.candidates = left
        /\ next.jobs = q.jobs /\ next.sync = q.sync /\ next.kind = q.kind
    BY DEF AfterCandidate, Fields
  <1> HIDE DEF next
  <1>2. q.candidates \in Seq(Memories) /\ q.candidates # <<>>
    BY DEF Accounted, Queued
  <1>3. left \in Seq(Memories) /\ Range(left) \subseteq Range(q.candidates)
    BY <1>2, FirstAndRest
  <1> HIDE DEF left
  <1>4. Accounted(next, r)
    BY <1>1, <1>3 DEF Accounted, Queued, Awaits, Tells
  <1> QED
    BY <1>4 DEF next

\* The jobs recorded with a decision are the request's, and there are some.
LEMMA NewJobs ==
  ASSUME NEW r \in Requests, NEW c \in Memories, NEW memory \in Memories, NEW gone \in SUBSET Memories,
         NEW all \in JobsFor(r, c, memory, gone)
  PROVE  /\ all \in Seq(Job) /\ all # <<>>
         /\ \A j \in Range(all) : j \in Job /\ j.request = r
  <1> DEFINE new(m, kind) == [memory |-> m, kind |-> kind, candidate |-> c, request |-> r]
  <1>1. PICK order \in SetToSeqs(gone) :
          all = Append([i \in DOMAIN order |-> new(order[i], "stale")], new(memory, "sync"))
    BY DEF JobsFor
  <1> DEFINE n == Cardinality(gone)
             first == [i \in DOMAIN order |-> new(order[i], "stale")]
  <1>2. n \in Nat
    BY FS_Subset, FS_CardinalityType, PipelineAssumption
  <1>3. order \in [1..n -> gone]
    BY DEF SetToSeqs
  <1>4. \A m \in Memories, kind \in {"stale", "sync"} : new(m, kind) \in Job /\ new(m, kind).request = r
    BY DEF Job
  <1> DEFINE Mine == {j \in Job : j.request = r}
  <1>5. first \in [1..n -> Mine] /\ new(memory, "sync") \in Mine
    BY <1>3, <1>4
  <1>6. first \in Seq(Mine)
    BY <1>2, <1>5
  <1>7. all = Append(first, new(memory, "sync"))
    BY <1>1
  <1> HIDE DEF first, new, n, Mine
  <1>8. all \in Seq(Mine) /\ all # <<>>
    BY <1>5, <1>6, <1>7
  <1> QED
    BY <1>8 DEF Mine, Range

LEMMA CommitAccounts ==
  ASSUME Books, Inv', NEW r \in Requests, Commit(r)
  PROVE  Books'
  <1> DEFINE q == req[r]
             c == Head(q.candidates)
  <1>1. DOMAIN q = Fields /\ Accounted(q, r) /\ q.at = "commit" /\ q.kind = "observe" /\ q.scope \in Scopes /\ StoresTyped
    BY AllFields DEF Books, Commit, Inv, Sound, RequestTyped, Observing
  <1>2. CASE Becomes(r, AfterCandidate(q)) /\ UNCHANGED stores
    <2>1. job' = job
      BY <1>2 DEF stores
    <2>2. Accounted(AfterCandidate(q), r)
      BY <1>1, NextCandidate
    <2> QED
      BY <1>2, <2>1, <2>2, SameBooks
  <1>3. ASSUME NEW new, NEW all, Writes(r, new, all)
        PROVE  Books'
    <2>1. c \in Memories
      BY <1>1, FirstAndRest DEF Accounted, Queued
    <2> HIDE DEF c
    <2>2. PICK seen \in Evidence(q.scope) :
            /\ new \in Creations(c) \cup Supersessions(c, seen) \cup Revisions(c, seen) \cup Mergers(c, seen)
            /\ all \in JobsFor(r, c, new.memory, {m \in seen : new.row[m] = "superseded"})
      BY <1>3 DEF Writes, c
    <2>3. new.memory \in Memories
      BY <1>1, <2>1, <2>2, Outcomes
    <2>4. {m \in seen : new.row[m] = "superseded"} \in SUBSET Memories
      BY DEF Evidence
    <2>5. /\ all \in Seq(Job) /\ all # <<>>
          /\ \A j \in Range(all) : j \in Job /\ j.request = r
      BY <2>1, <2>2, <2>3, <2>4, NewJobs
    <2> DEFINE next == [q EXCEPT !.at = "launch", !.jobs = all,
                                 !.wrote = [memory |-> new.memory, text |-> new.content[new.memory]]]
    <2>6. Becomes(r, next)
      BY <1>3, Zenon DEF Writes
    <2>7. /\ next.at = "launch" /\ next.jobs = all /\ next.candidates = q.candidates /\ next.kind = q.kind
          /\ next.sync = q.sync
      BY <1>1 DEF Fields
    <2> HIDE DEF next
    <2>8. job' = [j \in DOMAIN job \cup Range(all) |-> IF j \in Range(all) THEN "pending" ELSE job[j]]
      BY <1>3 DEF Writes
    <2>9. DOMAIN job' = DOMAIN job \cup Range(all)
      BY <2>8
    <2>10. JobsKnown'
      BY <2>5, <2>8, <2>9 DEF Books, JobsKnown
    <2>11. \A s \in Requests \ {r} : JobsStay(s)
      BY <2>5, <2>8, <2>9 DEF JobsStay, Own
    <2>12. Own(r)' = Own(r) \cup Range(all)
      BY <2>5, <2>9 DEF Own
    <2>13. req'[r] = next
      BY <2>6 DEF Books, Inv, Becomes
    <2>14. Queued(req[r])'
      BY <1>1, <2>7, <2>13 DEF Accounted, Queued, AuditRejects
    <2>15. Awaits(req[r], r)'
      BY <1>1, <2>5, <2>7, <2>12, <2>13 DEF Awaits
    <2>16. Range(all) # {}
      <3>1. Len(all) \in Nat \ {0} /\ DOMAIN all = 1..Len(all)
        BY <2>5
      <3>2. 1 \in DOMAIN all
        BY <3>1
      <3> QED
        BY <3>2 DEF Range
    <2>17. Tells(req[r], r)'
      <3>1. q.jobs = <<>> /\ Range(q.jobs) = {} /\ Tells(q, r)
        BY <1>1, NothingQueued DEF Accounted, Awaits
      <3>2. \A j \in Own(r)' \ Range(all) : j \in Own(r) /\ job'[j] = job[j]
        BY <2>8, <2>12 DEF Own
      <3> QED
        BY <1>1, <2>7, <2>12, <2>13, <2>16, <3>1, <3>2 DEF Tells
    <2> QED
      BY <2>6, <2>10, <2>11, <2>14, <2>15, <2>17, OneAccounts DEF Accounted
  <1> QED
    BY <1>2, <1>3, CommitDecides

\* Statuses are joined by the worst.
LEMMA WorseTells ==
  ASSUME NEW old \in {"none", "skipped", "ok", "pending", "failed"}, NEW new \in {"ok", "pending", "failed"}
  PROVE  /\ Worse(old, new) \in {"ok", "pending", "failed"}
         /\ Worse(old, new) = "ok" => old \in {"none", "skipped", "ok"} /\ new = "ok"
  BY DEF Worse

\* A request is told how its first job, or all of them, went and waits for the others.
LEMMA HearsOfJobs ==
  ASSUME Books, Inv', NEW r \in Requests, req[r].at \in {"launch", "await"}, NEW next, Becomes(r, next),
         job' = job, NEW status \in {"ok", "pending", "failed"},
         \/ next.jobs = <<>> /\ status = "pending"
         \/ next.jobs = Tail(req[r].jobs) /\ (status = "ok" => job[Head(req[r].jobs)] = "ok"),
         next.at = (IF next.jobs = <<>> THEN "embed" ELSE "launch"), next.kind = req[r].kind,
         next.candidates = req[r].candidates, next.sync = Worse(req[r].sync, status)
  PROVE  Books'
  <1> DEFINE q == req[r]
  <1>1. Accounted(q, r) /\ q.jobs \in Seq(Job) /\ q.jobs # <<>>
    BY DEF Books, Accounted, Awaits
  <1>2. next.jobs \in Seq(Job) /\ Range(next.jobs) \subseteq Range(q.jobs)
    BY <1>1, FirstAndRest, NothingQueued
  <1>3. Queued(next) /\ Awaits(next, r)
    BY <1>1, <1>2 DEF Accounted, Queued, Awaits
  <1>4. Own(r) # {}
    <2>1. Head(q.jobs) \in Range(q.jobs)
      BY <1>1, FirstAndRest
    <2> QED
      BY <1>1, <2>1 DEF Accounted, Awaits
  <1>5. /\ next.sync \in {"ok", "pending", "failed"}
        /\ next.sync = "ok" => q.sync \in {"none", "skipped", "ok"} /\ status = "ok"
    BY <1>1, WorseTells DEF Accounted, Tells
  <1>6. ASSUME NEW j \in Own(r) \ Range(next.jobs), next.sync = "ok" PROVE job[j] = "ok"
    <2>1. next.jobs = Tail(q.jobs) /\ job[Head(q.jobs)] = "ok"
      BY <1>5, <1>6
    <2>2. j = Head(q.jobs) \/ j \notin Range(q.jobs)
      BY <1>1, <1>6, <2>1, FirstAndRest
    <2> QED
      BY <1>1, <1>5, <1>6, <2>1, <2>2 DEF Accounted, Tells
  <1>7. Tells(next, r)
    BY <1>4, <1>5, <1>6 DEF Tells
  <1> QED
    BY <1>3, <1>7, SameBooks DEF Accounted

LEMMA DeferAccounts ==
  ASSUME Books, Inv', NEW r \in Requests, Defer(r)
  PROVE  Books'
  <1> DEFINE q == req[r]
             next == [q EXCEPT !.jobs = <<>>, !.sync = Worse(@, "pending"), !.at = "embed"]
  <1>1. DOMAIN q = Fields
    BY AllFields DEF Books
  <1>2. /\ next.at = "embed" /\ next.candidates = q.candidates /\ next.kind = q.kind
        /\ next.jobs = <<>> /\ next.sync = Worse(q.sync, "pending")
    BY <1>1 DEF Fields
  <1>3. Becomes(r, next) /\ q.at = "launch" /\ job' = job
    BY DEF Defer, stores
  <1> HIDE DEF next
  <1> QED
    BY <1>2, <1>3, HearsOfJobs

LEMMA AwaitAccounts ==
  ASSUME Books, Inv', NEW r \in Requests, Await(r)
  PROVE  Books'
  <1> DEFINE q == req[r]
             status == IF job[Head(q.jobs)] = "running" THEN "pending" ELSE job[Head(q.jobs)]
             left == Tail(q.jobs)
             next == [q EXCEPT !.jobs = left, !.sync = Worse(@, status),
                               !.at = IF left = <<>> THEN "embed" ELSE "launch"]
  <1>1. DOMAIN q = Fields /\ Accounted(q, r) /\ q.at = "await"
    BY AllFields DEF Books, Await
  <1>2. /\ next.at = (IF left = <<>> THEN "embed" ELSE "launch") /\ next.candidates = q.candidates
        /\ next.kind = q.kind /\ next.jobs = left /\ next.sync = Worse(q.sync, status)
    BY <1>1 DEF Fields
  <1>3. Becomes(r, next) /\ job' = job
    BY DEF Await, stores
  <1>4. status \in {"ok", "pending", "failed"} /\ (status = "ok" => job[Head(q.jobs)] = "ok")
    <2>1. Head(q.jobs) \in Range(q.jobs)
      BY <1>1, FirstAndRest DEF Accounted, Awaits
    <2>2. Head(q.jobs) \in DOMAIN job
      BY <1>1, <2>1 DEF Accounted, Awaits, Own
    <2> QED
      BY <2>2 DEF Books, JobsKnown
  <1> HIDE DEF next, status, left
  <1>5. left = Tail(q.jobs)
    BY DEF left
  <1> QED
    BY <1>1, <1>2, <1>3, <1>4, <1>5, HearsOfJobs

LEMMA LaunchAccounts ==
  ASSUME Books, Inv', NEW r \in Requests, Launch(r)
  PROVE  Books'
  <1> DEFINE q == req[r]
             next == [q EXCEPT !.at = "await"]
             h == Head(q.jobs)
  <1>1. DOMAIN q = Fields /\ Accounted(q, r) /\ q.at = "launch"
    BY AllFields DEF Books, Launch
  <1>2. /\ next.at = "await" /\ next.candidates = q.candidates /\ next.kind = q.kind
        /\ next.jobs = q.jobs /\ next.sync = q.sync
    BY <1>1 DEF Fields
  <1>3. Becomes(r, next)
    BY DEF Launch, Moves, Becomes
  <1>4. h \in Range(q.jobs) /\ h \in Own(r)
    BY <1>1, FirstAndRest DEF Accounted, Awaits
  <1>5. job' = [job EXCEPT ![h] = "running"]
    BY DEF Launch
  <1> HIDE DEF next, h
  <1>6. DOMAIN job' = DOMAIN job /\ \A j \in DOMAIN job : job'[j] = IF j = h THEN "running" ELSE job[j]
    BY <1>5
  <1>7. JobsKnown'
    BY <1>6 DEF Books, JobsKnown
  <1>8. \A s \in Requests \ {r} : JobsStay(s)
    BY <1>4, <1>6 DEF JobsStay, Own
  <1>9. Own(r)' = Own(r) /\ req'[r] = next
    BY <1>3, <1>6 DEF Own, Books, Inv, Becomes
  <1>10. Queued(req[r])' /\ Awaits(req[r], r)'
    BY <1>1, <1>2, <1>9 DEF Accounted, Queued, Awaits, AuditRejects
  <1>11. Tells(req[r], r)'
    <2>1. \A j \in Own(r) \ Range(q.jobs) : job'[j] = job[j]
      BY <1>4, <1>6 DEF Own
    <2> QED
      BY <1>1, <1>2, <1>9, <2>1 DEF Accounted, Tells
  <1> QED
    BY <1>3, <1>7, <1>8, <1>10, <1>11, OneAccounts DEF Accounted

LEMMA EmbedAccounts ==
  ASSUME Books, Inv', NEW r \in Requests, Embed(r)
  PROVE  Books'
  <1>1. DOMAIN req[r] = Fields /\ Accounted(req[r], r) /\ req[r].at = "embed"
    BY AllFields DEF Books, Embed
  <1>2. Becomes(r, AfterCandidate(req[r])) /\ job' = job
    BY DEF Embed
  <1> QED
    BY <1>1, <1>2, NextCandidate, SameBooks

LEMMA CheckpointAccounts ==
  ASSUME Books, Inv', NEW r \in Requests, Checkpoint(r)
  PROVE  Books'
  <1> DEFINE q == req[r]
             next == [q EXCEPT !.at = "answered"]
  <1>1. DOMAIN q = Fields /\ Accounted(q, r) /\ q.at = "checkpoint"
    BY AllFields DEF Books, Checkpoint
  <1>2. /\ next.at = "answered" /\ next.candidates = q.candidates /\ next.kind = q.kind
        /\ next.jobs = q.jobs /\ next.sync = q.sync
    BY <1>1 DEF Fields
  <1>3. Becomes(r, next) /\ job' = job
    BY DEF Checkpoint, Moves, Becomes
  <1> HIDE DEF next
  <1>4. Accounted(next, r)
    BY <1>1, <1>2 DEF Accounted, Queued, Awaits, Tells
  <1> QED
    BY <1>3, <1>4, SameBooks

\* recall() has no books to keep.
LEMMA RecallAccounts ==
  ASSUME Books, Inv', NEW r \in Requests, req[r].at \in Searching \cup {"idle"}, NEW next, Becomes(r, next),
         job' = job, next.at \in Searching \cup {"answered"}, next.kind = "recall",
         next.candidates = req[r].candidates, next.jobs = req[r].jobs, next.sync = req[r].sync
  PROVE  Books'
  <1>1. Accounted(req[r], r) /\ req[r].kind # "observe"
    BY DEF Books, Inv, Sound, RequestTyped, Searching
  <1>2. Accounted(next, r)
    BY <1>1 DEF Accounted, Queued, Awaits, Tells, Searching
  <1> QED
    BY <1>2, SameBooks

LEMMA BeginAccounts ==
  ASSUME Books, Inv', NEW r \in Requests, NEW query \in Queries, Recall(r, query)
  PROVE  Books'
  <1> DEFINE q == req[r]
             terms == query.terms \cup (IF q.scope \in kept THEN CheckpointTerms ELSE {})
             next == [q EXCEPT !.kind = "recall", !.at = "search", !.terms = terms, !.left = terms,
                               !.domains = Routed(query.kinds), !.types = Planned(query.types)]
  <1>1. Becomes(r, next) /\ q.at = "idle" /\ job' = job
    BY DEF Recall, stores
  <1>2. DOMAIN q = Fields
    BY AllFields DEF Books
  <1>3. /\ next.at = "search" /\ next.candidates = q.candidates /\ next.kind = "recall"
        /\ next.jobs = q.jobs /\ next.sync = q.sync
    BY <1>2 DEF Fields
  <1> HIDE DEF next
  <1> QED
    BY <1>1, <1>3, RecallAccounts DEF Searching

\* What the steps of recall() have in common.
RecallStep(r) ==
    Search(r) \/ Semantic(r) \/ Graph(r) \/ History(r) \/ Status(r) \/ Rank(r) \/ Access(r) \/ Reinforce(r)

LEMMA SearchAccounts ==
  ASSUME Books, Inv', NEW r \in Requests, RecallStep(r)
  PROVE  Books'
  <1> DEFINE q == req[r]
  <1>1. job' = job /\ q.at \in Searching
    BY DEF RecallStep, Search, Semantic, Graph, History, Status, Rank, Access, Reinforce, stores, Searching
  <1>2. DOMAIN q = Fields /\ q.kind = "recall"
    BY <1>1, AllFields DEF Books, Inv, Sound, RequestTyped
  <1>3. ASSUME NEW next, Becomes(r, next), next.at \in Searching \cup {"answered"}, next.kind = "recall",
               next.candidates = q.candidates, next.jobs = q.jobs, next.sync = q.sync
        PROVE  Books'
    BY <1>1, <1>3, RecallAccounts
  <1>4. ASSUME NEW stage \in {"semantic", "graph", "history"}, Becomes(r, [q EXCEPT !.at = stage, !.left = q.terms])
        PROVE  Books'
    <2> DEFINE next == [q EXCEPT !.at = stage, !.left = q.terms]
    <2>1. /\ next.at = stage /\ next.kind = q.kind
          /\ next.candidates = q.candidates /\ next.jobs = q.jobs /\ next.sync = q.sync
      BY <1>2 DEF Fields
    <2>2. Becomes(r, next)
      BY <1>4
    <2> HIDE DEF next
    <2> QED
      BY <1>1, <1>2, <1>3, <2>1, <2>2 DEF Searching
  <1>5. ASSUME NEW left, NEW rivals, NEW found, Becomes(r, [q EXCEPT !.left = left, !.rivals = rivals, !.found = found])
        PROVE  Books'
    <2> DEFINE next == [q EXCEPT !.left = left, !.rivals = rivals, !.found = found]
    <2>1. /\ next.at = q.at /\ next.kind = q.kind
          /\ next.candidates = q.candidates /\ next.jobs = q.jobs /\ next.sync = q.sync
      BY <1>2 DEF Fields
    <2>2. Becomes(r, next)
      BY <1>5
    <2> HIDE DEF next
    <2> QED
      BY <1>1, <1>2, <1>3, <2>1, <2>2 DEF Searching
  <1>6. ASSUME NEW left, NEW old, Becomes(r, [q EXCEPT !.left = left, !.old = old])
        PROVE  Books'
    <2> DEFINE next == [q EXCEPT !.left = left, !.old = old]
    <2>1. /\ next.at = q.at /\ next.kind = q.kind
          /\ next.candidates = q.candidates /\ next.jobs = q.jobs /\ next.sync = q.sync
      BY <1>2 DEF Fields
    <2>2. Becomes(r, next)
      BY <1>6
    <2> HIDE DEF next
    <2> QED
      BY <1>1, <1>2, <1>3, <2>1, <2>2 DEF Searching
  <1>7. ASSUME NEW todo, Becomes(r, [q EXCEPT !.at = "status", !.todo = todo])
        PROVE  Books'
    <2> DEFINE next == [q EXCEPT !.at = "status", !.todo = todo]
    <2>1. /\ next.at = "status" /\ next.kind = q.kind
          /\ next.candidates = q.candidates /\ next.jobs = q.jobs /\ next.sync = q.sync
      BY <1>2 DEF Fields
    <2>2. Becomes(r, next)
      BY <1>7
    <2> HIDE DEF next
    <2> QED
      BY <1>1, <1>2, <1>3, <2>1, <2>2 DEF Searching
  <1>8. ASSUME NEW todo, NEW found, Becomes(r, [q EXCEPT !.todo = todo, !.found = found])
        PROVE  Books'
    <2> DEFINE next == [q EXCEPT !.todo = todo, !.found = found]
    <2>1. /\ next.at = q.at /\ next.kind = q.kind
          /\ next.candidates = q.candidates /\ next.jobs = q.jobs /\ next.sync = q.sync
      BY <1>2 DEF Fields
    <2>2. Becomes(r, next)
      BY <1>8
    <2> HIDE DEF next
    <2> QED
      BY <1>1, <1>2, <1>3, <2>1, <2>2 DEF Searching
  <1>9. ASSUME NEW found, NEW todo, NEW left, Becomes(r, [q EXCEPT !.at = "access", !.found = found, !.todo = todo, !.left = left])
        PROVE  Books'
    <2> DEFINE next == [q EXCEPT !.at = "access", !.found = found, !.todo = todo, !.left = left]
    <2>1. /\ next.at = "access" /\ next.kind = q.kind
          /\ next.candidates = q.candidates /\ next.jobs = q.jobs /\ next.sync = q.sync
      BY <1>2 DEF Fields
    <2>2. Becomes(r, next)
      BY <1>9
    <2> HIDE DEF next
    <2> QED
      BY <1>1, <1>2, <1>3, <2>1, <2>2 DEF Searching
  <1>10. ASSUME NEW copy, Becomes(r, [q EXCEPT !.at = "reinforce", !.copy = copy])
        PROVE  Books'
    <2> DEFINE next == [q EXCEPT !.at = "reinforce", !.copy = copy]
    <2>1. /\ next.at = "reinforce" /\ next.kind = q.kind
          /\ next.candidates = q.candidates /\ next.jobs = q.jobs /\ next.sync = q.sync
      BY <1>2 DEF Fields
    <2>2. Becomes(r, next)
      BY <1>10
    <2> HIDE DEF next
    <2> QED
      BY <1>1, <1>2, <1>3, <2>1, <2>2 DEF Searching
  <1>11. ASSUME NEW todo, NEW copy, Becomes(r, [q EXCEPT !.at = "access", !.todo = todo, !.copy = copy])
        PROVE  Books'
    <2> DEFINE next == [q EXCEPT !.at = "access", !.todo = todo, !.copy = copy]
    <2>1. /\ next.at = "access" /\ next.kind = q.kind
          /\ next.candidates = q.candidates /\ next.jobs = q.jobs /\ next.sync = q.sync
      BY <1>2 DEF Fields
    <2>2. Becomes(r, next)
      BY <1>11
    <2> HIDE DEF next
    <2> QED
      BY <1>1, <1>2, <1>3, <2>1, <2>2 DEF Searching
  <1>12. ASSUME NEW stage \in {"answered"}, Becomes(r, [q EXCEPT !.at = stage])
        PROVE  Books'
    <2> DEFINE next == [q EXCEPT !.at = stage]
    <2>1. /\ next.at = stage /\ next.kind = q.kind
          /\ next.candidates = q.candidates /\ next.jobs = q.jobs /\ next.sync = q.sync
      BY <1>2 DEF Fields
    <2>2. Becomes(r, next)
      BY <1>12
    <2> HIDE DEF next
    <2> QED
      BY <1>1, <1>2, <1>3, <2>1, <2>2 DEF Searching
  <1>13. CASE Search(r) \/ Semantic(r)
    <2>1. \/ NextStage(r, "semantic") \/ NextStage(r, "graph")
          \/ \E left, rivals, found : Becomes(r, [q EXCEPT !.left = left, !.rivals = rivals, !.found = found])
      BY <1>13, Zenon DEF Search, Semantic
    <2> QED
      BY <1>4, <1>5, <2>1 DEF NextStage
  <1>14. CASE Graph(r)
    BY <1>4, <1>14 DEF Graph, NextStage
  <1>15. CASE History(r)
    <2>1. \/ \E left, old : Becomes(r, [q EXCEPT !.left = left, !.old = old])
          \/ \E todo : Becomes(r, [q EXCEPT !.at = "status", !.todo = todo])
      BY <1>15, Zenon DEF History
    <2> QED
      BY <1>6, <1>7, <2>1
  <1>16. CASE Status(r)
    <2>1. \E todo, found : Becomes(r, [q EXCEPT !.todo = todo, !.found = found])
      BY <1>16, Zenon DEF Status
    <2> QED
      BY <1>8, <2>1
  <1>17. CASE Rank(r)
    <2>1. \E found, todo, left : Becomes(r, [q EXCEPT !.at = "access", !.found = found, !.todo = todo, !.left = left])
      BY <1>17, Zenon DEF Rank
    <2> QED
      BY <1>9, <2>1
  <1>18. CASE Access(r)
    <2>1. Becomes(r, [q EXCEPT !.at = "answered"]) \/ \E copy : Becomes(r, [q EXCEPT !.at = "reinforce", !.copy = copy])
      BY <1>18 DEF Access, Moves, Becomes
    <2> QED
      BY <1>10, <1>12, <2>1
  <1>19. CASE Reinforce(r)
    <2>1. \E todo, copy : Becomes(r, [q EXCEPT !.at = "access", !.todo = todo, !.copy = copy])
      BY <1>19, Zenon DEF Reinforce
    <2> QED
      BY <1>11, <2>1
  <1> QED
    BY <1>13, <1>14, <1>15, <1>16, <1>17, <1>18, <1>19 DEF RecallStep

LEMMA FailAccounts ==
  ASSUME Books, Inv', NEW r \in Requests, Fail(r)
  PROVE  Books'
  <1> DEFINE q == req[r]
             next == [Fresh(q.scope) EXCEPT !.at = "failed", !.kind = q.kind]
  <1>1. Accounted(q, r)
    BY DEF Books
  <1>2. Becomes(r, next) /\ job' = job
    BY DEF Fail, stores
  <1>3. /\ next.at = "failed" /\ next.candidates = <<>> /\ next.kind = q.kind
        /\ next.jobs = <<>> /\ next.sync = "none"
    BY DEF Fresh
  <1> HIDE DEF next
  <1>4. Accounted(next, r)
    BY <1>1, <1>3, NothingQueued DEF Accounted, Queued, Awaits, Tells
  <1> QED
    BY <1>2, <1>4, SameBooks

LEMMA OthersAccount == Books /\ Inv' /\ Others => Books'
  <1> SUFFICES ASSUME Books, Inv', Others PROVE Books'
    OBVIOUS
  <1>1. req' = req
    BY DEF Others, Handle, SweepReads, SweepSaves, List, Purge, stores
  <1>2. CASE job' = job
    BY <1>1, <1>2, NoneAccounts DEF Books, JobsKnown, JobsStay, Own
  <1>3. ASSUME NEW j \in DOMAIN job, Handle(j)
        PROVE  Books'
    <2>1. PICK outcome \in {"ok", "pending", "failed"} : job' = [job EXCEPT ![j] = outcome]
      BY <1>3 DEF Handle
    <2>2. DOMAIN job' = DOMAIN job /\ \A i \in DOMAIN job : job'[i] = IF i = j THEN outcome ELSE job[i]
      BY <2>1
    <2>3. JobsKnown'
      BY <2>2 DEF Books, JobsKnown
    <2>4. job[j] = "running"
      BY <1>3 DEF Handle
    <2>5. \A s \in Requests : JobsStay(s)
      BY <2>2, <2>4 DEF JobsStay, Own
    <2> QED
      BY <1>1, <2>3, <2>5, NoneAccounts
  <1>4. job' = job \/ \E j \in DOMAIN job : Handle(j)
    BY DEF Others, SweepReads, SweepSaves, List, Purge, stores
  <1> QED
    BY <1>2, <1>3, <1>4

-----------------------------------------------------------------------------
LEMMA Preserved == Books /\ [Next]_vars => Inv'
  <1> SUFFICES ASSUME Books, [Next]_vars
               PROVE  Inv'
    OBVIOUS
  <1>1. Inv /\ \A r \in Requests : Queued(req[r])
    BY DEF Books, Accounted
  <1>2. CASE UNCHANGED vars
    BY <1>1, <1>2 DEF vars, stores, Inv, StoresTyped, Sound, RequestTyped, Once, Belongs, Remembered, UpToDate,
                      WasSeen, IsFound, Wanted, InDomain, Current, Matches
  <1>3. ASSUME NEW r \in Requests, Step(r), Remember
        PROVE  Inv'
    BY <1>1, <1>3, Commits, Reports, Searches, SearchesByMeaning, LooksBack, Statuses, Ranks, Accesses, Fails DEF Step
  <1>4. ASSUME NEW r \in Requests, Remember,
               (\E turn \in Turns : Observe(r, turn)) \/ (\E query \in Queries : Recall(r, query))
        PROVE  Inv'
    BY <1>1, <1>4, Observes, Begins
  <1>5. CASE Others /\ Remember
    BY <1>1, <1>5, OthersAct
  <1> QED
    BY <1>2, <1>3, <1>4, <1>5 DEF Next, Acts, Others

LEMMA BooksPreserved == Books /\ [Next]_vars => Books'
  <1> SUFFICES ASSUME Books, [Next]_vars
               PROVE  Books'
    OBVIOUS
  <1>1. Inv'
    BY Preserved
  <1>2. CASE UNCHANGED vars
    BY <1>1, <1>2, NoneAccounts DEF vars, stores, Books, JobsKnown, JobsStay, Own
  <1>3. ASSUME NEW r \in Requests, Step(r)
        PROVE  Books'
    BY <1>1, <1>3, CommitAccounts, DeferAccounts, LaunchAccounts, AwaitAccounts, EmbedAccounts,
       CheckpointAccounts, SearchAccounts, FailAccounts DEF Step, RecallStep
  <1>4. ASSUME NEW r \in Requests, (\E turn \in Turns : Observe(r, turn)) \/ (\E query \in Queries : Recall(r, query))
        PROVE  Books'
    BY <1>1, <1>4, ObserveAccounts, BeginAccounts
  <1>5. CASE Others
    BY <1>1, <1>5, OthersAccount
  <1> QED
    BY <1>2, <1>3, <1>4, <1>5 DEF Next, Acts, Others

LEMMA BooksInOrder == Spec => []Books
  BY BooksStart, BooksPreserved, PTL DEF Spec

-----------------------------------------------------------------------------
\* No memory is in an answer of recall() twice, as current and as superseded.
THEOREM FoundOnce == Spec => []NothingTwice
  <1>1. Books => NothingTwice
    BY DEF Books, Inv, Sound, Once, NothingTwice
  <1> QED
    BY <1>1, BooksInOrder, PTL

\* What an answer gives as current was so at some moment while it was put together, and
\* belongs there; also when the saves of old copies show again what was archived.
THEOREM AnswersStayCurrent == Spec => []AnswersAreCurrent
  <1>1. Books => AnswersAreCurrent
    BY DEF Books, Inv, Sound, Belongs, Remembered, WasSeen, AnswersAreCurrent, Answered
  <1> QED
    BY <1>1, BooksInOrder, PTL

\* What was current with the same text throughout, matches and is of a type and a domain
\* asked for is in the answer, if there is room for all that competed.
THEOREM AnswersStayComplete == Spec => []AnswersAreComplete
  <1>1. Books => AnswersAreComplete
    BY DEF Books, Inv, Sound, Remembered, IsFound, AnswersAreComplete, Answered
  <1> QED
    BY <1>1, BooksInOrder, PTL

\* The report of observe() says "ok" only when all the jobs it recorded are done, and
\* nothing, or "skipped", just when there are none; however late handlers end.
THEOREM ReportsAreTrue == Spec => []SyncReportIsTrue
  <1>1. ASSUME Books PROVE SyncReportIsTrue
    <2> SUFFICES ASSUME NEW r \in Requests, Answered(r, "observe")
                 PROVE  /\ req[r].sync = "ok" => Own(r) # {} /\ \A j \in Own(r) : job[j] = "ok"
                        /\ req[r].sync \in {"none", "skipped"} <=> Own(r) = {}
      BY DEF SyncReportIsTrue, Own
    <2>1. Accounted(req[r], r) /\ req[r].at = "answered"
      BY <1>1 DEF Books, Answered
    <2>2. Range(req[r].jobs) = {}
      BY <2>1, NothingQueued DEF Accounted, Awaits
    <2> QED
      BY <2>1, <2>2 DEF Accounted, Tells
  <1> QED
    BY <1>1, BooksInOrder, PTL

-----------------------------------------------------------------------------
(* The audit: where a text that the gate refuses can come from. *)

SparedText(m, text) ==
    \/ m \in Old /\ text = {m}
    \/ Cardinality(text) > 1
    \/ \A c \in text : ~AuditRejects(c)

Texts == \A m \in Memories : SparedText(m, content[m])

\* A text gains a statement the gate admits, or gives way to it.
LEMMA AddsToText ==
  ASSUME NEW m \in Memories, NEW old, old \subseteq Memories, SparedText(m, old),
         NEW c \in Memories, ~AuditRejects(c), NEW new, new = {c} \/ new = old \cup {c}
  PROVE  SparedText(m, new)
  <1>1. CASE \A x \in new : ~AuditRejects(x)
    BY <1>1 DEF SparedText
  <1>2. CASE new = old \cup {c} /\ ~(\A x \in new : ~AuditRejects(x))
    <2>1. IsFiniteSet(old) /\ Cardinality(old) \in Nat
      BY FS_Subset, FS_CardinalityType, PipelineAssumption
    <2>2. Cardinality(new) = IF c \in old THEN Cardinality(old) ELSE Cardinality(old) + 1
      BY <1>2, <2>1, FS_AddElement
    <2>3. CASE Cardinality(old) > 1
      BY <2>1, <2>2, <2>3 DEF SparedText
    <2>4. CASE m \in Old /\ old = {m}
      <3>1. CASE c = m
        BY <1>2, <2>4, <3>1 DEF SparedText
      <3>2. CASE c # m
        <4>1. Cardinality(old) = 1
          BY <2>4, FS_Singleton
        <4> QED
          BY <2>2, <2>4, <3>2, <4>1 DEF SparedText
      <3> QED
        BY <3>1, <3>2
    <2> QED
      BY <1>2, <2>3, <2>4 DEF SparedText
  <1> QED
    BY <1>1, <1>2

\* The audit finds nothing that was admitted: what it finds was there before, or joined.
THEOREM AuditSpares == Spec => []AuditSparesAdmitted
  <1>1. Init => Texts /\ AuditSparesAdmitted
    BY DEF Init, Texts, SparedText, AuditSparesAdmitted
  <1>2. ASSUME Books, Texts, AuditSparesAdmitted, [Next]_vars
        PROVE  Texts' /\ AuditSparesAdmitted'
    <2>1. ASSUME NEW r \in Requests, Commit(r), content' # content
          PROVE  Texts' /\ listed' = listed
      <3> DEFINE q == req[r]
                 c == Head(q.candidates)
      <3>1. q.scope \in Scopes /\ StoresTyped /\ Queued(q) /\ q.candidates # <<>>
        BY <1>2, <2>1 DEF Books, Inv, Sound, RequestTyped, Accounted, Queued, Commit
      <3>2. PICK new, all : Writes(r, new, all)
        BY <2>1, CommitDecides DEF stores
      <3>3. c \in Memories /\ ~AuditRejects(c)
        BY <3>1, FirstAndRest DEF Queued
      <3> HIDE DEF c
      <3>4. PICK seen \in Evidence(q.scope) :
              new \in Creations(c) \cup Supersessions(c, seen) \cup Revisions(c, seen) \cup Mergers(c, seen)
        BY <3>2 DEF Writes, c
      <3>5. \A m \in Memories : \/ new.content[m] = content[m]
                                \/ new.content[m] = {c}
                                \/ new.content[m] = content[m] \cup {c}
        BY <3>1, <3>3, <3>4, Outcomes
      <3>6. content' = new.content /\ listed' = listed
        BY <2>1, <3>2 DEF Writes, Commit, tools
      <3>7. ASSUME NEW m \in Memories PROVE SparedText(m, new.content[m])
        BY <1>2, <3>1, <3>3, <3>5, AddsToText DEF Texts, StoresTyped
      <3> QED
        BY <3>6, <3>7 DEF Texts, SparedText, AuditRejects
    <2>2. CASE List
      <3>1. UNCHANGED content
        BY <2>2 DEF List, stores
      <3>2. ASSUME NEW l \in listed'
            PROVE  Cardinality(l.content) > 1 \/ (l.memory \in Old /\ l.content = {l.memory})
        <4>1. PICK m \in Memories :
                /\ l = [memory |-> m, content |-> content[m]]
                /\ Cardinality(content[m]) > 1 \/ \E c \in content[m] : AuditRejects(c)
          BY <2>2, <3>2 DEF List
        <4> QED
          BY <1>2, <4>1 DEF Texts, SparedText
      <3> QED
        BY <1>2, <3>1, <3>2 DEF Texts, SparedText, AuditSparesAdmitted, AuditRejects
    <2>3. CASE Purge
      BY <1>2, <2>3 DEF Purge, Texts, SparedText, AuditSparesAdmitted, AuditRejects
    <2>4. CASE UNCHANGED <<content, listed>>
      BY <1>2, <2>4 DEF Texts, SparedText, AuditSparesAdmitted, AuditRejects
    <2>5. ASSUME NEW r \in Requests, Step(r), ~(Commit(r) /\ content' # content)
          PROVE  UNCHANGED <<content, listed>>
      BY <2>5 DEF Step, Commit, Defer, Launch, Await, Embed, Checkpoint, Search, Semantic, Graph, History,
                  Status, Rank, Access, Reinforce, Fail, stores, tools
    <2>6. CASE \/ \E r \in Requests : (\E turn \in Turns : Observe(r, turn)) \/ (\E query \in Queries : Recall(r, query))
               \/ \E j \in DOMAIN job : Handle(j)
               \/ \E m \in Memories : SweepReads(m) \/ SweepSaves(m)
      BY <2>4, <2>6 DEF Observe, Recall, Handle, SweepReads, SweepSaves, stores, tools
    <2>7. CASE UNCHANGED vars
      BY <2>4, <2>7 DEF vars, stores, tools
    <2>8. ASSUME NEW r \in Requests, Commit(r), content' # content
          PROVE  AuditSparesAdmitted'
      BY <1>2, <2>1, <2>8 DEF AuditSparesAdmitted
    <2> QED
      BY <1>2, <2>1, <2>2, <2>3, <2>4, <2>5, <2>6, <2>7, <2>8 DEF Next, Acts
  <1>3. Books /\ Texts /\ AuditSparesAdmitted /\ [Next]_vars => Texts' /\ AuditSparesAdmitted'
    BY <1>2
  <1> QED
    BY <1>1, <1>3, BooksInOrder, PTL DEF Spec

=============================================================================
