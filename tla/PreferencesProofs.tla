------------------------- MODULE PreferencesProofs -------------------------
(***************************************************************************)
(* Theorems of Preferences, for any requests, values, texts and threshold. *)
(*                                                                         *)
(* A request may save its copy of a row at any later time, so the          *)
(* invariant says what every copy still has in common with its row: value  *)
(* and version never change, and its count has been observed (Backed).     *)
(***************************************************************************)
EXTENDS Preferences, FiniteSetTheorems, TLAPS

\* What a request holds, against a table and the observations made.
BackedBy(q, rows, seen) ==
    /\ q.phase \in {"saving", "linking"} => q.todo # <<>>
    /\ q.phase = "linking" => q.copy # {}
    /\ \A old \in q.copy :
          /\ q.of \in 1..Len(rows)
          /\ old.heir = 0
          /\ old.value = rows[q.of].value
          /\ old.version = rows[q.of].version
          /\ old.count <= seen[old.value]
          /\ q.phase = "linking" =>
                /\ q.heir \in (q.of + 1)..Len(rows)
                /\ rows[q.heir].value # old.value
                /\ rows[q.heir].version = old.version + 1

Backed == \A r \in Requests : BackedBy(request[r], preferences, said)

\* A superseded row points to a later row, of another value and the next version.
Chains ==
    \A i \in 1..Len(preferences) : preferences[i].heir # 0 =>
        /\ preferences[i].heir \in (i + 1)..Len(preferences)
        /\ preferences[preferences[i].heir].value # preferences[i].value
        /\ preferences[preferences[i].heir].version = preferences[i].version + 1

Inv == TypeOK /\ Backed /\ Chains /\ EvidenceIsReal

\* The table and the observations only grow; values and versions of rows stay.
Grown(rows, seen, rows2, seen2) ==
    /\ Len(rows) <= Len(rows2)
    /\ \A i \in 1..Len(rows) : rows2[i].value = rows[i].value /\ rows2[i].version = rows[i].version
    /\ \A v \in Values : seen[v] <= seen2[v]

-----------------------------------------------------------------------------
\* What a request holds stays true while others write.
LEMMA StaysBacked ==
  ASSUME NEW q \in Request, NEW rows \in Seq(Row), NEW rows2 \in Seq(Row),
         NEW seen \in [Values -> Nat], NEW seen2 \in [Values -> Nat],
         BackedBy(q, rows, seen), Grown(rows, seen, rows2, seen2)
  PROVE  BackedBy(q, rows2, seen2)
  <1>1. q.of \in Nat /\ q.heir \in Nat /\ q.copy \subseteq Row
    BY DEF Request
  <1>2. Len(rows) \in Nat /\ Len(rows2) \in Nat
    OBVIOUS
  <1>3. ASSUME NEW old \in q.copy
        PROVE  /\ q.of \in 1..Len(rows2)
               /\ old.heir = 0
               /\ old.value = rows2[q.of].value
               /\ old.version = rows2[q.of].version
               /\ old.count <= seen2[old.value]
    <2>1. q.of \in 1..Len(rows) /\ old.heir = 0 /\ old.value = rows[q.of].value
          /\ old.version = rows[q.of].version /\ old.count <= seen[old.value]
      BY DEF BackedBy
    <2>2. old.value \in Values /\ old.count \in Nat
      BY <1>1 DEF Row
    <2>3. seen[old.value] \in Nat /\ seen2[old.value] \in Nat /\ seen[old.value] <= seen2[old.value]
      BY <2>2 DEF Grown
    <2>4. old.count <= seen2[old.value]
      BY <2>1, <2>2, <2>3
    <2> QED
      BY <1>2, <2>1, <2>4 DEF Grown
  <1>4. ASSUME NEW old \in q.copy, q.phase = "linking"
        PROVE  /\ q.heir \in (q.of + 1)..Len(rows2)
               /\ rows2[q.heir].value # old.value
               /\ rows2[q.heir].version = old.version + 1
    <2>1. q.of \in 1..Len(rows) /\ q.heir \in (q.of + 1)..Len(rows)
          /\ rows[q.heir].value # old.value /\ rows[q.heir].version = old.version + 1
      BY <1>4 DEF BackedBy
    <2> QED
      BY <1>1, <1>2, <2>1 DEF Grown
  <1> QED
    BY <1>3, <1>4 DEF BackedBy

LEMMA SameGrown ==
  ASSUME NEW rows \in Seq(Row), NEW seen \in [Values -> Nat]
  PROVE  Grown(rows, seen, rows, seen)
  BY DEF Grown

\* A step of one request that leaves the rows alone.
LEMMA RequestStep ==
  ASSUME Inv, NEW r \in Requests, NEW q \in Request,
         request' = [request EXCEPT ![r] = q],
         BackedBy(q, preferences, said),
         UNCHANGED <<preferences, said>>, evidence' \subseteq Requests, disturbed' \in BOOLEAN
  PROVE  Inv'
  <1>1. TypeOK'
    BY DEF Inv, TypeOK
  <1>2. Backed'
    <2> SUFFICES ASSUME NEW o \in Requests PROVE BackedBy(request'[o], preferences, said)
      BY DEF Backed
    <2>1. CASE o = r
      BY <2>1 DEF Inv, TypeOK
    <2>2. CASE o # r
      BY <2>2 DEF Inv, TypeOK, Backed
    <2> QED
      BY <2>1, <2>2
  <1>3. Chains' /\ EvidenceIsReal'
    BY DEF Inv, Chains, EvidenceIsReal
  <1> QED
    BY <1>1, <1>2, <1>3 DEF Inv

\* A step of one request that writes rows.
LEMMA WriteStep ==
  ASSUME Inv, NEW r \in Requests, NEW q \in Request,
         request' = [request EXCEPT ![r] = q],
         preferences' \in Seq(Row), said' \in [Values -> Nat],
         Grown(preferences, said, preferences', said'),
         BackedBy(q, preferences', said'),
         Chains', EvidenceIsReal',
         UNCHANGED evidence, disturbed' \in BOOLEAN
  PROVE  Inv'
  <1>1. TypeOK'
    BY DEF Inv, TypeOK
  <1>2. Backed'
    <2> SUFFICES ASSUME NEW o \in Requests PROVE BackedBy(request'[o], preferences', said')
      BY DEF Backed
    <2>1. CASE o = r
      BY <2>1 DEF Inv, TypeOK
    <2>2. CASE o # r
      <3>1. request'[o] = request[o] /\ request[o] \in Request
        BY <2>2 DEF Inv, TypeOK
      <3>2. BackedBy(request[o], preferences, said)
        BY DEF Inv, Backed
      <3> QED
        BY <3>1, <3>2, StaysBacked DEF Inv, TypeOK
    <2> QED
      BY <2>1, <2>2
  <1> QED
    BY <1>1, <1>2 DEF Inv

\* A request that has observed a value is typed, and holds nothing.
LEMMA ObservedHoldsNothing ==
  ASSUME NEW q \in Request, q.todo # <<>>, NEW rows, NEW seen
  PROVE  Observed(q) \in Request /\ BackedBy(Observed(q), rows, seen)
  <1>1. Tail(q.todo) \in Seq(Values)
    BY DEF Request
  <1>2. Observed(q) \in Request
    BY <1>1 DEF Observed, Request
  <1>3. Observed(q).phase \in {"ended", "observing"} /\ Observed(q).copy = {}
    BY DEF Observed, Request
  <1> QED
    BY <1>2, <1>3 DEF BackedBy

-----------------------------------------------------------------------------
LEMMA InitInv == Init => Inv
  <1> SUFFICES ASSUME Init PROVE Inv
    OBVIOUS
  <1>1. Fresh \in Request
    BY DEF Fresh, Request
  <1>2. TypeOK
    <2>1. preferences \in Seq(Row)
      BY DEF Init
    <2>2. request \in [Requests -> Request]
      BY <1>1 DEF Init
    <2>3. said \in [Values -> Nat] /\ evidence \subseteq Requests /\ disturbed \in BOOLEAN
      BY DEF Init
    <2> QED
      BY <2>1, <2>2, <2>3 DEF TypeOK
  <1>3. Backed
    BY DEF Init, Backed, BackedBy, Fresh
  <1>4. Chains /\ EvidenceIsReal
    BY DEF Init, Chains, EvidenceIsReal
  <1> QED
    BY <1>2, <1>3, <1>4 DEF Inv

\* The steps that write no row: the request goes on, with a copy or without.
LEMMA BeginInv == ASSUME Inv, NEW r \in Requests, Begin(r) PROVE Inv'
  <1> USE DEF Inv, TypeOK
  <1>1. PICK signals \in Signals :
          request' = [request EXCEPT ![r].phase = "observing", ![r].todo = signals]
    BY DEF Begin
  <1> DEFINE q == [request[r] EXCEPT !.phase = "observing", !.todo = signals]
  <1>2. q \in Request
    BY PreferencesAssumption DEF Request
  <1>3. BackedBy(q, preferences, said)
    BY DEF Backed, BackedBy, Begin, Request
  <1>4. request' = [request EXCEPT ![r] = q]
    BY <1>1
  <1> HIDE DEF q
  <1> QED
    BY <1>2, <1>3, <1>4, RequestStep DEF Begin

LEMMA ReadInv == ASSUME Inv, NEW r \in Requests, Read(r) PROVE Inv'
  <1> USE DEF Inv, TypeOK
  <1>1. CASE request' = [request EXCEPT ![r].phase = "saving", ![r].of = 0, ![r].copy = {}]
    <2> DEFINE q == [request[r] EXCEPT !.phase = "saving", !.of = 0, !.copy = {}]
    <2>1. q \in Request
      BY DEF Request
    <2>2. BackedBy(q, preferences, said)
      BY DEF BackedBy, Read, Request
    <2>3. request' = [request EXCEPT ![r] = q]
      BY <1>1
    <2> HIDE DEF q
    <2> QED
      BY <2>1, <2>2, <2>3, RequestStep DEF Read
  <1>2. ASSUME NEW i \in Latest,
               request' = [request EXCEPT ![r].phase = "saving", ![r].of = i, ![r].copy = {preferences[i]}]
        PROVE  Inv'
    <2> DEFINE q == [request[r] EXCEPT !.phase = "saving", !.of = i, !.copy = {preferences[i]}]
    <2>1. i \in 1..Len(preferences) /\ preferences[i] \in Row /\ preferences[i].heir = 0
      BY DEF Latest, Active
    <2>2. q \in Request
      <3>1. i \in Nat /\ {preferences[i]} \in SUBSET Row /\ request[r] \in Request
        BY <2>1
      <3> QED
        BY <3>1, Zenon DEF Request
    <2>3. preferences[i].count <= said[preferences[i].value]
      BY <2>1 DEF EvidenceIsReal
    <2>4. q.phase = "saving" /\ q.todo # <<>> /\ q.of = i /\ q.copy = {preferences[i]}
      BY DEF Read, Request
    <2>5. BackedBy(q, preferences, said)
      BY <2>1, <2>3, <2>4 DEF BackedBy
    <2>6. request' = [request EXCEPT ![r] = q]
      BY <1>2
    <2> HIDE DEF q
    <2> QED
      BY <2>2, <2>5, <2>6, RequestStep DEF Read
  <1> QED
    BY <1>1, <1>2 DEF Read

LEMMA BufferInv ==
  ASSUME Inv, NEW r \in Requests, Buffer(r) \/ Count(r) \/ Ask(r) \/ Clear(r) \/ Fail(r)
  PROVE  Inv'
  <1> USE DEF Inv, TypeOK
  <1>1. ASSUME NEW q \in Request, request' = [request EXCEPT ![r] = q],
               q.phase \notin {"saving", "linking"},
               q.copy = {} \/ (q.copy = request[r].copy /\ q.of = request[r].of)
        PROVE  Inv'
    <2>1. BackedBy(q, preferences, said)
      BY <1>1 DEF Backed, BackedBy
    <2>2. evidence' \subseteq Requests /\ disturbed' \in BOOLEAN
      BY DEF Buffer, Count, Ask, Clear, Fail
    <2>3. UNCHANGED <<preferences, said>>
      BY DEF Buffer, Count, Ask, Clear, Fail
    <2> QED
      BY <1>1, <2>1, <2>2, <2>3, RequestStep
  <1>2. CASE Buffer(r)
    <2> DEFINE q == [request[r] EXCEPT !.phase = "counting"]
    <2>1. q \in Request /\ q.phase = "counting" /\ q.copy = request[r].copy /\ q.of = request[r].of
      BY DEF Request
    <2> QED
      BY <1>1, <1>2, <2>1 DEF Buffer
  <1>3. CASE Count(r)
    <2> DEFINE q == [request[r] EXCEPT !.phase = IF Cardinality(evidence) < Threshold THEN "ended" ELSE "asking"]
    <2>1. q \in Request /\ q.phase \in {"ended", "asking"} /\ q.copy = request[r].copy /\ q.of = request[r].of
      BY DEF Request
    <2> QED
      BY <1>1, <1>3, <2>1 DEF Count
  <1>4. CASE Ask(r)
    <2>1. PICK answer \in {<<>>} \cup {<<v>> : v \in Values} :
            request' = [request EXCEPT ![r].phase = "clearing", ![r].todo = answer]
      BY <1>4 DEF Ask
    <2> DEFINE q == [request[r] EXCEPT !.phase = "clearing", !.todo = answer]
    <2>2. answer \in Seq(Values)
      <3>1. CASE answer = <<>>
        BY <3>1
      <3>2. ASSUME NEW v \in Values, answer = <<v>> PROVE answer \in Seq(Values)
        BY <3>2
      <3> QED
        BY <3>1, <3>2
    <2>3. q \in Request /\ q.phase = "clearing" /\ q.copy = request[r].copy /\ q.of = request[r].of
      BY <2>2 DEF Request
    <2>4. request' = [request EXCEPT ![r] = q]
      BY <2>1
    <2> HIDE DEF q
    <2> QED
      BY <1>1, <2>3, <2>4
  <1>5. CASE Clear(r)
    <2> DEFINE q == [request[r] EXCEPT !.phase = IF request[r].todo = <<>> THEN "ended" ELSE "observing",
                                       !.learned = TRUE]
    <2>1. q \in Request /\ q.phase \in {"ended", "observing"} /\ q.copy = request[r].copy /\ q.of = request[r].of
      BY DEF Request
    <2> QED
      BY <1>1, <1>5, <2>1 DEF Clear
  <1>6. CASE Fail(r)
    <2> DEFINE q == [Fresh EXCEPT !.phase = "failed"]
    <2>1. q.phase \notin {"saving", "linking"} /\ q.copy = {}
      BY DEF Fresh
    <2>2. q \in Request
      <3>1. <<>> \in Seq(Values) /\ {} \in SUBSET Row
        OBVIOUS
      <3> QED
        BY <3>1 DEF Request, Fresh
    <2>3. request' = [request EXCEPT ![r] = q]
      BY <1>6 DEF Fail
    <2> HIDE DEF q, Inv, TypeOK
    <2> QED
      BY <1>1, <2>1, <2>2, <2>3
  <1> QED
    BY <1>2, <1>3, <1>4, <1>5, <1>6

-----------------------------------------------------------------------------
\* A new row is active, and at the end; old rows are as they were.
LEMMA Appended ==
  ASSUME Inv, NEW v \in Values, NEW n \in Nat \ {0},
         preferences' = Append(preferences, NewRow(v, n)),
         said' = [said EXCEPT ![v] = @ + 1]
  PROVE  /\ preferences' \in Seq(Row) /\ said' \in [Values -> Nat]
         /\ Len(preferences') = Len(preferences) + 1
         /\ preferences'[Len(preferences) + 1] = NewRow(v, n)
         /\ \A i \in 1..Len(preferences) : preferences'[i] = preferences[i]
         /\ Grown(preferences, said, preferences', said')
         /\ Chains' /\ EvidenceIsReal'
  <1> USE DEF Inv, TypeOK
  <1>1. NewRow(v, n) \in Row
    BY DEF NewRow, Row
  <1>2. /\ preferences' \in Seq(Row)
        /\ Len(preferences') = Len(preferences) + 1
        /\ preferences'[Len(preferences) + 1] = NewRow(v, n)
        /\ \A i \in 1..Len(preferences) : preferences'[i] = preferences[i]
    BY <1>1
  <1>3. said' \in [Values -> Nat] /\ \A w \in Values : said[w] <= said'[w]
    OBVIOUS
  <1>4. Len(preferences) \in Nat
    OBVIOUS
  <1>5. Grown(preferences, said, preferences', said')
    BY <1>2, <1>3, <1>4 DEF Grown
  <1>6. Chains'
    <2> SUFFICES ASSUME NEW i \in 1..Len(preferences'), preferences'[i].heir # 0
                 PROVE  /\ preferences'[i].heir \in (i + 1)..Len(preferences')
                        /\ preferences'[preferences'[i].heir].value # preferences'[i].value
                        /\ preferences'[preferences'[i].heir].version = preferences'[i].version + 1
      BY DEF Chains
    <2>1. i \in 1..Len(preferences)
      BY <1>2, <1>4 DEF NewRow
    <2>2. /\ preferences[i].heir \in (i + 1)..Len(preferences)
          /\ preferences[preferences[i].heir].value # preferences[i].value
          /\ preferences[preferences[i].heir].version = preferences[i].version + 1
      BY <1>2, <2>1 DEF Chains
    <2> QED
      BY <1>2, <1>4, <2>1, <2>2
  <1>7. EvidenceIsReal'
    <2> SUFFICES ASSUME NEW i \in 1..Len(preferences')
                 PROVE  preferences'[i].count <= said'[preferences'[i].value]
      BY <1>2 DEF EvidenceIsReal
    <2>1. CASE i \in 1..Len(preferences)
      <3>1. preferences[i] \in Row /\ preferences[i].count <= said[preferences[i].value]
        BY <2>1 DEF EvidenceIsReal
      <3>2. preferences[i].count \in Nat /\ preferences[i].value \in Values
        BY <3>1 DEF Row
      <3>3. said[preferences[i].value] \in Nat /\ said'[preferences[i].value] \in Nat
            /\ said[preferences[i].value] <= said'[preferences[i].value]
        BY <1>3, <3>2
      <3> QED
        BY <1>2, <2>1, <3>1, <3>2, <3>3
    <2>2. CASE i = Len(preferences) + 1
      <3>1. preferences'[i].count = 1 /\ preferences'[i].value = v
        BY <1>2, <2>2 DEF NewRow
      <3>2. said'[v] = said[v] + 1 /\ said[v] \in Nat
        OBVIOUS
      <3> QED
        BY <3>1, <3>2
    <2> QED
      BY <1>2, <1>4, <2>1, <2>2
  <1> QED
    BY <1>2, <1>3, <1>5, <1>6, <1>7

LEMMA CreateInv == ASSUME Inv, NEW r \in Requests, Create(r) PROVE Inv'
  <1> USE DEF Inv, TypeOK
  <1> DEFINE v == Head(request[r].todo)
  <1>1. request[r] \in Request /\ request[r].todo # <<>>
    BY DEF Create, Backed, BackedBy
  <1>2. v \in Values
    BY <1>1 DEF Request
  <1>3. preferences' = Append(preferences, NewRow(v, 1)) /\ said' = [said EXCEPT ![v] = @ + 1]
    BY DEF Create
  <1>4. disturbed' \in BOOLEAN
    BY DEF Create
  <1> HIDE DEF v
  <1>5. /\ preferences' \in Seq(Row) /\ said' \in [Values -> Nat]
        /\ Grown(preferences, said, preferences', said')
        /\ Chains' /\ EvidenceIsReal'
    <2>1. 1 \in Nat \ {0}
      OBVIOUS
    <2> HIDE DEF Inv, TypeOK
    <2> QED
      BY <1>2, <1>3, <2>1, Appended
  <1>6. Observed(request[r]) \in Request /\ BackedBy(Observed(request[r]), preferences', said')
    BY <1>1, ObservedHoldsNothing
  <1> QED
    BY <1>4, <1>5, <1>6, WriteStep DEF Create

LEMMA SucceedInv == ASSUME Inv, NEW r \in Requests, Succeed(r) PROVE Inv'
  <1> USE DEF Inv, TypeOK
  <1> DEFINE v == Head(request[r].todo)
             top == Len(preferences) + 1
             q == [request[r] EXCEPT !.phase = "linking", !.heir = top]
  <1>1. request[r] \in Request /\ request[r].todo # <<>> /\ request[r].phase = "saving"
        /\ BackedBy(request[r], preferences, said)
    BY DEF Succeed, Backed, BackedBy
  <1>2. v \in Values
    BY <1>1 DEF Request
  <1>3. PICK old \in request[r].copy :
          /\ old.value # v
          /\ preferences' = Append(preferences, NewRow(v, old.version + 1))
          /\ said' = [said EXCEPT ![v] = @ + 1]
    BY DEF Succeed
  <1>4. old \in Row /\ old.version + 1 \in Nat \ {0}
    BY <1>1, <1>3 DEF Request, Row
  <1>5. /\ preferences' \in Seq(Row) /\ said' \in [Values -> Nat]
        /\ Len(preferences') = top
        /\ preferences'[top] = NewRow(v, old.version + 1)
        /\ Grown(preferences, said, preferences', said')
        /\ Chains' /\ EvidenceIsReal'
    <2> HIDE DEF v, Inv, TypeOK
    <2> QED
      BY <1>2, <1>3, <1>4, Appended
  <1>6. q \in Request
    <2>1. top \in Nat
      OBVIOUS
    <2> HIDE DEF top
    <2> QED
      BY <1>1, <2>1 DEF Request
  <1>7. q.phase = "linking" /\ q.todo = request[r].todo /\ q.copy = request[r].copy
        /\ q.of = request[r].of /\ q.heir = top
    BY <1>1 DEF Request
  <1>8. BackedBy(request[r], preferences', said')
    BY <1>1, <1>5, StaysBacked
  <1>9. BackedBy(q, preferences', said')
    <2> HIDE DEF q
    <2>1. ASSUME NEW any \in q.copy
          PROVE  /\ q.of \in 1..Len(preferences') /\ any.heir = 0
                 /\ any.value = preferences'[q.of].value
                 /\ any.version = preferences'[q.of].version
                 /\ any.count <= said'[any.value]
                 /\ q.heir \in (q.of + 1)..Len(preferences')
                 /\ preferences'[q.heir].value # any.value
                 /\ preferences'[q.heir].version = any.version + 1
      <3>1. /\ request[r].of \in 1..Len(preferences)
            /\ any.value = preferences[request[r].of].value /\ old.value = preferences[request[r].of].value
            /\ any.version = preferences[request[r].of].version /\ old.version = preferences[request[r].of].version
        BY <1>1, <1>3, <1>7, <2>1 DEF BackedBy
      <3>2. q.heir \in (q.of + 1)..Len(preferences')
        BY <1>5, <1>7, <3>1
      <3>3. preferences'[q.heir].value = v /\ preferences'[q.heir].version = old.version + 1
        BY <1>5, <1>7 DEF NewRow
      <3> QED
        BY <1>3, <1>7, <1>8, <2>1, <3>1, <3>2, <3>3 DEF BackedBy
    <2> QED
      BY <1>1, <1>3, <1>7, <2>1 DEF BackedBy
  <1>10. request' = [request EXCEPT ![r] = q] /\ disturbed' \in BOOLEAN /\ UNCHANGED evidence
    BY DEF Succeed
  <1> HIDE DEF q, top, v
  <1> QED
    BY <1>5, <1>6, <1>9, <1>10, WriteStep

-----------------------------------------------------------------------------
\* A copy saved over its row: as old as the row in value and version.
LEMMA Overwritten ==
  ASSUME Inv, NEW i \in 1..Len(preferences), NEW new \in Row,
         new.value = preferences[i].value, new.version = preferences[i].version,
         new.heir # 0 =>
            /\ new.heir \in (i + 1)..Len(preferences)
            /\ preferences[new.heir].value # new.value
            /\ preferences[new.heir].version = new.version + 1,
         preferences' = [preferences EXCEPT ![i] = new],
         said' \in [Values -> Nat], \A v \in Values : said[v] <= said'[v],
         new.count <= said'[new.value]
  PROVE  /\ preferences' \in Seq(Row)
         /\ Grown(preferences, said, preferences', said')
         /\ Chains' /\ EvidenceIsReal'
  <1> USE DEF Inv, TypeOK
  <1>1. /\ preferences' \in Seq(Row) /\ Len(preferences') = Len(preferences)
        /\ preferences'[i] = new
        /\ \A j \in 1..Len(preferences) : j # i => preferences'[j] = preferences[j]
    OBVIOUS
  <1>2. Len(preferences) \in Nat
    OBVIOUS
  <1>3. \A j \in 1..Len(preferences) : preferences'[j].value = preferences[j].value
                                       /\ preferences'[j].version = preferences[j].version
    BY <1>1
  <1>4. Grown(preferences, said, preferences', said')
    BY <1>1, <1>2, <1>3 DEF Grown
  <1>5. Chains'
    <2> SUFFICES ASSUME NEW j \in 1..Len(preferences), preferences'[j].heir # 0
                 PROVE  /\ preferences'[j].heir \in (j + 1)..Len(preferences)
                        /\ preferences'[preferences'[j].heir].value # preferences'[j].value
                        /\ preferences'[preferences'[j].heir].version = preferences'[j].version + 1
      BY <1>1 DEF Chains
    <2>1. CASE j = i
      <3>1. new.heir \in 1..Len(preferences)
        BY <1>1, <1>2, <2>1
      <3> QED
        BY <1>1, <1>3, <2>1, <3>1
    <2>2. CASE j # i
      <3>1. /\ preferences[j].heir \in (j + 1)..Len(preferences)
            /\ preferences[preferences[j].heir].value # preferences[j].value
            /\ preferences[preferences[j].heir].version = preferences[j].version + 1
        BY <1>1, <2>2 DEF Chains
      <3>2. preferences[j].heir \in 1..Len(preferences)
        BY <1>2, <3>1
      <3> QED
        BY <1>1, <1>3, <2>2, <3>1, <3>2
    <2> QED
      BY <2>1, <2>2
  <1>6. EvidenceIsReal'
    <2> SUFFICES ASSUME NEW j \in 1..Len(preferences)
                 PROVE  preferences'[j].count <= said'[preferences'[j].value]
      BY <1>1 DEF EvidenceIsReal
    <2>1. CASE j = i
      BY <1>1, <2>1
    <2>2. CASE j # i
      <3>1. preferences[j] \in Row /\ preferences[j].count <= said[preferences[j].value]
        BY DEF EvidenceIsReal
      <3>2. preferences[j].count \in Nat /\ preferences[j].value \in Values
        BY <3>1 DEF Row
      <3>3. said[preferences[j].value] \in Nat /\ said'[preferences[j].value] \in Nat
            /\ said[preferences[j].value] <= said'[preferences[j].value]
        BY <3>2
      <3> QED
        BY <1>1, <2>2, <3>1, <3>2, <3>3
    <2> QED
      BY <2>1, <2>2
  <1> QED
    BY <1>1, <1>4, <1>5, <1>6

LEMMA ReinforceInv == ASSUME Inv, NEW r \in Requests, Reinforce(r) PROVE Inv'
  <1> USE DEF Inv, TypeOK
  <1>1. request[r] \in Request /\ request[r].todo # <<>> /\ BackedBy(request[r], preferences, said)
    BY DEF Reinforce, Backed, BackedBy
  <1>2. PICK old \in request[r].copy :
          /\ preferences' = [preferences EXCEPT ![request[r].of] = [old EXCEPT !.count = @ + 1]]
          /\ said' = [said EXCEPT ![old.value] = @ + 1]
    BY DEF Reinforce
  <1> DEFINE new == [old EXCEPT !.count = @ + 1]
             i == request[r].of
  <1>3. old \in Row /\ i \in 1..Len(preferences) /\ old.heir = 0 /\ old.value = preferences[i].value
        /\ old.version = preferences[i].version /\ old.count <= said[old.value]
    BY <1>1 DEF Request, BackedBy
  <1>4. old.count \in Nat /\ old.count + 1 \in Nat \ {0} /\ old.value \in Values
    <2>1. old \in Row
      BY <1>3
    <2>2. old.count \in Nat /\ old.value \in Values
      BY <2>1, Zenon DEF Row
    <2> QED
      BY <2>2
  <1>5. new \in Row /\ new.value = old.value /\ new.version = old.version /\ new.heir = 0
        /\ new.count = old.count + 1
    BY <1>3, <1>4 DEF Row
  <1>6. said' \in [Values -> Nat] /\ \A v \in Values : said[v] <= said'[v]
    <2>1. said \in [Values -> Nat] /\ said' = [said EXCEPT ![old.value] = @ + 1]
      BY <1>2
    <2> HIDE DEF new, i, Inv, TypeOK
    <2> QED
      BY <1>4, <2>1
  <1>7. new.count <= said'[new.value]
    BY <1>2, <1>3, <1>4, <1>5
  <1>8. /\ preferences' \in Seq(Row) /\ Grown(preferences, said, preferences', said')
        /\ Chains' /\ EvidenceIsReal'
    <2>1. preferences' = [preferences EXCEPT ![i] = new]
      BY <1>2
    <2> HIDE DEF new, i, Inv, TypeOK
    <2> QED
      BY <1>3, <1>5, <1>6, <1>7, <2>1, Overwritten
  <1>9. Observed(request[r]) \in Request /\ BackedBy(Observed(request[r]), preferences', said')
    BY <1>1, ObservedHoldsNothing
  <1>10. request' = [request EXCEPT ![r] = Observed(request[r])] /\ disturbed' \in BOOLEAN /\ UNCHANGED evidence
    BY DEF Reinforce
  <1> HIDE DEF new, i, Inv, TypeOK
  <1> QED
    BY <1>6, <1>8, <1>9, <1>10, WriteStep

LEMMA LinkInv == ASSUME Inv, NEW r \in Requests, Link(r) PROVE Inv'
  <1> USE DEF Inv, TypeOK
  <1>1. request[r] \in Request /\ request[r].phase = "linking" /\ request[r].todo # <<>>
        /\ BackedBy(request[r], preferences, said)
    BY DEF Link, Backed, BackedBy
  <1>2. PICK old \in request[r].copy :
          preferences' = [preferences EXCEPT ![request[r].of] = [old EXCEPT !.heir = request[r].heir]]
    BY DEF Link
  <1> DEFINE new == [old EXCEPT !.heir = request[r].heir]
             i == request[r].of
  <1>3. old \in Row /\ i \in 1..Len(preferences) /\ old.value = preferences[i].value
        /\ old.version = preferences[i].version /\ old.count <= said[old.value]
        /\ request[r].heir \in (i + 1)..Len(preferences)
        /\ preferences[request[r].heir].value # old.value
        /\ preferences[request[r].heir].version = old.version + 1
    BY <1>1 DEF Request, BackedBy
  <1>4. request[r].heir \in Nat
    BY <1>1 DEF Request
  <1>5. new \in Row /\ new.value = old.value /\ new.version = old.version
        /\ new.heir = request[r].heir /\ new.count = old.count
    BY <1>3, <1>4 DEF Row
  <1>6. said' = said /\ said' \in [Values -> Nat] /\ \A v \in Values : said[v] <= said'[v]
    BY DEF Link
  <1>7. new.count <= said'[new.value]
    BY <1>3, <1>5, <1>6
  <1>8. /\ preferences' \in Seq(Row) /\ Grown(preferences, said, preferences', said')
        /\ Chains' /\ EvidenceIsReal'
    <2>1. preferences' = [preferences EXCEPT ![i] = new]
      BY <1>2
    <2> HIDE DEF new, i, Inv, TypeOK
    <2> QED
      BY <1>3, <1>5, <1>6, <1>7, <2>1, Overwritten
  <1>9. Observed(request[r]) \in Request /\ BackedBy(Observed(request[r]), preferences', said')
    BY <1>1, ObservedHoldsNothing
  <1>10. request' = [request EXCEPT ![r] = Observed(request[r])] /\ disturbed' \in BOOLEAN /\ UNCHANGED evidence
    BY DEF Link
  <1> HIDE DEF new, i, Inv, TypeOK
  <1> QED
    BY <1>6, <1>8, <1>9, <1>10, WriteStep

LEMMA StepInv == Inv /\ [Next]_vars => Inv'
  <1> SUFFICES ASSUME Inv, [Next]_vars PROVE Inv'
    OBVIOUS
  <1>1. CASE UNCHANGED vars
    BY <1>1 DEF vars, Inv, TypeOK, Backed, Chains, EvidenceIsReal
  <1>2. CASE Next
    BY <1>2, BeginInv, ReadInv, BufferInv, CreateInv, SucceedInv, ReinforceInv, LinkInv DEF Next
  <1> QED
    BY <1>1, <1>2

LEMMA Invariance == Spec => []Inv
  <1> QED
    BY InitInv, StepInv, PTL DEF Spec

\* Every state is well typed, for any requests, values and texts.
THEOREM PreferencesTypeCorrect == Spec => []TypeOK
  <1>1. Inv => TypeOK
    BY DEF Inv
  <1> QED
    BY <1>1, Invariance, PTL

\* A dimension keeps an active preference once it has one, since the last row of the
\* table is never superseded; rows are superseded by later ones of another value.
THEOREM PreferenceNeverLost == Spec => []PreferenceStays
  <1>1. Inv => PreferenceStays
    <2> SUFFICES ASSUME Inv PROVE PreferenceStays
      OBVIOUS
    <2> USE DEF Inv, TypeOK
    <2>1. ASSUME preferences # <<>> PROVE Active # {}
      <3> DEFINE n == Len(preferences)
      <3>1. n \in Nat /\ n \in 1..n
        BY <2>1
      <3>2. preferences[n].heir = 0
        BY <3>1 DEF Chains
      <3> QED
        BY <3>1, <3>2 DEF Active
    <2>2. \A i \in DOMAIN preferences \ Active : i \in 1..Len(preferences) /\ preferences[i].heir # 0
      BY DEF Active
    <2> QED
      BY <2>1, <2>2 DEF PreferenceStays, Chains
  <1> QED
    BY <1>1, Invariance, PTL

\* No count exceeds the observations of its value, however late copies are saved.
THEOREM EvidenceCounted == Spec => []EvidenceIsReal
  <1>1. Inv => EvidenceIsReal
    BY DEF Inv
  <1> QED
    BY <1>1, Invariance, PTL

-----------------------------------------------------------------------------
(* Evidence is consumed: EvidenceIsConsumed is inductive as it stands.      *)

Busy == {"counting", "asking", "clearing", "failed"}

LEMMA ConsumedStep == TypeOK /\ EvidenceIsConsumed /\ [Next]_vars => EvidenceIsConsumed'
  <1> SUFFICES ASSUME TypeOK, EvidenceIsConsumed, [Next]_vars,
                      \A o \in Requests : request'[o].phase \notin Busy
               PROVE  Cardinality(evidence') < Threshold
    BY DEF EvidenceIsConsumed, Busy
  <1> USE DEF TypeOK
  <1>1. CASE UNCHANGED vars
    BY <1>1 DEF vars, EvidenceIsConsumed, Busy
  <1>2. ASSUME NEW r \in Requests,
               \/ Begin(r) \/ Read(r) \/ Create(r) \/ Reinforce(r) \/ Succeed(r) \/ Link(r)
        PROVE  Cardinality(evidence') < Threshold
    <2>1. evidence' = evidence
      BY <1>2 DEF Begin, Read, Create, Reinforce, Succeed, Link
    <2>2. request[r].phase \in {"new", "observing", "saving", "linking"}
      BY <1>2 DEF Begin, Read, Create, Reinforce, Succeed, Link
    <2>3. \A o \in Requests \ {r} : request'[o] = request[o]
      BY <1>2 DEF Begin, Read, Create, Reinforce, Succeed, Link
    <2> QED
      BY <2>1, <2>2, <2>3 DEF EvidenceIsConsumed, Busy
  <1>3. ASSUME NEW r \in Requests, Count(r)
        PROVE  Cardinality(evidence') < Threshold
    BY <1>3 DEF Count, Busy, Request
  <1>4. ASSUME NEW r \in Requests, Clear(r)
        PROVE  Cardinality(evidence') < Threshold
    BY <1>4, FS_EmptySet, PreferencesAssumption DEF Clear
  <1>5. ASSUME NEW r \in Requests, Buffer(r) \/ Ask(r) \/ Fail(r)
        PROVE  FALSE
    <2>1. request'[r].phase \in Busy
      BY <1>5 DEF Buffer, Ask, Fail, Fresh, Busy, Request
    <2> QED
      BY <2>1
  <1> QED
    BY <1>1, <1>2, <1>3, <1>4, <1>5 DEF Next

\* Once the requests are through, fewer texts are left than the model would read:
\* whoever counts last finds too few, or clears them.
THEOREM EvidenceConsumed == Spec => []EvidenceIsConsumed
  <1>1. Init => EvidenceIsConsumed
    BY FS_EmptySet, PreferencesAssumption DEF Init, EvidenceIsConsumed
  <1>2. Inv => TypeOK
    BY DEF Inv
  <1> QED
    BY <1>1, <1>2, ConsumedStep, Invariance, PTL DEF Spec

-----------------------------------------------------------------------------
(* One active row unless disturbed: a request that nobody disturbs has read *)
(* all that is active, and still has it in hand when it writes.             *)

Linking == {r \in Requests : request[r].phase = "linking"}
Saving == {r \in Requests : request[r].phase = "saving"}

Single == \A i, j \in Active : i = j

\* The request has read the only active row, or that there is none.
HoldsAll(r) ==
    \/ request[r].copy = {} /\ Active = {}
    \/ request[r].copy = {preferences[request[r].of]} /\ Active = {request[r].of}

Calm ==
    ~disturbed =>
        /\ Linking = {} => Single /\ \A r \in Saving : HoldsAll(r)
        /\ \A r \in Linking : /\ Linking = {r}
                              /\ request[r].copy = {preferences[request[r].of]}
                              /\ Active = {request[r].of, request[r].heir}

CalmInv == Inv /\ Calm

LEMMA CalmInit == Init => Calm
  BY DEF Init, Calm, Linking, Saving, Single, Active, Fresh

\* A step that writes no row, and does not begin to save one.
LEMMA CalmIdle ==
  ASSUME CalmInv, NEW r \in Requests,
         Begin(r) \/ Buffer(r) \/ Count(r) \/ Ask(r) \/ Clear(r) \/ Fail(r)
  PROVE  Calm'
  <1> USE DEF CalmInv, Inv, TypeOK
  <1>1. preferences' = preferences /\ \A o \in Requests \ {r} : request'[o] = request[o]
    BY DEF Begin, Buffer, Count, Ask, Clear, Fail
  <1>2. Active' = Active
    BY <1>1 DEF Active
  <1>3. request'[r].phase \notin {"saving", "linking"}
    BY DEF Begin, Buffer, Count, Ask, Clear, Fail, Fresh, Request
  <1>4. SUFFICES ASSUME ~disturbed' PROVE Calm'
    BY DEF Calm
  <1>5. ~disturbed /\ request[r].phase # "linking"
    BY <1>4 DEF Begin, Buffer, Count, Ask, Clear, Fail
  <1>6. Linking' = Linking /\ Saving' \subseteq Saving /\ r \notin Linking' /\ r \notin Saving'
    BY <1>1, <1>3, <1>5 DEF Linking, Saving
  <1>7. \A o \in Linking' \cup Saving' : request'[o] = request[o]
    BY <1>1, <1>6 DEF Linking, Saving
  <1>8. Linking' = {} => Single' /\ \A o \in Saving' : HoldsAll(o)'
    BY <1>1, <1>2, <1>5, <1>6, <1>7 DEF Calm, Single, HoldsAll
  <1>9. \A o \in Linking' : /\ Linking' = {o}
                            /\ request'[o].copy = {preferences'[request'[o].of]}
                            /\ Active' = {request'[o].of, request'[o].heir}
    BY <1>1, <1>2, <1>5, <1>6, <1>7 DEF Calm
  <1> QED
    BY <1>8, <1>9 DEF Calm

LEMMA CalmRead == ASSUME CalmInv, NEW r \in Requests, Read(r) PROVE Calm'
  <1> USE DEF CalmInv, Inv, TypeOK
  <1>1. preferences' = preferences /\ disturbed' = disturbed
        /\ \A o \in Requests \ {r} : request'[o] = request[o]
    BY DEF Read
  <1>2. Active' = Active
    BY <1>1 DEF Active
  <1>3. request'[r].phase = "saving" /\ request[r].phase = "observing"
    BY DEF Read, Request
  <1>4. SUFFICES ASSUME ~disturbed' PROVE Calm'
    BY DEF Calm
  <1>5. Linking' = Linking /\ Saving' = Saving \cup {r} /\ r \notin Linking /\ r \notin Saving
    BY <1>1, <1>3 DEF Linking, Saving
  <1>6. \A o \in Linking' \cup Saving : request'[o] = request[o]
    BY <1>1, <1>5 DEF Linking, Saving
  <1>7. ASSUME Single PROVE HoldsAll(r)'
    <2>1. CASE Active = {} /\ request'[r].copy = {}
      BY <1>2, <2>1 DEF HoldsAll
    <2>2. ASSUME NEW i \in Latest, request'[r].of = i, request'[r].copy = {preferences[i]}
          PROVE  HoldsAll(r)'
      <3>1. Active = {i}
        BY <1>7, <2>2 DEF Latest, Single
      <3> QED
        BY <1>1, <1>2, <2>2, <3>1 DEF HoldsAll
    <2> QED
      BY <2>1, <2>2 DEF Read, Request
  <1>8. Linking' = {} => Single' /\ \A o \in Saving' : HoldsAll(o)'
    BY <1>1, <1>2, <1>4, <1>5, <1>6, <1>7 DEF Calm, Single, HoldsAll
  <1>9. \A o \in Linking' : /\ Linking' = {o}
                            /\ request'[o].copy = {preferences'[request'[o].of]}
                            /\ Active' = {request'[o].of, request'[o].heir}
    BY <1>1, <1>2, <1>4, <1>5, <1>6 DEF Calm
  <1> QED
    BY <1>8, <1>9 DEF Calm

\* What a step that writes without disturbing finds: nobody else is about to write.
LEMMA CalmBefore ==
  ASSUME CalmInv, NEW r \in Requests, request[r].phase \in {"saving", "linking"},
         ~disturbed, ~Overlaps(r)
  PROVE  /\ \A o \in Requests \ {r} : o \notin Linking /\ o \notin Saving
         /\ request[r].phase = "saving" => HoldsAll(r)
         /\ request[r].phase = "linking" =>
                /\ request[r].copy = {preferences[request[r].of]}
                /\ Active = {request[r].of, request[r].heir}
  BY DEF CalmInv, Calm, Overlaps, Linking, Saving

\* A request that is done writing leaves one active row.
LEMMA CalmAfter ==
  ASSUME CalmInv, NEW r \in Requests, Single', request[r].todo # <<>>,
         request' = [request EXCEPT ![r] = Observed(@)],
         \A o \in Requests \ {r} : o \notin Linking /\ o \notin Saving
  PROVE  Calm'
  <1>1. request'[r].phase \in {"ended", "observing"}
    BY DEF CalmInv, Inv, TypeOK, Observed, Request
  <1>2. \A o \in Requests \ {r} : request'[o] = request[o]
    BY DEF CalmInv, Inv, TypeOK
  <1>3. Linking' = {} /\ Saving' = {}
    BY <1>1, <1>2 DEF Linking, Saving
  <1> QED
    BY <1>3 DEF Calm

LEMMA CalmCreate == ASSUME CalmInv, NEW r \in Requests, Create(r) PROVE Calm'
  <1> USE DEF CalmInv, Inv, TypeOK
  <1>1. SUFFICES ASSUME ~disturbed' PROVE Calm'
    BY DEF Calm
  <1>2. request[r].phase = "saving" /\ request[r].copy = {} /\ ~disturbed /\ ~Overlaps(r)
    BY <1>1 DEF Create
  <1>3. HoldsAll(r) /\ \A o \in Requests \ {r} : o \notin Linking /\ o \notin Saving
    <2> HIDE DEF CalmInv
    <2> QED
      BY <1>2, CalmBefore
  <1>4. Active = {}
    BY <1>2, <1>3 DEF HoldsAll
  <1>5. request[r].todo # <<>>
    BY <1>2 DEF Backed, BackedBy
  <1>6. preferences' = Append(preferences, NewRow(Head(request[r].todo), 1))
    BY DEF Create
  <1>7. Single'
    <2>1. \A i \in DOMAIN preferences' : i # Len(preferences) + 1 =>
            i \in DOMAIN preferences /\ preferences'[i] = preferences[i]
      BY <1>6
    <2>2. Active' \subseteq {Len(preferences) + 1}
      BY <1>4, <2>1 DEF Active
    <2> QED
      BY <2>2 DEF Single
  <1>8. request' = [request EXCEPT ![r] = Observed(@)]
    BY DEF Create
  <1> HIDE DEF CalmInv
  <1> QED
    BY <1>3, <1>5, <1>7, <1>8, CalmAfter

LEMMA CalmReinforce == ASSUME CalmInv, NEW r \in Requests, Reinforce(r) PROVE Calm'
  <1> USE DEF CalmInv, Inv, TypeOK
  <1>1. SUFFICES ASSUME ~disturbed' PROVE Calm'
    BY DEF Calm
  <1>2. request[r].phase = "saving" /\ request[r].copy # {} /\ ~disturbed /\ ~Overlaps(r)
    BY <1>1 DEF Reinforce
  <1>3. HoldsAll(r) /\ \A o \in Requests \ {r} : o \notin Linking /\ o \notin Saving
    <2> HIDE DEF CalmInv
    <2> QED
      BY <1>2, CalmBefore
  <1>4. Active = {request[r].of}
    BY <1>2, <1>3 DEF HoldsAll
  <1>5. request[r].todo # <<>>
    BY <1>2 DEF Backed, BackedBy
  <1>6. Single'
    <2>1. \A i \in DOMAIN preferences' : i # request[r].of =>
            i \in DOMAIN preferences /\ preferences'[i] = preferences[i]
      BY DEF Reinforce
    <2>2. Active' \subseteq {request[r].of}
      BY <1>4, <2>1 DEF Active
    <2> QED
      BY <2>2 DEF Single
  <1>7. request' = [request EXCEPT ![r] = Observed(@)]
    BY DEF Reinforce
  <1> HIDE DEF CalmInv
  <1> QED
    BY <1>3, <1>5, <1>6, <1>7, CalmAfter

LEMMA CalmLink == ASSUME CalmInv, NEW r \in Requests, Link(r) PROVE Calm'
  <1> USE DEF CalmInv, Inv, TypeOK
  <1>1. SUFFICES ASSUME ~disturbed' PROVE Calm'
    BY DEF Calm
  <1>2. request[r].phase = "linking" /\ ~disturbed /\ ~Overlaps(r)
    BY <1>1 DEF Link
  <1>3. /\ \A o \in Requests \ {r} : o \notin Linking /\ o \notin Saving
        /\ Active = {request[r].of, request[r].heir}
    <2> HIDE DEF CalmInv
    <2> QED
      BY <1>2, CalmBefore
  <1>4. PICK old \in request[r].copy :
          preferences' = [preferences EXCEPT ![request[r].of] = [old EXCEPT !.heir = request[r].heir]]
    BY DEF Link
  <1>5. /\ request[r].todo # <<>> /\ request[r].of \in 1..Len(preferences)
        /\ request[r].heir \in (request[r].of + 1)..Len(preferences)
    BY <1>2, <1>4 DEF Backed, BackedBy
  <1>6. Single'
    <2>1. DOMAIN preferences' = DOMAIN preferences
          /\ \A i \in DOMAIN preferences : i # request[r].of => preferences'[i] = preferences[i]
      BY <1>4
    <2>2. old \in Row /\ preferences'[request[r].of] = [old EXCEPT !.heir = request[r].heir]
      BY <1>4, <1>5 DEF Request
    <2>3. preferences'[request[r].of].heir = request[r].heir
      BY <2>2 DEF Row
    <2>4. request[r].heir # 0
      BY <1>5
    <2>5. Active' \subseteq {request[r].heir}
      BY <1>3, <2>1, <2>3, <2>4 DEF Active
    <2> QED
      BY <2>5 DEF Single
  <1>7. request' = [request EXCEPT ![r] = Observed(@)]
    BY DEF Link
  <1> HIDE DEF CalmInv
  <1> QED
    BY <1>3, <1>5, <1>6, <1>7, CalmAfter

LEMMA CalmSucceed == ASSUME CalmInv, NEW r \in Requests, Succeed(r) PROVE Calm'
  <1> USE DEF CalmInv, Inv, TypeOK
  <1>1. SUFFICES ASSUME ~disturbed' PROVE Calm'
    BY DEF Calm
  <1>2. request[r].phase = "saving" /\ request[r].copy # {} /\ ~disturbed /\ ~Overlaps(r)
    BY <1>1 DEF Succeed
  <1>3. HoldsAll(r) /\ \A o \in Requests \ {r} : o \notin Linking /\ o \notin Saving
    <2> HIDE DEF CalmInv
    <2> QED
      BY <1>2, CalmBefore
  <1>4. request[r].copy = {preferences[request[r].of]} /\ Active = {request[r].of}
    BY <1>2, <1>3 DEF HoldsAll
  <1>5. PICK n : preferences' = Append(preferences, NewRow(Head(request[r].todo), n))
    BY DEF Succeed
  <1>6. /\ request'[r].phase = "linking" /\ request'[r].copy = request[r].copy
        /\ request'[r].of = request[r].of /\ request'[r].heir = Len(preferences) + 1
    BY DEF Succeed, Request
  <1>7. \A o \in Requests \ {r} : request'[o] = request[o]
    BY DEF Succeed
  <1>8. Linking' = {r}
    BY <1>3, <1>6, <1>7 DEF Linking
  <1>9. /\ DOMAIN preferences' = 1..(Len(preferences) + 1)
        /\ \A i \in 1..Len(preferences) : preferences'[i] = preferences[i]
        /\ preferences'[Len(preferences) + 1].heir = 0
    BY <1>5 DEF NewRow
  <1>10. Active' = {request[r].of, Len(preferences) + 1}
    <2>1. \A i \in 1..Len(preferences) : i \in Active' <=> i \in Active
      BY <1>9 DEF Active
    <2>2. Len(preferences) + 1 \in Active'
      BY <1>9 DEF Active
    <2>3. Active \subseteq 1..Len(preferences) /\ Active' \subseteq 1..(Len(preferences) + 1)
      BY <1>9 DEF Active
    <2>4. \A i \in 1..(Len(preferences) + 1) : i \in 1..Len(preferences) \/ i = Len(preferences) + 1
      OBVIOUS
    <2>5. ASSUME NEW i \in Active' PROVE i \in {request[r].of, Len(preferences) + 1}
      BY <1>4, <2>1, <2>3, <2>4, <2>5
    <2>6. request[r].of \in Active'
      BY <1>4, <2>1, <2>3
    <2> QED
      BY <2>2, <2>5, <2>6
  <1>11. preferences'[request[r].of] = preferences[request[r].of]
    BY <1>4, <1>9 DEF Active
  <1> QED
    BY <1>4, <1>6, <1>8, <1>10, <1>11 DEF Calm

LEMMA CalmStep == CalmInv /\ [Next]_vars => Calm'
  <1> SUFFICES ASSUME CalmInv, [Next]_vars PROVE Calm'
    OBVIOUS
  <1>1. CASE UNCHANGED vars
    BY <1>1 DEF vars, CalmInv, Calm, Linking, Saving, Single, HoldsAll, Active
  <1>2. CASE Next
    BY <1>2, CalmIdle, CalmRead, CalmCreate, CalmReinforce, CalmSucceed, CalmLink DEF Next
  <1> QED
    BY <1>1, <1>2

\* A dimension has one active row, unless requests have written over each other or one
\* has died between a successor and its link.
THEOREM OneActive == Spec => []OneUnlessDisturbed
  <1>1. CalmInv => OneUnlessDisturbed
    <2> SUFFICES ASSUME CalmInv, ~disturbed, \A r \in Requests : request[r].phase # "linking"
                 PROVE  Cardinality(Active) <= 1
      BY DEF OneUnlessDisturbed
    <2>1. Single
      BY DEF CalmInv, Calm, Linking
    <2>2. CASE Active = {}
      BY <2>2, FS_EmptySet
    <2>3. CASE Active # {}
      <3>1. PICK i \in Active : Active = {i}
        BY <2>1, <2>3 DEF Single
      <3>2. Cardinality({i}) = 1
        BY FS_Singleton, Zenon
      <3> QED
        BY <3>1, <3>2
    <2> QED
      BY <2>2, <2>3
  <1>2. Init => CalmInv
    BY InitInv, CalmInit DEF CalmInv
  <1>3. CalmInv /\ [Next]_vars => CalmInv'
    BY StepInv, CalmStep DEF CalmInv
  <1> QED
    BY <1>1, <1>2, <1>3, PTL DEF Spec
=============================================================================
