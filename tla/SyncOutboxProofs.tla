-------------------------- MODULE SyncOutboxProofs --------------------------
(***************************************************************************)
(* Theorems of SyncOutbox, for any number of jobs, processes, attempts,    *)
(* crashes and retries.                                                    *)
(***************************************************************************)
EXTENDS SyncOutbox, FiniteSetTheorems, TLAPS

USE DEF RowOf

-----------------------------------------------------------------------------
(* Facts about the retry policy. *)

LEMMA BackoffType == \A n \in Nat : Backoff(n) \in 0..BackoffCap
  BY OutboxAssumption, SMT DEF Backoff

LEMMA RemainingType ==
  ASSUME NEW n \in Nat, NEW e \in 0..BackoffCap
  PROVE  Remaining(n, e) \in 0..BackoffCap
  BY BackoffType, OutboxAssumption, SMT DEF Remaining

LEMMA MarkFailedType ==
  ASSUME NEW k \in Snapshot
  PROVE  /\ MarkFailed(k) \in Row
         /\ MarkFailed(k).status \in {"pending", "dead"}
         /\ MarkFailed(k).attempts = k.attempts + 1
         /\ MarkFailed(k).status = "pending" => MarkFailed(k).attempts < MaxAttempts
         /\ MarkFailed(k).status = "dead" /\ k.phase # "unhandled"
              => MarkFailed(k).attempts = MaxAttempts
  <1>1. k.attempts + 1 \in 0..MaxAttempts /\ k.attempts + 1 \in Nat /\ k.elapsed \in 0..BackoffCap
    BY OutboxAssumption, SMT DEF Snapshot
  <1>2. Remaining(k.attempts + 1, k.elapsed) \in 0..BackoffCap
    BY <1>1, RemainingType
  <1>3. 0 \in 0..StaleAfter /\ 0 \in 0..BackoffCap
    BY OutboxAssumption, SMT
  <1> DEFINE w == Remaining(k.attempts + 1, k.elapsed)
  <1> HIDE DEF w
  <1>4. MarkFailed(k) = IF k.phase = "unhandled" \/ k.attempts + 1 >= MaxAttempts
                        THEN RowOf("dead", k.attempts + 1, 0)
                        ELSE RowOf("pending", k.attempts + 1, w)
    BY DEF MarkFailed, w
  <1>5. w \in 0..BackoffCap
    BY <1>2 DEF w
  <1> QED
    BY <1>1, <1>3, <1>4, <1>5, OutboxAssumption, SMT DEF Row, Status, Snapshot

LEMMA MarkSucceededType ==
  ASSUME NEW k \in Snapshot
  PROVE  MarkSucceeded(k) \in Row /\ MarkSucceeded(k).status = "done"
  BY OutboxAssumption, SMT DEF MarkSucceeded, Row, Status, Snapshot

\* Time changes only the two clocks of a row.
LEMMA OlderType ==
  ASSUME NEW r \in Row
  PROVE  /\ Older(r) \in Row
         /\ Older(r).status = r.status
         /\ Older(r).attempts = r.attempts
         /\ Older(r).age = IF r.status = "running" /\ r.age < StaleAfter THEN r.age + 1 ELSE r.age
  BY OutboxAssumption, SMT DEF Older, Row

-----------------------------------------------------------------------------
(* Type correctness.  TypeOK is inductive only together with               *)
(* RetriesHaveBudget: a claim copies the attempts of a pending row into a  *)
(* snapshot, which must have one attempt left.                             *)

TypeInv == TypeOK /\ RetriesHaveBudget

LEMMA TypeInit == Init => TypeInv
  BY OutboxAssumption, SMT DEF Init, TypeInv, TypeOK, RetriesHaveBudget, Row, Status

LEMMA TypeStep == TypeInv /\ [Next]_vars => TypeInv'
  <1> SUFFICES ASSUME TypeOK, RetriesHaveBudget, [Next]_vars
               PROVE  TypeInv'
    BY DEF TypeInv
  <1> USE OutboxAssumption
  <1> USE DEF TypeInv, TypeOK, RetriesHaveBudget
  <1>1. ASSUME NEW js \in SUBSET Jobs, Commit(js)
        PROVE  TypeInv'
    BY <1>1, SMT DEF Commit, Queued, Row, Status, Snapshot, Phase, Threads
  <1>2. ASSUME NEW js \in SUBSET Jobs, ListDead(js)
        PROVE  TypeInv'
    BY <1>2, SMT DEF ListDead
  <1>3. ASSUME NEW p \in Procs, Claim(p)
        PROVE  TypeInv'
    <2>1. PICK js \in Batch :
            /\ row' = [j \in Jobs |-> IF j \in js THEN RowOf("running", row[j].attempts, 0) ELSE row[j]]
            /\ held' = held \cup {Queued(p, j, row[j].attempts) : j \in js}
      BY <1>3 DEF Claim
    <2>2. js \subseteq Jobs /\ \A j \in js : row[j].status = "pending"
      BY DEF Batch, Due
    <2>3. \A j \in js : row[j].attempts \in 0..(MaxAttempts - 1)
      BY <2>2, SMT DEF Row
    <2>4. row' \in [Jobs -> Row]
      BY <2>1, <2>2, SMT DEF Row, Status
    <2>5. held' \subseteq Snapshot
      BY <2>1, <2>2, <2>3, SMT DEF Queued, Snapshot, Threads, Phase
    <2>6. RetriesHaveBudget'
      BY <2>1, <2>2, <2>3, <2>4, SMT DEF Row
    <2> QED
      BY <2>4, <2>5, <2>6, <1>3 DEF Claim
  <1>4. Recovered \in [Jobs -> Row] /\ \A j \in Jobs :
          Recovered[j].status \in {"pending", "running"} => Recovered[j].attempts < MaxAttempts
    BY SMT DEF Recovered, IsStale, Row, Status
  <1>5. ASSUME NEW p \in Procs, Recover(p)
        PROVE  TypeInv'
    BY <1>4, <1>5, SMT DEF Recover
  <1>6. ASSUME NEW p \in Procs, Boot(p)
        PROVE  TypeInv'
    BY <1>4, <1>6, SMT DEF Boot
  <1>7. ASSUME NEW p \in Procs, Crash(p)
        PROVE  TypeInv'
    BY <1>7, SMT DEF Crash
  <1>8. ASSUME NEW k \in held, Start(k)
        PROVE  TypeInv'
    BY <1>8, SMT DEF Start, Snapshot, Phase
  <1>9. ASSUME NEW k \in held, HandlerReturns(k)
        PROVE  TypeInv'
    BY <1>9, SMT DEF HandlerReturns, Snapshot, Phase
  <1>10. ASSUME NEW k \in held, HandlerRaises(k)
         PROVE  TypeInv'
    <2>1. held' \subseteq Snapshot
      BY <1>10, SMT DEF HandlerRaises, Snapshot, Phase
    <2>2. failures' \in [Jobs -> 0..MaxAttempts]
      BY <1>10, SMT DEF HandlerRaises, Snapshot
    <2> QED
      BY <1>10, <2>1, <2>2 DEF HandlerRaises
  <1>11. ASSUME NEW k \in held, SaveOutcome(k)
         PROVE  TypeInv'
    <2>1. k \in Snapshot /\ k.job \in Jobs
      BY DEF Snapshot
    <2>2. DEFINE new == IF k.phase = "returned" THEN MarkSucceeded(k) ELSE MarkFailed(k)
    <2>3. new \in Row /\ (new.status \in {"pending", "running"} => new.attempts < MaxAttempts)
      BY <2>1, MarkFailedType, MarkSucceededType
    <2>4. row' = [row EXCEPT ![k.job] = new] /\ held' \subseteq held
      BY <1>11 DEF SaveOutcome
    <2> HIDE DEF new
    <2>5. row' \in [Jobs -> Row] /\ RetriesHaveBudget'
      BY <2>1, <2>3, <2>4
    <2>6. rest' \in [Jobs -> 0..BackoffCap]
      BY <1>11, <2>1, SMT DEF SaveOutcome, Rest, Snapshot
    <2> QED
      BY <1>11, <2>4, <2>5, <2>6 DEF SaveOutcome
  <1>12. ASSUME NEW k \in held, SaveFails(k)
         PROVE  TypeInv'
    BY <1>12, SMT DEF SaveFails
  <1>13. ASSUME NEW j \in Jobs, RetryDead(j)
         PROVE  TypeInv'
    BY <1>13, SMT DEF RetryDead, Requeue, Row, Status
  <1>14. ASSUME NEW j \in Jobs, Purge(j)
         PROVE  TypeInv'
    BY <1>14, SMT DEF Purge, Row, Status
  <1>15. ASSUME Tick
         PROVE  TypeInv'
    <2>1. \A r \in Row : Older(r) \in Row /\ Older(r).status = r.status /\ Older(r).attempts = r.attempts
      BY OlderType
    <2>2. \A k \in Snapshot : Longer(k) \in Snapshot
      BY SMT DEF Longer, Snapshot
    <2>3. row' = [j \in Jobs |-> Older(row[j])] /\ held' = {Longer(k) : k \in held}
      BY <1>15 DEF Tick
    <2>4. row' \in [Jobs -> Row] /\ RetriesHaveBudget'
      BY <2>1, <2>3
    <2>5. held' \subseteq Snapshot
      BY <2>2, <2>3
    <2>6. rest' \in [Jobs -> 0..BackoffCap]
      BY <1>15, SMT DEF Tick
    <2> QED
      BY <1>15, <2>4, <2>5, <2>6 DEF Tick
  <1>16. CASE UNCHANGED vars
    BY <1>16 DEF vars
  <1> QED
    BY <1>1, <1>2, <1>3, <1>5, <1>6, <1>7, <1>8, <1>9, <1>10, <1>11, <1>12, <1>13, <1>14,
       <1>15, <1>16 DEF Next

\* Rows, snapshots and counters keep their types in every reachable state, and a
\* job that will be tried again has an attempt left (retry.py mark_failed).
THEOREM TypeCorrect == Spec => [](TypeOK /\ RetriesHaveBudget)
  <1>1. Spec => []TypeInv
    BY TypeInit, TypeStep, PTL DEF Spec
  <1> QED
    BY <1>1, PTL DEF TypeInv

-----------------------------------------------------------------------------
(* The history of a job backs its row.  DoneMeansApplied and               *)
(* AttemptsAreEarned speak of rows, but the next row comes from a snapshot *)
(* saved at any later time: what a snapshot will make of the row must be   *)
(* backed already when its handler ends.                                   *)

SnapshotsBacked ==
    \A k \in held :
        /\ k.phase = "returned" => k.job \in applied
        /\ k.phase \in {"handling", "raised"} => k.job \notin Unhandled
        /\ k.phase = "unhandled" => k.job \in Unhandled
        /\ k.phase = "raised" => k.attempts + 1 <= failures[k.job]
        /\ k.job \notin Unhandled => k.attempts <= failures[k.job]

RowsBacked ==
    \A j \in Jobs \ Unhandled :
        /\ row[j].status \in {"pending", "running", "dead"} => row[j].attempts <= failures[j]
        /\ row[j].status = "dead" => row[j].attempts = MaxAttempts

HistoryInv == DoneMeansApplied /\ RowsBacked /\ SnapshotsBacked

LEMMA HistoryInit == Init => HistoryInv
  BY SMT DEF Init, HistoryInv, DoneMeansApplied, RowsBacked, SnapshotsBacked

LEMMA HistoryStep == TypeInv /\ HistoryInv /\ [Next]_vars => HistoryInv'
  <1> SUFFICES ASSUME TypeInv, HistoryInv, [Next]_vars
               PROVE  HistoryInv'
    OBVIOUS
  <1> USE OutboxAssumption
  <1> USE DEF TypeInv, TypeOK, HistoryInv, DoneMeansApplied, RowsBacked, SnapshotsBacked
  <1>0. /\ \A k \in held : k.job \in Jobs /\ k.attempts \in 0..(MaxAttempts - 1)
        /\ \A j \in Jobs : row[j].attempts \in 0..MaxAttempts /\ failures[j] \in 0..MaxAttempts
    BY SMT DEF Snapshot, Row
  <1>1. ASSUME NEW js \in SUBSET Jobs, Commit(js)
        PROVE  HistoryInv'
    BY <1>0, <1>1, SMT DEF Commit, Queued
  <1>2. ASSUME NEW js \in SUBSET Jobs, ListDead(js)
        PROVE  HistoryInv'
    BY <1>2, SMT DEF ListDead
  <1>3. ASSUME NEW p \in Procs, Claim(p)
        PROVE  HistoryInv'
    <2>1. PICK js \in Batch :
            /\ row' = [j \in Jobs |-> IF j \in js THEN RowOf("running", row[j].attempts, 0) ELSE row[j]]
            /\ held' = held \cup {Queued(p, j, row[j].attempts) : j \in js}
      BY <1>3 DEF Claim
    <2>2. js \subseteq Jobs /\ \A j \in js : row[j].status = "pending"
      BY DEF Batch, Due
    <2>3. UNCHANGED <<applied, failures>>
      BY <1>3 DEF Claim
    <2> QED
      BY <1>0, <2>1, <2>2, <2>3, SMT DEF Queued
  <1>4. \A j \in Jobs :
          /\ Recovered[j].attempts = row[j].attempts
          /\ \/ Recovered[j].status = row[j].status
             \/ row[j].status = "running" /\ Recovered[j].status = "pending"
    BY SMT DEF Recovered, IsStale
  <1>5. ASSUME NEW p \in Procs, Recover(p)
        PROVE  HistoryInv'
    BY <1>0, <1>4, <1>5, SMT DEF Recover
  <1>6. ASSUME NEW p \in Procs, Boot(p)
        PROVE  HistoryInv'
    BY <1>0, <1>4, <1>6, SMT DEF Boot
  <1>7. ASSUME NEW p \in Procs, Crash(p)
        PROVE  HistoryInv'
    BY <1>7, SMT DEF Crash
  <1>8. ASSUME NEW k \in held, Start(k)
        PROVE  HistoryInv'
    BY <1>0, <1>8, SMT DEF Start, Snapshot
  <1>9. ASSUME NEW k \in held, HandlerReturns(k)
        PROVE  HistoryInv'
    BY <1>0, <1>9, SMT DEF HandlerReturns, Snapshot
  <1>10. ASSUME NEW k \in held, HandlerRaises(k)
         PROVE  HistoryInv'
    <2>1. /\ held' = (held \ {k}) \cup {[k EXCEPT !.phase = "raised"]}
          /\ failures' = [failures EXCEPT ![k.job] = IF @ < MaxAttempts THEN @ + 1 ELSE @]
          /\ k.phase = "handling"
          /\ UNCHANGED <<row, applied>>
      BY <1>10 DEF HandlerRaises
    <2>2. /\ \A j \in Jobs : failures[j] <= failures'[j]
          /\ k.attempts + 1 <= failures'[k.job]
      BY <1>0, <2>1, SMT
    <2>3. /\ [k EXCEPT !.phase = "raised"].phase = "raised"
          /\ [k EXCEPT !.phase = "raised"].job = k.job
          /\ [k EXCEPT !.phase = "raised"].attempts = k.attempts
      BY DEF Snapshot
    <2>4. failures' \in [Jobs -> 0..MaxAttempts]
      BY <1>0, <2>1, SMT
    <2>5. DoneMeansApplied' /\ RowsBacked'
      BY <1>0, <2>1, <2>2, <2>4, SMT
    <2>6. ASSUME NEW x \in held'
          PROVE  /\ x.phase = "returned" => x.job \in applied'
                 /\ x.phase \in {"handling", "raised"} => x.job \notin Unhandled
                 /\ x.phase = "unhandled" => x.job \in Unhandled
                 /\ x.phase = "raised" => x.attempts + 1 <= failures'[x.job]
                 /\ x.job \notin Unhandled => x.attempts <= failures'[x.job]
      <3>1. CASE x \in held
        BY <1>0, <2>1, <2>2, <2>4, <3>1, SMT
      <3>2. CASE x = [k EXCEPT !.phase = "raised"]
        <4>1. x.phase = "raised" /\ x.job = k.job /\ x.attempts = k.attempts
          BY <2>3, <3>2
        <4>2. k.job \in Jobs /\ k.job \notin Unhandled /\ k.attempts \in Nat /\ failures'[k.job] \in Nat
          BY <1>0, <2>1, <2>4, SMT
        <4> QED
          BY <2>2, <4>1, <4>2, SMT
      <3> QED
        BY <2>1, <3>1, <3>2
    <2> QED
      BY <2>5, <2>6
  <1>11. ASSUME NEW k \in held, SaveOutcome(k)
         PROVE  HistoryInv'
    <2>1. k \in Snapshot /\ k.job \in Jobs
      BY DEF Snapshot
    <2> DEFINE new == IF k.phase = "returned" THEN MarkSucceeded(k) ELSE MarkFailed(k)
    <2>2. /\ row' = [row EXCEPT ![k.job] = new]
          /\ held' \subseteq held
          /\ UNCHANGED <<applied, failures>>
          /\ k.phase \in {"returned", "raised", "unhandled"}
      BY <1>11 DEF SaveOutcome
    <2>3. new.status = "done" => k.job \in applied
      BY <2>1, MarkFailedType
    <2>4. k.job \notin Unhandled =>
            /\ new.status \in {"pending", "running", "dead"} => new.attempts <= failures[k.job]
            /\ new.status = "dead" => new.attempts = MaxAttempts
      BY <2>1, <2>2, MarkFailedType, MarkSucceededType
    <2> HIDE DEF new
    <2> QED
      BY <2>1, <2>2, <2>3, <2>4
  <1>12. ASSUME NEW k \in held, SaveFails(k)
         PROVE  HistoryInv'
    BY <1>12, SMT DEF SaveFails
  <1>13. ASSUME NEW j \in Jobs, RetryDead(j)
         PROVE  HistoryInv'
    BY <1>0, <1>13, SMT DEF RetryDead, Requeue
  <1>14. ASSUME NEW j \in Jobs, Purge(j)
         PROVE  HistoryInv'
    BY <1>14, SMT DEF Purge
  <1>15. ASSUME Tick
         PROVE  HistoryInv'
    <2>1. \A j \in Jobs : Older(row[j]).status = row[j].status /\ Older(row[j]).attempts = row[j].attempts
      BY OlderType
    <2>2. \A k \in held : /\ Longer(k).job = k.job
                          /\ Longer(k).phase = k.phase
                          /\ Longer(k).attempts = k.attempts
      BY SMT DEF Longer, Snapshot
    <2>3. /\ row' = [j \in Jobs |-> Older(row[j])]
          /\ held' = {Longer(k) : k \in held}
          /\ UNCHANGED <<applied, failures>>
      BY <1>15 DEF Tick
    <2>4. DoneMeansApplied' /\ RowsBacked'
      BY <2>1, <2>3
    <2>5. SnapshotsBacked'
      BY <2>2, <2>3
    <2> QED
      BY <2>4, <2>5
  <1>16. CASE UNCHANGED vars
    BY <1>16 DEF vars
  <1> QED
    BY <1>1, <1>2, <1>3, <1>5, <1>6, <1>7, <1>8, <1>9, <1>10, <1>11, <1>12, <1>13, <1>14,
       <1>15, <1>16 DEF Next

LEMMA HistoryInvariant == Spec => [](TypeInv /\ HistoryInv)
  BY TypeInit, TypeStep, HistoryInit, HistoryStep, PTL DEF Spec

\* The outbox never marks done a job whose handler has not completed, however late
\* a save comes and whatever was recovered, retried or purged meanwhile.
THEOREM DoneIsApplied == Spec => []DoneMeansApplied
  <1>1. HistoryInv => DoneMeansApplied
    BY DEF HistoryInv
  <1> QED
    BY HistoryInvariant, <1>1, PTL

\* No attempt is counted that did not fail: a job with a handler is dead only after
\* MaxAttempts failed runs (retry.py mark_failed, dispatcher.py execute).
THEOREM DeadIsEarned == Spec => []AttemptsAreEarned
  <1>1. TypeInv /\ HistoryInv => AttemptsAreEarned
    BY OutboxAssumption, SMT
       DEF TypeInv, TypeOK, HistoryInv, RowsBacked, SnapshotsBacked, AttemptsAreEarned, Held, Snapshot
  <1> QED
    BY HistoryInvariant, <1>1, PTL

-----------------------------------------------------------------------------
(* Under Punctual a job has one holder.  The claim only takes pending      *)
(* rows, the recovery only rows as old as StaleAfter, the retry only rows  *)
(* listed dead: none of them is held, because a held row is running and    *)
(* young (or purged, and then nothing but its holder can bring it back).   *)

OneHolder == \A k1, k2 \in held : k1.job = k2.job => k1 = k2

HeldIsYoung == \A k \in held : row[k.job].status = "running" => row[k.job].age < StaleAfter

ListedIsDead ==
    \A j \in reopening : row[j].status \in {"dead", "purged"} /\ \A k \in held : k.job # j

HolderInv == OneHolder /\ HolderIsCurrent /\ HeldIsYoung /\ ListedIsDead

LEMMA HolderInit == Init => HolderInv
  BY SMT DEF Init, HolderInv, OneHolder, HolderIsCurrent, HeldIsYoung, ListedIsDead

LEMMA HolderStep ==
  ASSUME Punctual
  PROVE  TypeInv /\ HolderInv /\ [Next]_vars => HolderInv'
  <1> SUFFICES ASSUME TypeInv, HolderInv, [Next]_vars
               PROVE  HolderInv'
    OBVIOUS
  <1> USE OutboxAssumption
  <1> USE DEF TypeInv, TypeOK, HolderInv, OneHolder, HolderIsCurrent, HeldIsYoung, ListedIsDead
  <1>0. /\ \A k \in held : k \in Snapshot /\ k.job \in Jobs
        /\ \A j \in Jobs : row[j].age \in 0..StaleAfter
    BY SMT DEF Snapshot, Row
  <1>1. ASSUME NEW js \in SUBSET Jobs, Commit(js)
        PROVE  HolderInv'
    <2>1. /\ \A j \in js : row[j].status = "none"
          /\ \A j \in Jobs \ js : row'[j] = row[j]
          /\ \A j \in js \cap EagerJobs : row'[j] = RowOf("running", 0, 0)
          /\ held' = held \cup {Queued(j, j, 0) : j \in js \cap EagerJobs}
          /\ UNCHANGED reopening
      BY <1>1 DEF Commit
    <2>2. \A k \in held : k.job \notin js
      BY <1>0, <2>1
    <2>3. \A j \in reopening : j \notin js
      BY <2>1
    <2> QED
      BY <1>0, <2>1, <2>2, <2>3, SMT DEF Queued
  <1>2. ASSUME NEW js \in SUBSET Jobs, ListDead(js)
        PROVE  HolderInv'
    <2>1. reopening' \subseteq Dead /\ UNCHANGED <<row, held>>
      BY <1>2, SMT DEF ListDead
    <2>2. \A j \in Dead : row[j].status = "dead" /\ \A k \in held : k.job # j
      BY <1>0, SMT DEF Dead
    <2> QED
      BY <2>1, <2>2
  <1>3. ASSUME NEW p \in Procs, Claim(p)
        PROVE  HolderInv'
    <2>1. PICK js \in Batch :
            /\ row' = [j \in Jobs |-> IF j \in js THEN RowOf("running", row[j].attempts, 0) ELSE row[j]]
            /\ held' = held \cup {Queued(p, j, row[j].attempts) : j \in js}
      BY <1>3 DEF Claim
    <2>2. js \subseteq Jobs /\ \A j \in js : row[j].status = "pending"
      BY DEF Batch, Due
    <2>3. \A k \in held : k.job \notin js
      BY <1>0, <2>2
    <2>4. (\A j \in reopening : j \notin js) /\ UNCHANGED reopening
      BY <1>3, <2>2 DEF Claim
    <2> QED
      BY <1>0, <2>1, <2>2, <2>3, <2>4, SMT DEF Queued
  <1>4. ASSUME row' = Recovered, UNCHANGED <<held, reopening>>
        PROVE  HolderInv'
    <2>1. \A k \in held : row'[k.job] = row[k.job]
      BY <1>0, <1>4, SMT DEF Recovered, IsStale
    <2>2. \A j \in reopening : row'[j] = row[j]
      BY <1>4, SMT DEF Recovered, IsStale
    <2> QED
      BY <1>4, <2>1, <2>2
  <1>5. ASSUME NEW p \in Procs, Recover(p)
        PROVE  HolderInv'
    BY <1>4, <1>5 DEF Recover
  <1>6. ASSUME NEW p \in Procs, Boot(p)
        PROVE  HolderInv'
    BY <1>4, <1>6 DEF Boot
  <1>7. ASSUME NEW p \in Procs, Crash(p)
        PROVE  HolderInv'
    BY <1>7, SMT DEF Crash
  <1>8. ASSUME NEW k \in held, NEW ph, held' = (held \ {k}) \cup {[k EXCEPT !.phase = ph]},
               UNCHANGED <<row, reopening>>
        PROVE  HolderInv'
    <2>1. /\ [k EXCEPT !.phase = ph].job = k.job
          /\ [k EXCEPT !.phase = ph].attempts = k.attempts
      BY <1>0 DEF Snapshot
    <2> DEFINE r == [k EXCEPT !.phase = ph]
    <2>2. r.job = k.job /\ r.attempts = k.attempts /\ held' = (held \ {k}) \cup {r}
      BY <1>8, <2>1
    <2> HIDE DEF r
    <2> QED
      BY <1>0, <1>8, <2>2
  <1>9. ASSUME NEW k \in held, Start(k) \/ HandlerReturns(k) \/ HandlerRaises(k)
        PROVE  HolderInv'
    BY <1>8, <1>9 DEF Start, HandlerReturns, HandlerRaises
  <1>11. ASSUME NEW k \in held, SaveOutcome(k)
         PROVE  HolderInv'
    <2>1. \A j \in Jobs : j # k.job => row'[j] = row[j]
      BY <1>0, <1>11 DEF SaveOutcome
    <2>2. held' = held \ {k} /\ UNCHANGED reopening
      BY <1>11 DEF SaveOutcome
    <2>3. \A x \in held' : x \in held /\ x.job # k.job
      BY <2>2
    <2>4. k.job \notin reopening
      OBVIOUS
    <2> QED
      BY <1>0, <2>1, <2>2, <2>3, <2>4
  <1>12. ASSUME NEW k \in held, SaveFails(k)
         PROVE  HolderInv'
    BY <1>12, SMT DEF SaveFails
  <1>13. ASSUME NEW j \in Jobs, RetryDead(j)
         PROVE  HolderInv'
    BY <1>0, <1>13, SMT DEF RetryDead
  <1>14. ASSUME NEW j \in Jobs, Purge(j)
         PROVE  HolderInv'
    BY <1>0, <1>14, SMT DEF Purge
  <1>15. ASSUME Tick
         PROVE  HolderInv'
    <2>1. /\ row' = [j \in Jobs |-> Older(row[j])]
          /\ held' = {Longer(k) : k \in held}
          /\ \A k \in held : row[k.job].status = "running" => row[k.job].age + 1 < StaleAfter
          /\ UNCHANGED reopening
      BY <1>15 DEF Tick
    <2>2. \A k \in held : Longer(k).job = k.job /\ Longer(k).attempts = k.attempts
      BY <1>0, SMT DEF Longer, Snapshot
    <2>3. \A j \in Jobs :
            /\ row'[j].status = row[j].status
            /\ row'[j].attempts = row[j].attempts
            /\ row'[j].age = IF row[j].status = "running" /\ row[j].age < StaleAfter
                             THEN row[j].age + 1 ELSE row[j].age
      BY <2>1, OlderType
    <2>4. OneHolder' /\ HolderIsCurrent' /\ ListedIsDead'
      BY <1>0, <2>1, <2>2, <2>3
    <2>5. ASSUME NEW x \in held', row'[x.job].status = "running"
          PROVE  row'[x.job].age < StaleAfter
      <3>1. PICK k \in held : x = Longer(k)
        BY <2>1
      <3>2. x.job = k.job /\ k.job \in Jobs
        BY <1>0, <2>2, <3>1
      <3>3. row[k.job].age + 1 < StaleAfter /\ row[k.job].age \in 0..StaleAfter
        BY <1>0, <2>1, <2>3, <2>5, <3>2
      <3> QED
        BY <2>3, <3>2, <3>3, SMT
    <2> QED
      BY <2>4, <2>5
  <1>16. CASE UNCHANGED vars
    BY <1>16 DEF vars
  <1> QED
    BY <1>1, <1>2, <1>3, <1>5, <1>6, <1>7, <1>9, <1>11, <1>12, <1>13, <1>14,
       <1>15, <1>16 DEF Next

LEMMA HolderInvariant ==
  ASSUME Punctual
  PROVE  Spec => [](TypeInv /\ HistoryInv /\ HolderInv)
  <1>1. TypeInv /\ HolderInv /\ [Next]_vars => HolderInv'
    BY HolderStep
  <1> QED
    BY TypeInit, TypeStep, HistoryInit, HistoryStep, HolderInit, <1>1, PTL DEF Spec

\* If every executor saves before its row is stale, no job is ever held twice: by
\* two workers, or by the eager thread and a worker.
THEOREM SingleHolder ==
  ASSUME Punctual
  PROVE  Spec => []AtMostOneHolder
  <1>1. TypeInv /\ HolderInv => AtMostOneHolder
    <2> SUFFICES ASSUME TypeInv, HolderInv, NEW j \in Jobs
                 PROVE  Cardinality(Held(j)) <= 1
      BY DEF AtMostOneHolder
    <2>1. CASE Held(j) = {}
      BY <2>1, FS_EmptySet, SMT
    <2>2. CASE Held(j) # {}
      <3>1. PICK k : k \in Held(j)
        BY <2>2
      <3>2. Held(j) = {k}
        BY <3>1 DEF Held, HolderInv, OneHolder
      <3> QED
        BY <3>2, FS_Singleton, SMT
    <2> QED
      BY <2>1, <2>2
  <1> QED
    BY HolderInvariant, <1>1, PTL

\* ... and a done job stays done until an operator purges it.
THEOREM DoneStaysDone ==
  ASSUME Punctual
  PROVE  Spec => DoneIsFinal
  <1> DEFINE Kept == \A j \in Jobs : row[j].status = "done" => row'[j].status \in {"done", "purged"}
  <1>1. TypeInv /\ HolderInv /\ [Next]_vars => [Kept]_vars
    <2> SUFFICES ASSUME TypeInv, HolderInv, Next, NEW j \in Jobs, row[j].status = "done"
                 PROVE  row'[j].status \in {"done", "purged"}
      OBVIOUS
    <2> USE DEF TypeInv, TypeOK, HolderInv, HolderIsCurrent, ListedIsDead
    <2>1. \A k \in held : k.job # j
      OBVIOUS
    <2>2. j \notin reopening
      OBVIOUS
    <2>3. CASE \E js \in SUBSET Jobs : Commit(js) \/ ListDead(js)
      BY <2>3 DEF Commit, ListDead
    <2>4. CASE \E p \in Procs : Claim(p) \/ Recover(p) \/ Boot(p) \/ Crash(p)
      BY <2>4 DEF Claim, Batch, Due, Recover, Boot, Recovered, IsStale, Crash
    <2>5. CASE \E k \in held : \/ Start(k) \/ HandlerReturns(k) \/ HandlerRaises(k)
                              \/ SaveOutcome(k) \/ SaveFails(k)
      BY <2>1, <2>5 DEF Start, HandlerReturns, HandlerRaises, SaveOutcome, SaveFails
    <2>6. CASE \E i \in Jobs : RetryDead(i) \/ Purge(i)
      BY <2>2, <2>6 DEF RetryDead, Purge
    <2>7. CASE Tick
      BY <2>7 DEF Tick, Older
    <2> QED
      BY <2>3, <2>4, <2>5, <2>6, <2>7 DEF Next
  <1> QED
    BY HolderInvariant, <1>1, PTL DEF Spec, DoneIsFinal

\* The row of a job in hand is the one its holder read, unless it was purged.
THEOREM HoldersStayCurrent ==
  ASSUME Punctual
  PROVE  Spec => []HolderIsCurrent
  <1>1. HolderInv => HolderIsCurrent
    BY DEF HolderInv
  <1> QED
    BY HolderInvariant, <1>1, PTL

\* No attempt is counted twice and none is forgotten: whoever saves an outcome holds
\* the row as it is, and only rows listed dead are requeued.
THEOREM AttemptsCount ==
  ASSUME Punctual
  PROVE  Spec => AttemptsStepByOne
  <1> DEFINE Stepped ==
        \A j \in Jobs :
            row[j].status \in {"pending", "running"} /\ row'[j].status \in {"pending", "running", "dead"}
                => row'[j].attempts \in {row[j].attempts, row[j].attempts + 1}
  <1>1. TypeInv /\ HolderInv /\ [Next]_vars => [Stepped]_vars
    <2> SUFFICES ASSUME TypeInv, HolderInv, Next, NEW j \in Jobs,
                        row[j].status \in {"pending", "running"},
                        row'[j].status \in {"pending", "running", "dead"}
                 PROVE  row'[j].attempts \in {row[j].attempts, row[j].attempts + 1}
      OBVIOUS
    <2> USE DEF TypeInv, TypeOK, HolderInv, HolderIsCurrent, ListedIsDead
    <2>1. j \notin reopening
      OBVIOUS
    <2>2. CASE \E js \in SUBSET Jobs : Commit(js) \/ ListDead(js)
      BY <2>2 DEF Commit, ListDead
    <2>3. CASE \E p \in Procs : Claim(p) \/ Recover(p) \/ Boot(p) \/ Crash(p)
      <3>1. CASE \E p \in Procs : Claim(p)
        <4>1. PICK js \in Batch :
                row' = [i \in Jobs |-> IF i \in js THEN RowOf("running", row[i].attempts, 0) ELSE row[i]]
          BY <3>1 DEF Claim
        <4> QED
          BY <4>1 DEF RowOf
      <3>2. CASE \E p \in Procs : Recover(p) \/ Boot(p)
        BY <3>2 DEF Recover, Boot, Recovered, RowOf
      <3>3. CASE \E p \in Procs : Crash(p)
        BY <3>3 DEF Crash
      <3> QED
        BY <2>3, <3>1, <3>2, <3>3
    <2>4. ASSUME NEW k \in held, SaveOutcome(k)
          PROVE  row'[j].attempts \in {row[j].attempts, row[j].attempts + 1}
      <3>1. CASE k.job # j
        BY <2>4, <3>1 DEF SaveOutcome
      <3>2. CASE k.job = j
        <4>1. k.attempts = row[j].attempts
          BY <3>2
        <4> QED
          BY <2>4, <3>2, <4>1 DEF SaveOutcome, MarkSucceeded, MarkFailed, RowOf
      <3> QED
        BY <3>1, <3>2
    <2>5. CASE \E k \in held : Start(k) \/ HandlerReturns(k) \/ HandlerRaises(k) \/ SaveFails(k)
      BY <2>5 DEF Start, HandlerReturns, HandlerRaises, SaveFails
    <2>6. CASE \E i \in Jobs : RetryDead(i) \/ Purge(i)
      BY <2>1, <2>6 DEF RetryDead, Purge, RowOf
    <2>7. CASE Tick
      BY <2>7 DEF Tick, Older
    <2> QED
      BY <2>2, <2>3, <2>4, <2>5, <2>6, <2>7 DEF Next
  <1> QED
    BY HolderInvariant, <1>1, PTL DEF Spec, AttemptsStepByOne

-----------------------------------------------------------------------------
(* Retries are spaced by the backoff.  What a pending row still has to     *)
(* wait and the rest it has had make up its backoff; what a snapshot will  *)
(* note when it is saved is no more than the rest of its job.              *)

RestedRows ==
    \A j \in Jobs :
        row[j].attempts > 0 =>
            /\ row[j].status = "running" => rest[j] >= Backoff(row[j].attempts)
            /\ row[j].status = "pending" => row[j].wait + rest[j] >= Backoff(row[j].attempts)

RestedHolders == \A k \in held : k.elapsed <= rest[k.job]

SpacedInv == RestedRows /\ RestedHolders

LEMMA SpacedInit == Init => SpacedInv
  BY OutboxAssumption, SMT DEF Init, SpacedInv, RestedRows, RestedHolders

\* A step that neither saves an outcome nor lets time pass keeps the rest, and what a
\* row owes if it says of each row how it moves.
LEMMA SpacedMove ==
  ASSUME TypeInv, TypeInv', SpacedInv, rest' = rest,
         \A j \in Jobs : \/ row'[j] = row[j]
                         \/ row'[j].status \notin {"pending", "running"}
                         \/ row'[j].attempts = 0
                         \/ /\ row'[j].attempts = row[j].attempts
                            /\ \/ row[j].status = "running"
                               \/ row[j].status = "pending" /\ row[j].wait = 0,
         \A k \in held' : k.elapsed = 0 \/ \E i \in held : i.job = k.job /\ i.elapsed = k.elapsed
  PROVE  SpacedInv'
  <1> USE DEF TypeInv, TypeOK
  <1>1. /\ \A j \in Jobs : /\ row[j].wait \in Nat
                           /\ row'[j].wait \in Nat
                           /\ row[j].attempts \in Nat
                           /\ row'[j].attempts \in Nat
                           /\ rest[j] \in Nat
        /\ \A k \in held' : k.job \in Jobs
    BY OutboxAssumption, SMT DEF Row, Snapshot
  <1>2. \A j \in Jobs : Backoff(row[j].attempts) \in Nat /\ Backoff(row'[j].attempts) \in Nat
    BY <1>1, BackoffType, OutboxAssumption, SMT
  <1>3. RestedRows'
    <2> SUFFICES ASSUME NEW j \in Jobs, row'[j].attempts > 0, row'[j].status \in {"pending", "running"}
                 PROVE  /\ row'[j].status = "running" => rest[j] >= Backoff(row'[j].attempts)
                        /\ row'[j].status = "pending"
                             => row'[j].wait + rest[j] >= Backoff(row'[j].attempts)
      BY DEF RestedRows
    <2>1. CASE row'[j] = row[j]
      BY <2>1 DEF SpacedInv, RestedRows
    <2>2. CASE /\ row'[j].attempts = row[j].attempts
               /\ \/ row[j].status = "running"
                  \/ row[j].status = "pending" /\ row[j].wait = 0
      <3>1. rest[j] >= Backoff(row[j].attempts)
        BY <1>1, <1>2, <2>2, SMT DEF SpacedInv, RestedRows
      <3> QED
        BY <1>1, <1>2, <2>2, <3>1, SMT
    <2> QED
      BY <1>1, <2>1, <2>2, SMT
  <1>4. RestedHolders'
    BY <1>1, SMT DEF SpacedInv, RestedHolders
  <1> QED
    BY <1>3, <1>4 DEF SpacedInv

LEMMA SpacedStep ==
  ASSUME Punctual
  PROVE  TypeInv /\ TypeInv' /\ HolderInv /\ SpacedInv /\ [Next]_vars => SpacedInv'
  <1> SUFFICES ASSUME TypeInv, TypeInv', HolderInv, SpacedInv, [Next]_vars
               PROVE  SpacedInv'
    OBVIOUS
  <1> USE OutboxAssumption
  <1> USE DEF TypeInv, TypeOK
  <1>0. \A k \in held : k \in Snapshot /\ k.job \in Jobs
    BY DEF Snapshot
  <1>1. CASE \E js \in SUBSET Jobs : Commit(js) \/ ListDead(js)
    BY <1>1, SpacedMove, SMT DEF Commit, ListDead, Queued
  <1>2. CASE \E p \in Procs : Claim(p)
    <2>1. PICK p \in Procs : Claim(p)
      BY <1>2
    <2>2. PICK js \in Batch :
            /\ row' = [j \in Jobs |-> IF j \in js THEN RowOf("running", row[j].attempts, 0) ELSE row[j]]
            /\ held' = held \cup {Queued(p, j, row[j].attempts) : j \in js}
      BY <2>1 DEF Claim
    <2>3. \A j \in js : row[j].status = "pending" /\ row[j].wait = 0
      BY DEF Batch, Due
    <2>4. rest' = rest
      BY <2>1 DEF Claim
    <2>5. \A k \in held' : k.elapsed = 0 \/ \E i \in held : i.job = k.job /\ i.elapsed = k.elapsed
      BY <2>2 DEF Queued
    <2>6. \A j \in Jobs : \/ row'[j] = row[j]
                          \/ /\ row'[j].attempts = row[j].attempts
                             /\ row[j].status = "pending" /\ row[j].wait = 0
      BY <2>2, <2>3
    <2> QED
      BY <2>4, <2>5, <2>6, SpacedMove
  <1>3. CASE \E p \in Procs : Recover(p) \/ Boot(p) \/ Crash(p)
    BY <1>3, SpacedMove DEF Recover, Boot, Crash, Recovered, IsStale
  <1>4. CASE \E k \in held : Start(k) \/ HandlerReturns(k) \/ HandlerRaises(k) \/ SaveFails(k)
    <2>1. UNCHANGED <<row, rest>>
      BY <1>4 DEF Start, HandlerReturns, HandlerRaises, SaveFails
    <2>2. PICK k \in held : Start(k) \/ HandlerReturns(k) \/ HandlerRaises(k) \/ SaveFails(k)
      BY <1>4
    <2>3. \/ held' \subseteq held
          \/ \E ph \in Phase : held' = (held \ {k}) \cup {[k EXCEPT !.phase = ph]}
      BY <2>2 DEF Start, HandlerReturns, HandlerRaises, SaveFails, Phase
    <2>4. \A ph \in Phase : [k EXCEPT !.phase = ph].job = k.job /\ [k EXCEPT !.phase = ph].elapsed = k.elapsed
      BY <1>0 DEF Snapshot
    <2>5. ASSUME NEW x \in held'
          PROVE  \E i \in held : i.job = x.job /\ i.elapsed = x.elapsed
      <3>1. CASE x \in held
        BY <3>1
      <3>2. CASE x \notin held
        <4>1. PICK ph \in Phase : x = [k EXCEPT !.phase = ph]
          BY <2>3, <3>2
        <4> QED
          BY <2>4, <4>1
      <3> QED
        BY <3>1, <3>2
    <2> QED
      BY <2>1, <2>5, SpacedMove
  <1>5. ASSUME NEW k \in held, SaveOutcome(k)
        PROVE  SpacedInv'
    <2> DEFINE j == k.job
               new == IF k.phase = "returned" THEN MarkSucceeded(k) ELSE MarkFailed(k)
    <2>1. /\ row' = [row EXCEPT ![j] = new]
          /\ rest' = [rest EXCEPT ![j] = Rest(k)]
          /\ held' = held \ {k}
          /\ k.phase \in {"returned", "raised", "unhandled"}
      BY <1>5 DEF SaveOutcome
    <2>2. /\ j \in Jobs /\ k \in Snapshot
          /\ k.elapsed \in Nat /\ k.elapsed <= rest[j] /\ rest[j] \in Nat
          /\ k.attempts + 1 \in Nat
      BY <1>0, SMT DEF SpacedInv, RestedHolders, Snapshot
    <2>3. \A i \in held' : i.job \in Jobs /\ i.job # j
      BY <1>0, <2>1 DEF HolderInv, OneHolder
    <2>4. RestedHolders'
      BY <2>1, <2>2, <2>3 DEF SpacedInv, RestedHolders
    <2>5. new.status \in {"pending", "running"}
            => /\ new.status = "pending"
               /\ new.wait + Rest(k) >= Backoff(new.attempts)
      <3> SUFFICES ASSUME new.status \in {"pending", "running"}
                   PROVE  new.status = "pending" /\ new.wait + Rest(k) >= Backoff(new.attempts)
        OBVIOUS
      <3>1. k.phase = "raised"
        BY <2>1 DEF MarkSucceeded, MarkFailed
      <3>2. Rest(k) = k.elapsed
        BY <2>2, <3>1, SMT DEF Rest
      <3>3. new = RowOf("pending", k.attempts + 1, Remaining(k.attempts + 1, k.elapsed))
        BY <3>1 DEF MarkFailed
      <3>4. new.status = "pending" /\ new.attempts = k.attempts + 1
              /\ new.wait = Remaining(k.attempts + 1, k.elapsed)
        BY <3>3
      <3>5. Backoff(k.attempts + 1) \in Nat
        BY <2>2, BackoffType, SMT
      <3> HIDE DEF new
      <3>6. Remaining(k.attempts + 1, k.elapsed) + k.elapsed >= Backoff(k.attempts + 1)
        BY <2>2, <3>5, SMT DEF Remaining
      <3> QED
        BY <3>2, <3>4, <3>6
    <2> HIDE DEF new
    <2>6. RestedRows'
      <3> SUFFICES ASSUME NEW i \in Jobs, row'[i].attempts > 0
                   PROVE  /\ row'[i].status = "running" => rest'[i] >= Backoff(row'[i].attempts)
                          /\ row'[i].status = "pending"
                               => row'[i].wait + rest'[i] >= Backoff(row'[i].attempts)
        BY DEF RestedRows
      <3>1. CASE i = j
        <4>1. row'[i] = new /\ rest'[i] = Rest(k)
          BY <2>1, <2>2, <3>1
        <4> QED
          BY <2>5, <4>1
      <3>2. CASE i # j
        <4>1. row'[i] = row[i] /\ rest'[i] = rest[i]
          BY <2>1, <2>2, <3>2
        <4> QED
          BY <4>1 DEF SpacedInv, RestedRows
      <3> QED
        BY <3>1, <3>2
    <2> QED
      BY <2>4, <2>6 DEF SpacedInv
  <1>6. CASE \E j \in Jobs : RetryDead(j) \/ Purge(j)
    BY <1>6, SpacedMove DEF RetryDead, Purge, Requeue
  <1>7. CASE Tick
    <2>1. /\ row' = [j \in Jobs |-> Older(row[j])]
          /\ held' = {Longer(k) : k \in held}
          /\ rest' = [j \in Jobs |-> IF rest[j] < BackoffCap THEN rest[j] + 1 ELSE rest[j]]
      BY <1>7 DEF Tick
    <2>2. RestedHolders'
      <3> SUFFICES ASSUME NEW k \in held
                   PROVE  Longer(k).elapsed <= rest'[Longer(k).job]
        BY <2>1 DEF RestedHolders
      <3>1. /\ Longer(k).job = k.job
            /\ \/ Longer(k).elapsed = k.elapsed
               \/ Longer(k).elapsed = k.elapsed + 1 /\ k.elapsed < BackoffCap
        BY <1>0, SMT DEF Longer, Snapshot
      <3>2. /\ k.job \in Jobs /\ k.elapsed \in 0..BackoffCap /\ rest[k.job] \in 0..BackoffCap
            /\ k.elapsed <= rest[k.job]
        BY <1>0, SMT DEF SpacedInv, RestedHolders, Snapshot
      <3>3. rest'[k.job] = IF rest[k.job] < BackoffCap THEN rest[k.job] + 1 ELSE rest[k.job]
        BY <2>1, <3>2
      <3> QED
        BY <3>1, <3>2, <3>3, SMT
    <2>3. RestedRows'
      <3> SUFFICES ASSUME NEW j \in Jobs, row'[j].attempts > 0
                   PROVE  /\ row'[j].status = "running" => rest'[j] >= Backoff(row'[j].attempts)
                          /\ row'[j].status = "pending"
                               => row'[j].wait + rest'[j] >= Backoff(row'[j].attempts)
        BY DEF RestedRows
      <3>1. /\ row'[j].status = row[j].status /\ row'[j].attempts = row[j].attempts
            /\ row'[j].wait = IF row[j].wait > 0 THEN row[j].wait - 1 ELSE 0
        BY <2>1 DEF Older
      <3>2. /\ row[j].attempts \in Nat /\ row[j].wait \in 0..BackoffCap /\ rest[j] \in 0..BackoffCap
        BY SMT DEF Row
      <3>3. Backoff(row[j].attempts) \in 0..BackoffCap
        BY <3>2, BackoffType
      <3>4. rest'[j] = IF rest[j] < BackoffCap THEN rest[j] + 1 ELSE rest[j]
        BY <2>1
      <3>5. /\ row[j].status = "running" => rest[j] >= Backoff(row[j].attempts)
            /\ row[j].status = "pending" => row[j].wait + rest[j] >= Backoff(row[j].attempts)
        BY <3>1 DEF SpacedInv, RestedRows
      <3> DEFINE b == Backoff(row[j].attempts)
      <3> HIDE DEF b
      <3>6. b \in 0..BackoffCap /\ (row[j].status = "running" => rest[j] >= b)
              /\ (row[j].status = "pending" => row[j].wait + rest[j] >= b)
        BY <3>3, <3>5 DEF b
      <3>7. /\ row'[j].status = "running" => rest'[j] >= b
            /\ row'[j].status = "pending" => row'[j].wait + rest'[j] >= b
        BY <3>1, <3>2, <3>4, <3>6, SMT
      <3> QED
        BY <3>1, <3>7 DEF b
    <2> QED
      BY <2>2, <2>3 DEF SpacedInv
  <1>8. CASE UNCHANGED vars
    BY <1>8, SpacedMove DEF vars
  <1> QED
    BY <1>1, <1>2, <1>3, <1>4, <1>5, <1>6, <1>7, <1>8 DEF Next

\* No job runs again sooner than its backoff after the failed attempt had begun,
\* whatever crashes, recoveries and operators did to it meanwhile.
THEOREM RetriesStaySpaced ==
  ASSUME Punctual
  PROVE  Spec => []RetriesAreSpaced
  <1>1. TypeInv /\ TypeInv' /\ HolderInv /\ SpacedInv /\ [Next]_vars => SpacedInv'
    BY SpacedStep
  <1>2. SpacedInv => RetriesAreSpaced
    BY DEF SpacedInv, RestedRows, RetriesAreSpaced
  <1> QED
    BY HolderInvariant, SpacedInit, <1>1, <1>2, PTL DEF Spec

-----------------------------------------------------------------------------
(* The outbox implements SyncIntent.                                       *)

LEMMA IntentValues ==
  /\ IntentOf("none") = "absent"
  /\ IntentOf("pending") = "open"
  /\ IntentOf("running") = "open"
  /\ IntentOf("done") = "settled"
  /\ IntentOf("dead") = "abandoned"
  /\ IntentOf("purged") = "dropped"
  BY DEF IntentOf

\* A step that keeps every row's intent and the effects is a stutter.
LEMMA IntentStutter ==
  ASSUME \A j \in Jobs : IntentOf(row'[j].status) = IntentOf(row[j].status), applied' = applied
  PROVE  UNCHANGED <<intents, applied>>
  BY DEF intents

LEMMA IntentStep ==
  ASSUME TypeInv, HistoryInv, HolderInv, Next
  PROVE  Intents!Next \/ UNCHANGED <<intents, applied>>
  <1> USE OutboxAssumption
  <1> USE DEF TypeInv, TypeOK
  <1>0. /\ \A k \in held : k \in Snapshot /\ k.job \in Jobs
        /\ \A j \in Jobs : intents[j] = IntentOf(row[j].status)
        /\ \A k \in held : intents[k.job] \in {"open", "dropped"}
    BY IntentValues DEF Snapshot, HolderInv, HolderIsCurrent, intents
  <1>1. ASSUME NEW js \in SUBSET Jobs, Commit(js)
        PROVE  Intents!Next
    <2>1. intents' = [j \in Jobs |-> IF j \in js THEN "open" ELSE intents[j]]
      BY <1>1, IntentValues DEF Commit, intents
    <2>2. Intents!Record(js)
      BY <1>0, <1>1, <2>1, IntentValues DEF Commit, Intents!Record
    <2> QED
      BY <2>2 DEF Intents!Next
  <1>2. ASSUME NEW js \in SUBSET Jobs, ListDead(js)
        PROVE  UNCHANGED <<intents, applied>>
    BY <1>2 DEF ListDead, intents
  <1>3. ASSUME NEW p \in Procs, Claim(p)
        PROVE  UNCHANGED <<intents, applied>>
    <2>1. \A j \in Jobs :
            \/ row'[j].status = row[j].status
            \/ row[j].status = "pending" /\ row'[j].status = "running"
      BY <1>3 DEF Claim, Batch, Due
    <2> QED
      BY <1>3, <2>1, IntentValues, IntentStutter DEF Claim
  <1>4. ASSUME NEW p \in Procs, Recover(p) \/ Boot(p)
        PROVE  UNCHANGED <<intents, applied>>
    <2>1. \A j \in Jobs :
            \/ row'[j].status = row[j].status
            \/ row[j].status = "running" /\ row'[j].status = "pending"
      BY <1>4 DEF Recover, Boot, Recovered, IsStale
    <2> QED
      BY <1>4, <2>1, IntentValues, IntentStutter DEF Recover, Boot
  <1>5. ASSUME NEW p \in Procs, Crash(p)
        PROVE  UNCHANGED <<intents, applied>>
    BY <1>5 DEF Crash, intents
  <1>6. ASSUME NEW k \in held, Start(k) \/ HandlerRaises(k) \/ SaveFails(k)
        PROVE  UNCHANGED <<intents, applied>>
    BY <1>6 DEF Start, HandlerRaises, SaveFails, intents
  <1>7. ASSUME NEW k \in held, HandlerReturns(k)
        PROVE  Intents!Next
    <2>1. Intents!Apply(k.job)
      BY <1>0, <1>7 DEF HandlerReturns, Intents!Apply, intents
    <2> QED
      BY <1>0, <2>1 DEF Intents!Next
  <1>8. ASSUME NEW k \in held, SaveOutcome(k)
        PROVE  Intents!Next
    <2> DEFINE new == IF k.phase = "returned" THEN MarkSucceeded(k) ELSE MarkFailed(k)
    <2>1. /\ row' = [row EXCEPT ![k.job] = new]
          /\ k.phase \in {"returned", "raised", "unhandled"}
          /\ applied' = applied
      BY <1>8 DEF SaveOutcome
    <2>2. new.status \in {"pending", "dead", "done"} /\ (new.status = "done" => k.job \in applied)
      BY <1>0, MarkFailedType, MarkSucceededType DEF HistoryInv, SnapshotsBacked
    <2> HIDE DEF new
    <2>3. /\ IntentOf(new.status) \in {"open", "settled", "abandoned"}
          /\ IntentOf(new.status) = "settled" => k.job \in applied
      BY <2>2, IntentValues
    <2>4. intents' = [intents EXCEPT ![k.job] = IntentOf(new.status)]
      BY <1>0, <2>1 DEF intents
    <2>5. Intents!Conclude(k.job, IntentOf(new.status))
      BY <1>0, <2>1, <2>3, <2>4 DEF Intents!Conclude
    <2> QED
      BY <1>0, <2>3, <2>5 DEF Intents!Next, Intents!IntentStatus
  <1>9. ASSUME NEW j \in Jobs, RetryDead(j)
        PROVE  Intents!Next
    <2>1. row[j].status \in {"dead", "purged"}
      BY <1>9 DEF RetryDead, HolderInv, ListedIsDead
    <2>2. intents' = [intents EXCEPT ![j] = "open"] /\ applied' = applied
      BY <1>9, IntentValues DEF RetryDead, Requeue, RowOf, intents
    <2>3. Intents!Reopen(j)
      BY <1>0, <2>1, <2>2, IntentValues DEF Intents!Reopen
    <2> QED
      BY <2>3 DEF Intents!Next
  <1>10. ASSUME NEW j \in Jobs, Purge(j)
         PROVE  Intents!Next
    <2>1. intents' = [intents EXCEPT ![j] = "dropped"] /\ applied' = applied
      BY <1>10, IntentValues DEF Purge, RowOf, intents
    <2>2. row[j].status \in {"pending", "running", "done", "dead"}
      BY <1>10 DEF Purge, Row, Status
    <2>3. Intents!Drop(j)
      BY <1>0, <2>1, <2>2, IntentValues DEF Intents!Drop
    <2> QED
      BY <2>3 DEF Intents!Next
  <1>11. ASSUME Tick
         PROVE  UNCHANGED <<intents, applied>>
    BY <1>11 DEF Tick, Older, intents
  <1> QED
    BY <1>1, <1>2, <1>3, <1>4, <1>5, <1>6, <1>7, <1>8, <1>9, <1>10, <1>11 DEF Next

\* The outbox keeps its promise: an intent committed with a memory stays open until
\* it is settled, is settled only after its effect, and only an operator reopens or
\* drops it.
THEOREM OutboxImplementsIntent ==
  ASSUME Punctual
  PROVE  Spec => ImplementsSyncIntent
  <1>1. Init => Intents!Init
    BY IntentValues DEF Init, Intents!Init, intents
  <1>2. TypeInv /\ HistoryInv /\ HolderInv /\ [Next]_vars
          => [Intents!Next]_<<intents, applied>>
    BY IntentStep DEF vars, intents
  <1> QED
    BY HolderInvariant, <1>1, <1>2, PTL
       DEF Spec, ImplementsSyncIntent, Intents!Spec, Intents!intentVars
=============================================================================
