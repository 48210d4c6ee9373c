----------------------------- MODULE SyncOutbox -----------------------------
(***************************************************************************)
(* The transactional outbox of Aftermind: the sync_jobs table, the         *)
(* dispatcher that records and executes jobs (core/sync/dispatcher.py),    *)
(* the retry policy (core/sync/retry.py), the worker loop                  *)
(* (core/sync/worker.py) and the processes that run them (the API and the  *)
(* `aftermind worker` / `aftermind sync` commands).                        *)
(*                                                                         *)
(* Two things are kept apart that the code also keeps apart: the row of a  *)
(* job in SQLite, and the SyncJob snapshots that threads carry.  A thread  *)
(* computes the row it saves from its snapshot, never from the row.        *)
(*                                                                         *)
(* Time is relative: a row counts down to next_attempt_at (wait) and up    *)
(* from updated_at (age), an execution counts up from the `now` it took    *)
(* before calling the handler (elapsed); all saturate.                     *)
(***************************************************************************)
EXTENDS Integers, FiniteSets

CONSTANTS
    Jobs,         \* the sync jobs that may be enqueued
    Procs,        \* the processes that may host a worker loop
    Api,          \* the process that serves requests
    WorkerOn,     \* the processes whose worker loop is enabled
    EagerJobs,    \* the jobs enqueued while sync_mode is "eager", else "background"
    Unhandled,    \* the jobs whose kind has no registered handler
    MaxAttempts,  \* max_attempts of every job
    BackoffCap,   \* BACKOFF_MAX_SECONDS, in ticks
    StaleAfter,   \* stale_running_seconds, in ticks
    BatchSize,    \* the limit of claim_due
    MaxFaults,    \* bound on crashes and failed saves
    MaxReopens,   \* bound on the operator's retry commands
    Punctual      \* TRUE: an assumption on handlers, see Tick

ASSUME OutboxAssumption ==
    /\ Api \in Procs
    /\ WorkerOn \subseteq Procs
    /\ Procs \cap Jobs = {}
    /\ EagerJobs \subseteq Jobs
    /\ Punctual \in BOOLEAN
    /\ Unhandled \subseteq Jobs
    /\ MaxAttempts \in Nat \ {0}
    /\ BackoffCap \in Nat \ {0}
    /\ StaleAfter \in Nat \ {0}
    /\ BatchSize \in Nat \ {0}
    /\ MaxFaults \in Nat
    /\ MaxReopens \in Nat

VARIABLES
    row,        \* the sync_jobs table
    held,       \* the snapshots threads hold, queued or being executed
    up,         \* the processes that run
    reopening,  \* the dead jobs a retry command has listed and not yet saved
    applied,    \* history: the jobs a handler has completed
    failures,   \* history: failed attempts of each job (saturating)
    rest,       \* history: time since the last attempt to start among those saved as failed
    faults,     \* crashes and failed saves so far
    reopens     \* retry commands so far

vars == <<row, held, up, reopening, applied, failures, rest, faults, reopens>>

\* A worker loop is named after its process, the eager thread of a job after the job.
Threads == Procs \cup Jobs

Status == {"none", "pending", "running", "done", "dead", "purged"}
Row == [status : Status, attempts : 0..MaxAttempts, wait : 0..BackoffCap, age : 0..StaleAfter]
Phase == {"queued", "handling", "returned", "raised", "unhandled"}
Snapshot == [holder : Threads, job : Jobs, attempts : 0..(MaxAttempts - 1),
             phase : Phase, elapsed : 0..BackoffCap]

\* A snapshot handed to a thread.
Queued(t, j, n) == [holder |-> t, job |-> j, attempts |-> n, phase |-> "queued", elapsed |-> 0]

RowOf(s, n, w) == [status |-> s, attempts |-> n, wait |-> w, age |-> 0]

TypeOK ==
    /\ row \in [Jobs -> Row]
    /\ held \subseteq Snapshot
    /\ up \subseteq Procs
    /\ reopening \subseteq Jobs
    /\ applied \subseteq Jobs
    /\ failures \in [Jobs -> 0..MaxAttempts]
    /\ rest \in [Jobs -> 0..BackoffCap]
    /\ faults \in 0..MaxFaults
    /\ reopens \in 0..MaxReopens

Init ==
    /\ row = [j \in Jobs |-> RowOf("none", 0, 0)]
    /\ held = {}
    /\ up = {}
    /\ reopening = {}
    /\ applied = {}
    /\ failures = [j \in Jobs |-> 0]
    /\ rest = [j \in Jobs |-> BackoffCap]
    /\ faults = 0
    /\ reopens = 0

-----------------------------------------------------------------------------
\* The retry policy.

\* min(cap, base * 2 ** (attempts - 1)); base is one tick.
Backoff(n) ==
    LET doubled == 2 ^ (n - 1)
    IN  IF doubled \in 0..BackoffCap THEN doubled ELSE BackoffCap

\* Slip: the backoff of the attempts before this one.
RemainingOfBefore(n, elapsed) ==
    LET wait == Backoff(IF n > 1 THEN n - 1 ELSE 1)
    IN  IF wait > elapsed THEN wait - elapsed ELSE 0

\* next_attempt_at is the start of the attempt plus the backoff; what is left of
\* it when the attempt ends.
Remaining(n, elapsed) == IF Backoff(n) > elapsed THEN Backoff(n) - elapsed ELSE 0

\* mark_failed: one more attempt counted, dead at the limit, else due after backoff.
MarkFailed(k) ==
    IF k.phase = "unhandled" \/ k.attempts + 1 >= MaxAttempts
    THEN RowOf("dead", k.attempts + 1, 0)
    ELSE RowOf("pending", k.attempts + 1, Remaining(k.attempts + 1, k.elapsed))

MarkSucceeded(k) == RowOf("done", k.attempts + 1, 0)

\* requeue: pending again, due now, attempts reset.
Requeue == RowOf("pending", 0, 0)

-----------------------------------------------------------------------------
\* Requests: enqueue in the caller's transaction, then flush.

\* Slip: the row of an eager job is born pending, for the worker to see.
CommitBornPending(js) ==
    /\ Api \in up
    /\ js # {}
    /\ js \subseteq EagerJobs \/ js \cap EagerJobs = {}
    /\ \A j \in js : row[j].status = "none"
    /\ row' = [j \in Jobs |-> IF j \in js THEN RowOf("pending", 0, 0) ELSE row[j]]
    /\ held' = held \cup {Queued(j, j, 0) : j \in js \cap EagerJobs}
    /\ UNCHANGED <<up, reopening, applied, failures, rest, faults, reopens>>

\* observe commits its memory and its jobs in one transaction.  In eager mode the
\* rows are born running and the request thread goes on to flush them, each on a
\* thread of its own; in background mode flush leaves them to the worker.
Commit(js) ==
    /\ Api \in up
    /\ js # {}
    /\ js \subseteq EagerJobs \/ js \cap EagerJobs = {}
    /\ \A j \in js : row[j].status = "none"
    /\ row' = [j \in Jobs |-> IF j \in js
                              THEN RowOf(IF j \in EagerJobs THEN "running" ELSE "pending", 0, 0)
                              ELSE row[j]]
    /\ held' = held \cup {Queued(j, j, 0) : j \in js \cap EagerJobs}
    /\ UNCHANGED <<up, reopening, applied, failures, rest, faults, reopens>>

-----------------------------------------------------------------------------
\* The worker loop of process p.

Idle(p) == \A k \in held : k.holder # p

Due == {j \in Jobs : row[j].status = "pending" /\ row[j].wait = 0}

\* claim_due picks up to BatchSize due rows; rows due equally long are not ordered.
Batch == {js \in SUBSET Due : Cardinality(js) = IF Cardinality(Due) < BatchSize
                                                THEN Cardinality(Due) ELSE BatchSize}

\* claim_due: the batch goes from pending to running and is handed to p.
Claim(p) ==
    /\ p \in up \cap WorkerOn
    /\ Idle(p)
    /\ Due # {}
    /\ \E js \in Batch :
        /\ row' = [j \in Jobs |-> IF j \in js THEN RowOf("running", row[j].attempts, 0) ELSE row[j]]
        /\ held' = held \cup {Queued(p, j, row[j].attempts) : j \in js}
    /\ UNCHANGED <<up, reopening, applied, failures, rest, faults, reopens>>

\* Slip: recovery takes every running row, however young.
IsRunning(j) == row[j].status = "running"

IsStale(j) == row[j].status = "running" /\ row[j].age = StaleAfter

\* Slip: recovery counts the lost run as an attempt.
RecoveredCounting ==
    [j \in Jobs |-> IF IsStale(j) THEN RowOf("pending", row[j].attempts + 1, 0) ELSE row[j]]

\* recover_running: every row running for StaleAfter goes back to pending, its
\* attempts as they were, whoever may still be holding it.
Recovered == [j \in Jobs |-> IF IsStale(j) THEN RowOf("pending", row[j].attempts, 0) ELSE row[j]]

\* Slip: the loop recovers only when its process starts.
RecoverAtBootOnly(p) == p \notin Procs /\ UNCHANGED vars

\* run_forever and `sync run` recover between batches.
Recover(p) ==
    /\ p \in up \cap WorkerOn
    /\ Idle(p)
    /\ \E j \in Jobs : IsStale(j)
    /\ row' = Recovered
    /\ UNCHANGED <<held, up, reopening, applied, failures, rest, faults, reopens>>

-----------------------------------------------------------------------------
\* execute: shared by the eager threads and the worker loops.

\* A thread begins its next snapshot; a worker executes its batch one job at a
\* time.  The time of the attempt is taken here, before the handler runs.
Start(k) ==
    /\ k \in held
    /\ k.phase = "queued"
    /\ \A other \in held : other.holder = k.holder => other.phase = "queued"
    /\ held' = (held \ {k}) \cup
               {[k EXCEPT !.phase = IF k.job \in Unhandled THEN "unhandled" ELSE "handling"]}
    /\ UNCHANGED <<row, up, reopening, applied, failures, rest, faults, reopens>>

HandlerReturns(k) ==
    /\ k \in held
    /\ k.phase = "handling"
    /\ held' = (held \ {k}) \cup {[k EXCEPT !.phase = "returned"]}
    /\ applied' = applied \cup {k.job}
    /\ UNCHANGED <<row, up, reopening, failures, rest, faults, reopens>>

HandlerRaises(k) ==
    /\ k \in held
    /\ k.phase = "handling"
    /\ held' = (held \ {k}) \cup {[k EXCEPT !.phase = "raised"]}
    /\ failures' = [failures EXCEPT ![k.job] = IF @ < MaxAttempts THEN @ + 1 ELSE @]
    /\ UNCHANGED <<rest, row, up, reopening, applied, faults, reopens>>

\* Slip: the outcome is saved as done without a look at the span.
SaveAlwaysDone(k) ==
    /\ k \in held
    /\ k.phase \in {"returned", "raised", "unhandled"}
    /\ row' = [row EXCEPT ![k.job] = MarkSucceeded(k)]
    /\ held' = held \ {k}
    /\ UNCHANGED <<up, reopening, applied, failures, rest, faults, reopens>>

\* History: when the latest of the failed attempts saved so far has begun.
Rest(k) == IF k.phase = "raised" /\ k.elapsed < rest[k.job] THEN k.elapsed ELSE rest[k.job]

\* The outcome is an upsert of the columns computed from the snapshot: it
\* overwrites whatever the row has become, and re-inserts a deleted row.
SaveOutcome(k) ==
    /\ k \in held
    /\ k.phase \in {"returned", "raised", "unhandled"}
    /\ row' = [row EXCEPT ![k.job] = IF k.phase = "returned" THEN MarkSucceeded(k) ELSE MarkFailed(k)]
    /\ held' = held \ {k}
    /\ rest' = [rest EXCEPT ![k.job] = Rest(k)]
    /\ UNCHANGED <<up, reopening, applied, failures, faults, reopens>>

\* The save raises: an eager thread dies, a worker abandons the rest of its batch.
SaveFails(k) ==
    /\ faults < MaxFaults
    /\ k \in held
    /\ k.phase \in {"returned", "raised", "unhandled"}
    /\ held' = {other \in held : other.holder # k.holder}
    /\ faults' = faults + 1
    /\ UNCHANGED <<row, up, reopening, applied, failures, rest, reopens>>

-----------------------------------------------------------------------------
\* Processes.

\* Every start recovers first: the API's lifespan even when its worker is off.
Boot(p) ==
    /\ p \notin up
    /\ p \in WorkerOn \cup {Api}
    /\ up' = up \cup {p}
    /\ row' = Recovered
    /\ UNCHANGED <<held, reopening, applied, failures, rest, faults, reopens>>

\* The threads that die with process p: its worker loop, and the request and
\* eager threads when p is the API.
Hosted(p) == {p} \cup (IF p = Api THEN Jobs ELSE {})

\* A crash, or a stop: worker threads are daemons and stop() waits only so long.
Crash(p) ==
    /\ faults < MaxFaults
    /\ p \in up
    /\ up' = up \ {p}
    /\ held' = {k \in held : k.holder \notin Hosted(p)}
    /\ faults' = faults + 1
    /\ UNCHANGED <<row, reopening, applied, failures, rest, reopens>>

-----------------------------------------------------------------------------
\* The operator: `aftermind sync retry [ID]`, `aftermind memory audit --purge`.

Dead == {j \in Jobs : row[j].status = "dead"}

\* retry_dead reads the dead jobs, all of them or one ...
ListDead(js) ==
    /\ reopens < MaxReopens
    /\ reopening = {}
    /\ js # {}
    /\ js = Dead \/ \E j \in Dead : js = {j}
    /\ reopening' = js
    /\ reopens' = reopens + 1
    /\ UNCHANGED <<row, held, up, applied, failures, rest, faults>>

\* ... and saves each requeued, without looking at its row again.
RetryDead(j) ==
    /\ j \in reopening
    /\ row' = [row EXCEPT ![j] = Requeue]
    /\ reopening' = reopening \ {j}
    /\ UNCHANGED <<held, up, applied, failures, rest, faults, reopens>>

\* The purge deletes the jobs of a rejected memory with the memory.
Purge(j) ==
    /\ row[j].status \notin {"none", "purged"}
    /\ row' = [row EXCEPT ![j] = RowOf("purged", 0, 0)]
    /\ UNCHANGED <<held, up, reopening, applied, failures, rest, faults, reopens>>

-----------------------------------------------------------------------------
\* Time.

Held(j) == {k \in held : k.job = j}

Older(r) ==
    [status   |-> r.status,
     attempts |-> r.attempts,
     wait     |-> IF r.wait > 0 THEN r.wait - 1 ELSE 0,
     age      |-> IF r.status = "running" /\ r.age < StaleAfter THEN r.age + 1 ELSE r.age]

Longer(k) ==
    [k EXCEPT !.elapsed = IF k.phase # "queued" /\ @ < BackoffCap THEN @ + 1 ELSE @]

\* One tick.  Under Punctual no held job gets as old as StaleAfter: every
\* executor has saved its outcome by then.  The code enforces no such bound.
Tick ==
    /\ Punctual => \A k \in held : row[k.job].status = "running" => row[k.job].age + 1 < StaleAfter
    /\ row' = [j \in Jobs |-> Older(row[j])]
    /\ held' = {Longer(k) : k \in held}
    /\ rest' = [j \in Jobs |-> IF rest[j] < BackoffCap THEN rest[j] + 1 ELSE rest[j]]
    /\ <<row', held', rest'>> # <<row, held, rest>>
    /\ UNCHANGED <<up, reopening, applied, failures, faults, reopens>>

-----------------------------------------------------------------------------
Next ==
    \/ \E js \in SUBSET Jobs : Commit(js) \/ ListDead(js)
    \/ \E p \in Procs : Claim(p) \/ Recover(p) \/ Boot(p) \/ Crash(p)
    \/ \E k \in held :
        \/ Start(k)
        \/ HandlerReturns(k)
        \/ HandlerRaises(k)
        \/ SaveOutcome(k)
        \/ SaveFails(k)
    \/ \E j \in Jobs : RetryDead(j) \/ Purge(j)
    \/ Tick

Spec == Init /\ [][Next]_vars

\* The scheduling the code relies on: processes are restarted, threads keep running
\* and handlers end (each bounds its network calls), the clock advances.  Requests,
\* crashes, failed saves and operators owe nothing.
Fairness ==
    /\ WF_vars(Tick)
    /\ \A p \in Procs : WF_vars(Boot(p)) /\ WF_vars(Claim(p)) /\ WF_vars(Recover(p))
    /\ \A t \in Threads :
        /\ WF_vars(\E k \in held : k.holder = t /\ Start(k))
        /\ WF_vars(\E k \in held : k.holder = t /\ (HandlerReturns(k) \/ HandlerRaises(k)))
        /\ WF_vars(\E k \in held : k.holder = t /\ SaveOutcome(k))

FairSpec == Spec /\ Fairness

-----------------------------------------------------------------------------
\* Properties of the outbox whatever the handlers' timing.

\* A job is marked done only if its handler completed: no interleaving of crashes,
\* recoveries, late saves and retries makes the outbox forget a propagation.
DoneMeansApplied == \A j \in Jobs : row[j].status = "done" => j \in applied

\* Every counted attempt is a real one: the attempts on a row, and on a snapshot a
\* thread carries, never exceed the failed runs of the handler, so a job with a
\* handler is dead only after MaxAttempts of them.
AttemptsAreEarned ==
    \A j \in Jobs \ Unhandled :
        /\ row[j].status \in {"pending", "running", "dead"} => row[j].attempts <= failures[j]
        /\ \A k \in Held(j) : k.attempts <= failures[j]
        /\ row[j].status = "dead" => failures[j] = MaxAttempts

\* A job that will be tried again has an attempt left, in the row and in hand.
RetriesHaveBudget ==
    \A j \in Jobs : row[j].status \in {"pending", "running"} => row[j].attempts < MaxAttempts

\* A committed intent is never stranded: whatever crashes, hangs past StaleAfter or
\* is saved late, its job ends done, dead or purged.
EventuallySettled ==
    \A j \in Jobs : row[j].status \in {"pending", "running"} ~>
                    row[j].status \in {"done", "dead", "purged"}

-----------------------------------------------------------------------------
\* Properties that rest on the assumption Punctual.

\* At most one thread holds a job: the claim, the eager row born running and the
\* recovery of orphans together hand it to exactly one.
AtMostOneHolder == \A j \in Jobs : Cardinality(Held(j)) <= 1

\* The row of a held job is still the one its holder read, or was purged.
HolderIsCurrent ==
    \A k \in held : \/ row[k.job].status = "running" /\ row[k.job].attempts = k.attempts
                    \/ row[k.job].status = "purged"

\* A job that runs again does so no sooner than the backoff of its attempts after the
\* last attempt that was saved as failed had begun, whether it was claimed, abandoned
\* by a crash and recovered, or claimed by another process since.
RetriesAreSpaced ==
    \A j \in Jobs : row[j].status = "running" /\ row[j].attempts > 0
                       => rest[j] >= Backoff(row[j].attempts)

\* A done job stays done until it is purged: nothing sends it round again.
DoneIsFinal ==
    [][\A j \in Jobs : row[j].status = "done" => row'[j].status \in {"done", "purged"}]_vars

\* The attempt counter of a job moves one at a time, and back to zero only when an
\* operator retries it: no attempt is counted twice and none is forgotten.
AttemptsStepByOne ==
    [][\A j \in Jobs :
        row[j].status \in {"pending", "running"} /\ row'[j].status \in {"pending", "running", "dead"}
            => row'[j].attempts \in {row[j].attempts, row[j].attempts + 1}]_vars

\* The intent a row stands for.
IntentOf(s) ==
    CASE s = "none" -> "absent"
      [] s \in {"pending", "running"} -> "open"
      [] s = "done" -> "settled"
      [] s = "dead" -> "abandoned"
      [] s = "purged" -> "dropped"

intents == [j \in Jobs |-> IntentOf(row[j].status)]

Intents == INSTANCE SyncIntent WITH intent <- intents, effect <- applied

\* The outbox keeps the promise of SyncIntent (sync_job.py: a durable, retryable
\* record rather than a silent gap): open is pending or running.
ImplementsSyncIntent == Intents!Spec
=============================================================================
