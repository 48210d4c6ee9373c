# Aftermind in TLA+

Aftermind is a memory layer for coding agents: it extracts candidate memories
from what an agent says and does, decides with a language model what to learn,
keeps the result in SQLite as versioned history, derives a graph and markdown
pages from it, and gives it back in recalls and in checkpoints. This directory
holds TLA+ modules of the parts whose correctness depends on the order in which
threads, processes and failures interleave, TLC configurations that check them
on small instances, and TLAPS proofs that the most important properties hold
for every instance.

Contents: [inventory](#inventory) ·
[modules and code](#modules-and-code) · [runs](#runs) ·
[fairness](#fairness) · [proofs](#proofs) ·
[disagreements found](#disagreements-found) ·
[what is not modelled](#what-is-not-modelled) · [plan](#plan)

To check a run: `tlc -config SyncOutboxPunctual.cfg SyncOutboxMC`. To check the
proofs of a module: `tlapm SyncOutboxProofs.tla`. `PROJECT.json` lists the runs,
the mutants that show each property can fail, the source lines behind each
definition, and the hazards the properties are for.

## Inventory

Paths are relative to the repository. The processes are the API
(`apps/api`, one thread per request, and optionally a worker thread), any number
of `aftermind worker` and other commands (`apps/cli.py`), and the hooks of the
agents' plugins. They share one SQLite database in WAL mode. A transaction is
`BEGIN IMMEDIATE`, so that two of them never overlap; a store method called
outside a unit of work is a transaction of its own. Everything below that is
hard comes from work that spans several transactions.

| component | state | operations | what makes it hard | what must hold |
|---|---|---|---|---|
| Sync outbox: `core/sync`, `providers/sqlite/sync_job_store.py` | `sync_jobs` rows; snapshots in threads | enqueue, flush (eager threads), claim, execute, save outcome, recover, retry, purge | crashes between any two steps, slow handlers, saves computed from old snapshots | done means applied; one executor per job; attempts and backoff counted right; every job settles |
| Reconciliation: `core/facade.py`, `core/reconciliation` | `memories`, `lifecycle`, `sync_jobs` as one transaction leaves them | retrieve evidence, ask the model, validate, apply; purge | evidence and decision are made outside the transaction that applies them | no candidate lost, history kept, chains end, scopes apart, superseded memories retired |
| Graph projection: `core/facade.py` handlers, `providers/graphiti` | live and historical edges | graph sync, graph mark-stale, triple by triple | jobs of one memory in any order, beside each other, broken halfway and retried; they re-read the memory, and ask a model that may answer nothing; scope keys that give one group | graph catches up; no edge lost; superseded facts become historical |
| Lifecycle: `core/lifecycle` | a record per memory: status, uses, last access | create, reinforce, decay, archive, hygiene sweep, purge | recalls and sweeps save changed copies of records read earlier | retired only for disuse; comes back only through an overlap; unused memories retire in the end |
| Checkpoints: `core/checkpoints`, `core/facade.py`, Hermes plugin | append-only versions per scope; the plugin's pending turn | summarise a session, create from fields, create on a milestone | the previous checkpoint is read up to twice before the save, around a model call | no turn twice; newer than all it could see; nothing it saw forgotten |
| Preferences: `core/preferences` | preference rows, evidence buffer | append evidence, infer, reinforce, supersede | buffer cleared after a model call; supersession in two transactions | one active preference per dimension; no evidence dropped unread |
| Consolidation and documents: `core/consolidation`, `providers/openknowledge` | pages with sections, sources and a version, in files or on a server | cluster, consolidate, re-derive stale pages | read-modify-write of a page around model calls; a write that empties the file first; scope keys that give one directory | sections keep their sources; scopes apart; nothing dropped but by an overlap |
| Recall: `core/recall` | none | route, search, leave out, rank | each search, status and access is a transaction of its own; the vector store and the graph may fail; memories are revised, superseded, archived and purged meanwhile | nothing retired, nothing twice, nothing missing |
| Formation and admission: `core/formation` | none | gate, extract, review, classify; audit | one gate applied in four places with different arguments; the audit deletes later what it listed | the audit refuses nothing that was admitted |
| OAuth tokens: `providers/llm/*_oauth.py`, `token_store.py` | a JSON file of token pairs; the files of other tools | look, refresh, save | every refresh spends the token it is made with; several threads and processes share one file and its temporary path | whoever has logged in stays logged in |
| Trace log: `core/observability` | spans of a trace, statuses of an operation | begin, annotate, end, fail | handlers that end after the report | the report of an operation is true |
| Setup: `apps/setup`, `apps/cli.py` | `.env`, a container and its volume, pid files, an agent's settings | `init`, `up`, `down`, `connect` | commands interrupted or at once; docker away; pids used again; servers slow | what `up` starts `down` finds; one password; a second `up` changes nothing; what others have in the settings is kept |
| SQLite client: `providers/sqlite/client.py` | a connection per thread | unit of work | nested use | all or nothing |
| API and command line: `apps` | none of their own | start, stop, thin calls | start and stop around a running worker | start recovers what a dead process left |
| Plugins: `integrations` | Hermes: pending turn | hooks | hooks follow each other while a post is in flight | best effort, never twice |
| Embeddings, language model adapters, explorer, SDK | a vector per memory; none otherwise | calls to services | vectors outlive their memories | a purged memory is not found |

How they interact: `observe()` admits a text, reconciles each candidate and
writes memory, lifecycle record and sync jobs in one transaction; after the
commit the dispatcher flushes the eager jobs on threads of their own, and worker
loops claim the others. The jobs' handlers re-read the memory and write the
graph and the pages. `recall()` searches the memories, asks the lifecycle for the
status of each, ranks, and records the accesses. Handlers that need a language
model go through the adapters, two of which live on another tool's login. A cron job calls the hygiene
sweep. Milestone events and session ends create checkpoints. `memory audit
--purge` deletes memories with all that belongs to them.

## Modules and code

| module | models | extends or composes |
|---|---|---|
| `SyncIntent` | what the outbox promises: a durable, retryable intent | |
| `SyncOutbox` | the outbox and its processes | refines `SyncIntent` |
| `Reconciliation` | requests from evidence to commit, and the purge | |
| `GraphProjection` | the graph handlers | extends `Reconciliation`: its requests record the jobs these run |
| `Lifecycle` | the lifecycle record | |
| `Checkpoints` | the checkpoints of one scope and the Hermes hooks | |
| `Preferences` | one dimension of a preference profile and the evidence buffer | |
| `Documents` | the consolidation of pages | extends `Reconciliation`: its requests record the jobs these run |
| `Formation` | the admission of a text, as operators | |
| `Pipeline` | requests of `observe()` and `recall()` from end to end | extends `Formation`, whose gate decides what enters and what the audit deletes |
| `Setup` | `init`, `up`, `down`, `connect` on one machine | |
| `Tokens` | refreshing of rotating tokens | |
| `…MC` | constants for TLC | extend the module they name |
| `…Proofs` | theorems | extend the module they name; `ReconciliationProofs` extends the graph and the documents too, whose invariants rest on that of `Reconciliation` |

Definitions marked *Slip* are not part of a specification: each is a plausible
bug of the definition after it, and shows that a property can fail.

### SyncOutbox

`row` is the table; `held` the `SyncJob` values that threads carry, one record
per job in hand with the phase of its execution. `SyncJob` is immutable and a
save is an upsert of every column, so the row a thread writes is a function of
its snapshot: `SaveOutcome` overwrites whatever the row has become meanwhile.
Recovery goes by the age of a row alone and also resets jobs whose executor is
alive inside a slow handler; such a job then runs twice at once.
A worker loop is named after its process, an eager thread after its job.

| action | code |
|---|---|
| `Commit` | `enqueue` inside the caller's transaction, and `flush` handing eager jobs to threads |
| `Claim`, `Recover` | `claim_due` and `recover_running`, as the loop calls them between batches |
| `Start`, `HandlerReturns`, `HandlerRaises`, `SaveOutcome`, `SaveFails` | `execute`, cut where another thread can act: the time is taken before the handler, the outcome saved after it |
| `Boot`, `Crash` | start of the API's lifespan or of a command, with its recovery; death or stop of a process |
| `ListDead`, `RetryDead` | `sync retry`: list, then save one by one |
| `Purge` | deletion of a job with its memory |
| `Tick` | time, relative to each row and snapshot |

The retry policy (`Backoff`, `MarkFailed`, …) is pure. Time counts down to
`next_attempt_at` and up from `updated_at`, and saturates, so the state space is
finite without a bound on the clock. `Punctual` is an assumption that some
properties need: no row that is held gets as old as `stale_running_seconds`
(600 s). The code has no such bound; the properties that do not need it are
checked without it. `rest` is not in the code: it measures, independently of what
the row says, the time since the last failed attempt of a job began.

### Reconciliation

A candidate is observed once and creates at most one memory, which takes its
name. A text is the set of the candidates it was put together from, so that a
MERGE is a union and an UPDATE a replacement. `Consider` is everything before
the transaction: the search (any set of at most `EvidenceLimit` live memories of
the scope), the model's answer (any action on any memory, even one it was not
shown) and `Validate`. `Apply` is the transaction: it reads the target again,
writes the row or rows, the lifecycle records of the new memory and of the
outdated evidence, and the sync jobs. A purge lists first and deletes later.

### GraphProjection

Facts stand for triples. `Begin` reads the memory as it is when the job runs and
extracts its triples: what the patterns find in a text is fixed (`Parsed`), and a
text that they find nothing in goes to the model, which answers anything, nothing
too, and at each run something else (`Extractions`). `Upsert` and `MarkHistorical`
write one triple each, `Break` stops after any number of them and leaves the job to
be retried. What can happen to a job in the outbox is reduced to this: it stays
open until it is settled, open jobs run in any order, and a job runs once at a
time. An edge belongs to the `Group` that the key of its scope is cleaned into
(`_scope_key`), which several scopes may share. `invented` is not in the code: it
notes which triples the model has given a group.

That the graph catches up is claimed for what the patterns find. A text that
needs the model may be settled with nothing written, as in the code.

### Lifecycle

The unit is a record and its copies. A recall finds a memory, looks at its
status, reads the record and saves it reinforced: four steps, the last two in
different transactions. A sweep lists all records, saves decayed copies one by
one, and then archives from the same copies. Two recalls may hold copies of one
record. Uses stand for importance: each one makes a memory last longer. `used` is
not in the code: it notes the memories a use of which was saved while nobody else
held a copy (`Elsewhere`). `Prompt` restricts a run to recalls and sweeps that
end within a tick.

### Checkpoints

The table is the sequence of its rows. A request that summarises a text reads
the latest checkpoint, waits for the model, merges, and then enters `create`,
which reads the latest again and inserts. Requests with given fields start at
`create`. A field is the set of what it lists; empty means omitted, as in the
code. Two rows with the same version are ordered by nothing, so either may be
the latest. `since` is not in the code: it notes how many rows a request could
see, for the properties. A list that becomes empty is one that was omitted, here
as in the code; what comes of it is [below](#disagreements-found).

### Preferences

The table is the sequence of its rows, the buffer the set of texts in it. A
request observes the values that the patterns recognize, appends its text, counts,
and perhaps asks the model, clears the buffer and observes the answer.
`observe` is `Read` and then `Create`, `Reinforce`, or `Succeed` and `Link`; each
of these saves what the request computed from its copy, whatever the row has
become since. `said` and `disturbed` are not in the code: they note how often a
value was observed, and whether a request has written between another's read and
last write or died between successor and link.

The code promises one active row per dimension
(`domain/models/preference.py:16`). An overlap can leave two, and they stay until
later observations supersede both; `OneUnlessDisturbed` states the promise with
this exception.

### Documents

A word is a number, a text the words of the candidates it was put together from,
a page what each section was written from, its sources and its version. The
planner is modelled exactly (`Similar`, `Groups`, `Label`): complete linkage
depends on the order of the listing, which the statement leaves open, so `List`
takes any. `Groups` is a function of the position in the listing: each memory joins
the first group all of which it resembles, or begins one; the groups are `Plans`
in the order they begin, and a thread's `Current` plan is the first it has left. The jobs
take clusters of a fixed size or more; an explicit call takes any size
(`GroupSizes`, one too), so that only the validator keeps a section from resting on
one memory. A thread is one consolidation:

| action | code |
|---|---|
| `TakeUp`, `Consolidate` | `_handle_knowledge_consolidate`, the head of `_reconsolidate_stale_page`, `consolidate()` |
| `List` | `ConsolidationPlanner.plan`, and which of its clusters the job keeps |
| `Synthesize` | the model writes a section, the validator may refuse it, the page is read |
| `Number` | `save()` reads the page once more for its version |
| `Post`; `Open`, `Close` | the server's one request; the local file emptied first and filled at the close |
| `Settle`, `GiveUp` | the job is done; anything raises, or the process dies, and the job stays open |

What a file held when it was cut off stays in the model as history, so that the
properties can speak of it; no reader gets it (`Readable`).

### Formation

A text is what the patterns of the source tell of it: which blocks the whole
shows, which shapes each sentence has, how long it is. `Gate` keeps the order of
the reasons. `Reviewed`, `WorthRemembering` and `Extracted` are the ways to a
candidate with and without a model; `AuditRejects` is the same gate, years later
and with the length then in force. `Pipeline` checks them against each other.

### Pipeline

`req` is a request on its way, with what its trace says. The stages of
`observe()` are `Observe` (admission; the candidates are taken in any order, as
nothing depends on the one the model gave them), `Commit`, `Defer` or `Launch`,
`Handle`, `Await` (the flush with its bounded wait), `Embed` and `Checkpoint`;
those of `recall()` are `Recall` (latest checkpoint, routing, planning), `Search`,
`Semantic`, `Graph`, `History` term by term, `Status` memory by memory, `Rank`, and
`Access` and `Reinforce`, which read the record of each memory in the answer and
save it. Every stage that reads a store is a step of its own. Failure of the
canonical store ends a request (`Fail`); that of a derived one skips a stage.

A memory has a name, a home, a status and a `content`, the statements its text is
made of. `Commit` is a decision with all its actions, on any evidence: nothing;
CREATE; CREATE that supersedes one of the evidence; UPDATE, which replaces the
text of a target, and MERGE, which joins it. It records a stale job for each
superseded memory of the evidence, in their order, and the sync job of what it
wrote. Searches for current memories take the types that `Planned` gives,
episodic and semantic unless the query names others (`Wanted`); the history is not
filtered by type.

The lifecycle record is reduced to being archived or not, and to its old copies: a
recall saves the one it has read, a sweep too (`SweepReads`, `SweepSaves`), over
whatever was saved in between, so that what was archived can come back. The audit
lists (`List`) and deletes later (`Purge`), as it finds the rows then. Whether a
joined text shows what neither part does is left open, since length and density of
symbols decide.

`past` is not in the code: it notes which memories were live, and which were not
archived, at some moment since a recall began, and which have been both, with the
same content, all the time.

### Setup

A command is a program counter over the steps of `stack.py`, `connectors.py` and
`cli.py`, cut at each file, process or docker command. `.env` is read, emptied (`Truncate`)
and written (`Write`) in three steps, so that another command can find it empty
and an interrupt leave it so; a server is spawned and recorded in two, its pid
looked up and signalled in two (`Check`, `Kill`: the process may end in between,
and `down` then stops before the rest), settings are read and written in two. A
backup of the same second is overwritten. Settings are a set of entries, an entry a set of hooks; their
order is left out. Processes have a pid that anybody may get afterwards
(`Reuse`). The environment is in `Boot`, `Exit`, `Docker`, `RemoveContainer`,
`AgentWrites` and `Interrupt`; `trouble` bounds which of them go wrong on one
machine. The five history variables say what the properties excuse: an overlap,
a removed container, a server left before it was up, a pid file whose process
ended on its own, and whether anything but `up` has happened since one that went
well.

### Tokens

A pair is a number: its access token is in `fresh` until it expires, its refresh
token in `usable` until it is spent. `login` is the file of the other tool,
which refreshes as it likes; `store` is `credentials.json`, `tmp` the temporary
file. A thread looks (`Look`), asks one endpoint after the other (`Granted`,
`Refused`, `AnswerLost`), and saves in three steps (`Load`, `Write`, `Replace`).

## Runs

Passing runs complete their state space; every property of theirs is broken by
at least one slip.

| run | bounds | shows |
|---|---|---|
| `outbox_punctual` | 2 jobs (one eager, one without a handler), 2 processes with workers, 3 attempts, 1 crash or failed save, 1 operator retry | under `Punctual` a job has at most one holder, whose row is current; retries keep their distance; `SyncIntent` is implemented |
| `outbox_late` | 2 jobs, 1 worker process beside the API, 2 attempts, 1 fault, 1 retry, rows stale after one tick, any timing | without `Punctual`: done means applied, attempts are earned, every committed job settles |
| `reconcile` | 4 candidates in 2 scopes, evidence of 2, 1 purge | superseded memories are retired, chains end, accepted candidates are kept once, edits are versioned |
| `graph` | 3 candidates in 3 scopes, the keys of two of which give one group, 2 facts; one candidate with relationships, the texts of two found by patterns, other texts left to the model | the graph catches up with what patterns find; a group learns nothing its scopes did not state and the model did not make up |
| `lifecycle` | 1 memory, 2 recalls, 2 sweeps | retirement has a reason, only overlaps forget a use or revive, unused memories retire in the end |
| `checkpoints` | 3 requests, 2 turns, 4 contents | no turn twice, newer than seen, what the request saw is kept |
| `preferences` | 3 requests, 2 values, up to 2 signals in a text, threshold 2 | a preference is never lost, counts are backed, one active row unless disturbed, full buffers are read |
| `documents` | 3 candidates in 2 scopes, 2 files, 2 jobs at once, 1 explicit call, for clusters of 1, pages written twice | sections rest on two memories that the page names, scopes mix only where their files do, only an outdated copy drops anything |
| `pipeline` | 2 requests, 5 memories (two there from the start) of 2 types, 2 scopes, 2 terms, limit 1, evidence of 2, 1 record swept, jobs left to the worker; or 1 `observe()` of 2 candidates, jobs tried at once | answers current, complete and without repetition; the audit lists nothing that was admitted; reports of the sync are true; every request ends |
| `setup` | 3 commands in the orders `SetupMC` names, 3 pids, one kind of trouble at a time or two | what `up` starts is found, nothing foreign is signalled, passwords agree, a second `up` changes nothing, `connect` keeps what others have |
| `tokens` | 2 threads, 2 providers, 5 pairs | a pair that can be refreshed is kept; no spent token is tried |
| `documents_stale` | as `documents`, 1 scope, 1 job at a time | a counterexample, see [below](#disagreements-found) |

Why the bounds are enough. Two jobs and two processes are the least with a batch
in which one job waits for another, and with two threads on one job; with two
attempts a job fails, backs off and dies. One fault allows a crash in every step,
and late saves need no fault. With three attempts there are two waits, of
different length. Four candidates allow two concurrent supersessions of two
memories, the least that could close a circle; three allow a supersession that
overtakes a revision, which is what the graph depends on. One memory suffices for
the lifecycle, whose records do not depend on each other; two sweeps and two
recalls hold four copies of one record. Three requests give two that overlap and
one that comes after both; with two values a request can supersede its own row,
and another's that has superseded it.

Three candidates are the least with a cluster above `MilestoneSize` and a word
that only one pair shares, so that a supersession can break a cluster up; two jobs
at once give every overlap of two writers, and two writes of a page one version to
be out of date by. Asking for clusters of one gives the validator something to
refuse, and every larger cluster besides. Two scopes share a file only in local
files and when both have candidates (`SomeInit`): where a page is kept and which
it is do not interact otherwise. In `pipeline` the length limits (3 for proposals,
2 for the audit) put statements on both sides of each, the one old memory that the
gate refuses today is a question, and a limit of 1 makes every search drop
something as soon as two memories compete. Two requests are one that is looked at
and one that interferes; `Several` joins model and scopes (a model and one scope,
or none and two), as no action depends on both, and `Bounded` lets the second
recall only beside a recall, the requests being alike. Jobs are left to the worker
there, as the answers depend on none. A report is about the jobs of its own
request, so that one request is enough to look at it; two candidates, either of
which may supersede both the old memory and the other, give a second field to join
and stale jobs beside the sync job. In `setup` three commands allow an `up` that
finds what an earlier one left and a `down` after it; an overlap needs two, and a
third sees what they leave. Every kind of trouble is checked, docker and
interrupts also together, since both leave `.env` and the container apart. Five
pairs are a login and four refreshes, of which both providers can have their
share.

The theorems below remove these bounds for all but the liveness properties.

Counters that would grow for ever are bounded where a constant says so
(`MaxFaults`, `MaxReopens`, `MaxPurges`, `MaxRecalls`, `MaxVersion`,
`MaxThreads`, `MaxRequests`, `MaxPairs`, `EvidenceLimit`) or saturate (ages, waits).
Deadlock is checked for the lifecycle only: elsewhere a state in which all requests
and jobs have ended is an end and no error. Graph and documents are
checked with `MaxPurges = 0`, for their size; their theorems hold with purges.

## Fairness

`SyncOutbox!Fairness`: processes are started again after they stop (a service
manager does), worker loops go on claiming and recovering, threads go on, and
the clock advances. A handler returns or raises: each one bounds its
network calls. There is no fairness for requests, crashes, failed saves or
operators. `EventuallySettled` rests on this.

`Lifecycle!Fairness`: the clock advances, and sweeps are run again and again
(`run_lifecycle_maintenance` is meant for a cron job). A sweep may fail and drop
the rest of its work, but not for ever: strong fairness on saving the record of
each memory. No fairness for recalls, which may stop anywhere; they are finitely
many, as `EventuallyRetired` speaks of memories that are not used any more.

`Pipeline!Fairness`: the thread that serves a request runs on, whatever the
handlers it has launched do; no fairness for handlers, sweeps or audits.
`EveryRequestEnds` rests on this: the wait for a handler is bounded.

## Proofs

All theorems hold for every value of the constants that the `ASSUME`s allow.
They are all of the form Init ⇒ Inv, Inv ∧ [Next] ⇒ Inv′, Inv ⇒ property, with
one lemma or step per action.

**SyncOutboxProofs.** Three invariants, each built on the one before. *TypeInv*
joins the types with `RetriesHaveBudget`: a claim copies a row's attempts into a
snapshot that must be able to count one more. *HistoryInv* adds that what a
snapshot will make of a row is backed already when its handler ends, since it may
be saved at any later time over any row: `DoneIsApplied` and `DeadIsEarned`
follow, without any assumption on timing. *HolderInv*, under `Punctual`, says that
the row of a held job is running and young or purged, so that claims (pending
rows), recovery (stale rows) and retries (dead rows) never take a job that is
held: `SingleHolder`, `HoldersStayCurrent`, `DoneStaysDone`, `AttemptsCount` and
`OutboxImplementsIntent`, where each action maps to a step of `SyncIntent` or to a
stutter. On top of it *SpacedInv* says that the wait left in a pending row and the
rest its job has had make up the backoff, and that no snapshot counts more rest
than there was: `RetriesStaySpaced`, through crashes, recoveries and retries.

**ReconciliationProofs.** Of the ten conjuncts of its invariant two carry the
argument: a target passes validation only as one of the evidence, so a memory
superseded by a decision is in the evidence that the transaction looks through
(`SupersededRetired`); and an heir is always the row that the same transaction
inserts, which has no heir itself, so a new link never lies on a ring
(`ChainsAlwaysEnd`). `RecordedOnce`, `ScopesStayApart` and `EditsCounted` follow
from what rows and decisions are backed by.

*Graph*, in the same module. `GraphKeepsUp` needs to know which job will do the
work: the last revision of a memory has a sync job of its own, which can begin
only after it and therefore reads the final text. The invariant says for each
memory that such a job is not begun, or running with the missing triples still to
write, or settled with all that the patterns find in the graph, whatever the model
answered to it or to others; and edges, live and historical together, never shrink
(`EdgesStay`). `GraphScopesStayApart` holds for any cleaning of scopes into groups:
each triple of a group, and each still on its way, was stated by a kept candidate
of one of its scopes or is noted as invented. Purges are included: the theorems
speak of stored memories.

*Documents*, in the same module. What holds of the pages has to hold of all that
is on its way into one: the copy a consolidation took, which may be outdated, and
the clusters it has still to write, planned when the memories were others
(`PageSound`, `PlanSound`). Both stay sound because a memory keeps its scope and
is never absent again once accepted (`PageBacked`). `SectionsAlwaysHaveSources`
(whatever size is asked for: a plan that is smaller than the validator's bound
never becomes a section), `PageScopesStayApart` and `DropsNeedOverlaps` follow;
that a thread's current plan exists is the least-element lemma `Least`, and that
clusters are of one scope is read off `Plans` without what complete linkage
computes (`PlansOfScope`).

**CheckpointsProofs.** `CheckpointedOnce` from the pending turn, the turns in
flight and the turns saved being apart; `SavedIsNewer` from what a request has
read being at least as new as all it could see; `SeenStays` from the text being
merged with what the request saw first, and from carrying forward filling only
what is empty.

**PreferencesProofs.** A copy may be saved at any later time, so the invariant
says what each copy still shares with its row: value and version never change and
its count has been observed (`EvidenceCounted`). A new row is last and has no heir,
and heirs are later rows, so the last row is always active
(`PreferenceNeverLost`). In an undisturbed table a request that is about to write
holds all that is active, and at most one is between its successor and its link
(`OneActive`). `EvidenceConsumed` needs no overlap to be excluded: among the
requests that have appended, the one that counts last sees all texts, and clears
them if they are enough.

**LifecycleProofs.** A copy may be saved over any later record, so the invariant
says of each, the one in the table and every copy, that it bears out its status
by itself: an expired one is old enough for its uses, one archived before any
supersession has none (`RetirementIsDeserved`), one of a memory in `used` has
some (`UsesAreKept`). Its type needs a count: no record has more uses than
recalls are over, and a recall that is saving is not over yet.
`RevivedByOverlaps` is the action property that follows.

**TokensProofs.** A pair on its way to the file is unspent and known to one
thread only (`Private`), since the server issues it to that thread; one thread
is saving, with the file as it is but for its own pair (`OneSaver`), unless two
overlapped; the pairs of a tool and our own are different ones (`Apart`). So a
pair arrives unspent and replaces the one it was bought with (`LoginsKept`), and
the next token to try is good or its successor is on its way
(`SpentTokensNotTried`).

**PipelineProofs.** A memory has its home for good, and what is superseded or
purged never becomes live; but texts change, and archived memories come back. So
the invariant of a recall speaks of `past`, which only grows or only shrinks
whatever the stores do (`Later`): it knows what is live and shown by now
(`UpToDate`); what was found has been live at some moment, and not archived when
its status was read (`WasSeen`); what has stayed is found by the terms that were
searched for, or competes with more than a search returns (`IsFound`). Each of these survives every step of others
(`StandsStill`), so that only a request's own steps have to be looked at.
`FoundOnce`: nothing superseded is looked for before all current ones have been
found. `AnswersStayCurrent` and `AnswersStayComplete` are read off at the end, the
second because no more compete than a search returns (`AllOfFewRivals`).

A second invariant (`Books`) keeps the accounts of `observe()`: each job is recorded
once, for one candidate of one request, also when it is of a memory that has jobs
already; only that request sets it running, so a job that is done stays done whatever
handlers end late. Of the jobs a request does not wait for (any more) its report
already tells the worst (`Tells`): `ReportsAreTrue`. For the audit it is the text
that matters, not the memory: each that is not joined, and each still on its way,
is an old memory's own or something the audit spares, since each way through the
gate implies the audit's gate with any lengths (`AnyLength`): `AuditSpares`.

**SetupProofs.** The invariant (`SetupInv`) says who else is at work and what a
command has still to do. `Known`: unless commands overlap one is active, so that
what it saw still holds at its next step. `Database`: container and volume have one
password, and a command that is past the inspection works with it, while what it
has not saved yet is in its lines, whatever step of the save it is at (`Outcome`):
`OnePassword`. `Named`: each server that works has its pid file or a command about
to record it, each pid file its server or a reason why not, each booting server
somebody who waits for it: `ServersFound`, and from the pid file's half
`OnlyServersSignalled`. `Quiet`: once an `up` went well, everything is there, and
a further `up` is only at stages that look and find (`NothingToDo`), so that it
never creates, starts or records, several at once neither; and unless they
overlap, one that has emptied `.env` has in its lines all that was in it
(`EnvKept`): `SecondUpChangesNothing`. `BackedUp`: what a `connect` is about to
drop is in a backup, and entries of others it does not drop: `OthersHooksKept`.

Every safety and action property of the passing runs is a theorem. Only
model-checked are the liveness properties `EventuallySettled`, `EventuallyRetired`
and `EveryRequestEnds`, since liveness under fairness is out of the prover's reach,
as are ENABLED, induction over data and RECURSIVE operators. Induction over data
is why nothing is proved of what the planner's clusters look like beyond the scope
of their members: that rests with the `documents` run.

The type invariants, and the facts that done is final, that attempts move by one,
that memories of different scopes never meet and that the graph loses no edge, are
theorems and no properties of runs.

## Disagreements found

One is a run whose property states what the repository says, and which TLC
refutes; the quotation is in `PROJECT.json`.

| run | what happens |
|---|---|
| `documents_stale` | A section that a superseded memory fed is to be derived again rather than left stale. When the memories left no longer cluster under its heading, the job finds nothing to write and is done: the section stays, superseded memory and all. |

The others were met while modelling. The models behave as the code does, and
where a property would have said otherwise it names the exception.

- Outbox. The API's start is documented to recover what a dead process left
  running even when no worker loop is enabled (`apps/api/main.py:29`), but
  recovers only rows at least 600 s old; after a quick restart nothing looks at
  the job again. `EventuallySettled` speaks of a deployment with a worker loop.
- Reconciliation. Superseded facts stay as history (`README.md:14`); an UPDATE
  or MERGE decided on evidence that another request has superseded since
  rewrites the superseded row in place (`core/reconciliation/reconciler.py:88`).
- Graph. The derived stores are to agree with the memories in the end
  (`core/sync/dispatcher.py:3`); when the mark-stale job of a memory runs before
  its delayed sync job, the superseded edge becomes live, for good
  (`core/facade.py:383`).
  Scopes are not to bleed into each other's graph (`providers/graphiti/store.py:24`);
  two whose keys differ in a character that `_scope_key` replaces (`my.app`,
  `my_app`) share one group. `GraphScopesApart` keeps groups apart.
- Lifecycle. A memory accessed even once is never archived by the sweep
  (`core/lifecycle/manager.py:74`); a sweep, or a second recall, that read its
  record before the access saves the old copy over it.
- Checkpoints. Steps that a summary completes are no longer next
  (`core/facade.py:85`); when none is left, `create` takes the empty list for an
  omitted one (`core/checkpoints/manager.py:52`), and the finished steps come back.
  `SeenIsKept` does not ask for that, nor does it forbid it.
- Audit. It is to delete the rows the gate rejects today
  (`docs/memory-policy.md:74`); it deletes those it rejected when it listed them
  (`apps/cli.py:185`), also one that an UPDATE has given an admissible text since.
- Recall. Routing says that the checkpoint is consulted only for some queries
  (`core/facade.py:508`); `core/recall/domain_router.py:91` adds it whenever
  there is one.
- Tokens. The fresher of two pairs is preferred
  (`providers/llm/token_store.py:7`); once both access tokens have expired, our
  own dead refresh token is preferred to that of a later login.
- Setup. `llm_setup.verify` tests the configuration in the environment when the
  chosen provider is `openai_compatible`, not the chosen one. The model is
  chosen "before anything else" (`apps/cli.py:47`), but the server is up by
  then. Two first `up`s at once leave the password of the loser in `.env`, and
  so does a second `up` that reads the file while the first is rewriting it; an
  `up` right after `down` takes the dying server's port for a running one. `up` is
  said to be idempotent (`apps/setup/stack.py:9`); after one that was interrupted
  or gave up waiting the server still boots, and the next `up` starts a second and
  takes over its pid file (`stack.py:346`). Both are what `ServersAreFound` and
  `UpTwiceIsOnce` except. `connect` is to leave the hooks of others untouched
  (`apps/setup/connectors.py:74`); it replaces an entry that mixes ours with one of
  the user's as a whole (`connectors.py:71`), and the user's hook is then in the
  backup only. `OthersAreKept` asks for entries of others to stay, and of a mixed
  one for the backup.

## What is not modelled

- Text: admission patterns, extraction, prompts, parsing of the model's answers,
  labels and layout. The models take the outcome of each as a nondeterministic
  input.
- Numbers that only rank: confidences, similarities, importance, except where
  they decide (a decision below the confidence limit, decay times growing with
  use).
- Forgetting, `run_decay`, `cascade_provenance` and `valid_until`: no caller
  outside the tests.
- How Graphiti stores an edge, entities without edges, and the remote graph's
  own failures beyond a call that raises.
- A worker that is stopped and started again within a process: no caller does.
- Files partly written: a reader finds `.env` as it was, empty, or complete, and
  `credentials.tmp` complete.
- Revocation of a token family on reuse, which the servers may do;
  `TokenStore.clear`, which nothing calls.
- The extractor and evaluator that use a model: nothing constructs them.
- The text that `context_builder` lays out within its budget, and the order of
  the ranking.
- The Hermes connector and its YAML helpers, and `status`, which only looks.
- Spans, latencies and sinks of the trace log; whether model answers and stored
  text fit the token limits of a model.
- Pure I/O: explorer, SDK, the Claude Code and Codex hooks (which map a payload
  to one request), language model adapters.

Four things are in a model and no property speaks of them, as the repository
promises nothing: the edges of a text that an UPDATE replaced stay live; a text
that needs the model may never reach the graph; the turn that the Hermes plugin is
posting is lost with its daemon thread; an interrupt between emptying `.env` and
writing it loses what the user had put there.

Abstractions to keep in mind: the scope of a checkpoint is fixed, since scopes
share nothing; lists are sets where order is not looked at; in the graph a job
runs once at a time, which an early recovery can break, but a second execution
only writes the same triples, those of a later text or what the model makes of it
this time, as the first might have; in the preferences each observation counts
one, since those of the patterns and of the model all carry the same weight; in
`Pipeline` a text has one name, so that a candidate which another request has made
a memory of meanwhile is not made one again, and a job is tried once, its retries
being `SyncOutbox`'s subject; in `Setup` a command that was interrupted between
two steps has no other effect than those before it.

## Plan

The modules are written so that they can be proved about (no recursive operators,
assumptions named, invariants as conjunctions of named parts).

1. Done: the modules above, their runs, and the theorems above.
2. Abstract specifications of further components, with their refinements proved as
   `OutboxImplementsIntent` is: a history that only grows for `Reconciliation`, one
   login that is always good for `Tokens`.
3. The Hermes connector, whose edits of a YAML file are a recursive function of
   its lines.
