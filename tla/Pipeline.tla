------------------------------ MODULE Pipeline ------------------------------
(***************************************************************************)
(* The two requests agents make all the time: observe(), from the          *)
(* admission of a turn to the report of what was written, and recall(),    *)
(* which gathers memories from several searches (core/facade.py,           *)
(* core/recall, core/observability, the eager path of core/sync).          *)
(*                                                                         *)
(* Requests run side by side, and while one runs the operator's sweep      *)
(* archives memories and the operator's audit deletes some.  Each search,  *)
(* each status read and each record saved is a transaction of its own.     *)
(* How a decision is reached is Reconciliation's subject, retries are      *)
(* SyncOutbox's; here the LLM decides anything and a job is tried once.    *)
(***************************************************************************)
EXTENDS Formation, FiniteSets

CONSTANTS
    Requests,
    Scopes,
    NoScope,            \* where a memory is before there is one
    Turns,              \* what observe() may be given: the text's name, its events, the proposals
    Old,                \* the memories that are there from the start
    EvidenceLimit,      \* how many memories a candidate is compared with
    Terms,              \* search terms
    Queries,            \* what recall() may be given: search terms, what they ask about, types
    CheckpointTerms,    \* the terms a checkpoint's goal, current step, ... give
    Hits,               \* the statements that have a word of a term
    Near,               \* the contents whose embedding is close enough to a term's
    Limit,              \* limit of a query
    Swept               \* the memories whose lifecycle records a sweep comes across

ASSUME PipelineAssumption ==
    /\ Turns \subseteq [text : Memories, events : SUBSET Events, proposals : SUBSET Memories]
    /\ Queries \subseteq [terms : SUBSET Terms, kinds : SUBSET {"continue", "company", "me"}, types : SUBSET Types]
    /\ Old \subseteq Memories /\ Swept \subseteq Memories /\ CheckpointTerms \subseteq Terms
    /\ Hits \in [Terms -> SUBSET Memories] /\ Near \in [Terms -> SUBSET (SUBSET Memories)]
    /\ Limit \in Nat \ {0} /\ EvidenceLimit \in Nat /\ NoScope \notin Scopes /\ IsFiniteSet(Memories)

VARIABLES
    admission,  \* "llm" or "rules"
    eager,      \* jobs are tried at once, not left to the worker
    home,       \* the scope of each memory
    row,        \* the memories table
    content,    \* the statements a memory's text is made of
    archived,   \* the lifecycle records that keep a memory out of recall
    vectors,    \* memory_embeddings: the content that was embedded, {} where there is no row
    kept,       \* the scopes that have a checkpoint
    job,        \* how the graph jobs went that were recorded so far
    copies,     \* the records the sweep has read and not saved yet: archived or not
    listed,     \* what the audit has found and not deleted yet: memories, with the text it saw
    req,        \* the requests, each with what its trace says
    past        \* history: what has been true of memories since a recall began

stores == <<home, row, content, archived, vectors, kept, job>>
tools == <<copies, listed>>
vars == <<admission, eager, stores, tools, req, past>>

\* A job of the outbox is recorded once for a candidate of a request.
Job == [memory : Memories, kind : {"sync", "stale"}, candidate : Memories, request : Requests]

\* A request.  observe(): the candidates and jobs still to do, the memory just written and
\* its text, neo4j_sync of the trace ("none": not recorded).  recall(): the terms, those
\* still to search for, the memories found, current and superseded; those whose record is
\* still to be read or reinforced, the copy in hand; and, as history, those that competed.
Request == [at : {"idle", "commit", "launch", "await", "embed", "checkpoint", "search", "semantic",
                  "graph", "history", "status", "access", "reinforce", "answered", "failed"},
            kind : {"none", "observe", "recall"}, scope : Scopes, candidates : Seq(Memories),
            jobs : Seq(Job), wrote : [memory : Memories, text : SUBSET Memories] \cup {<<>>},
            sync : {"none", "skipped", "ok", "pending", "failed"},
            terms : SUBSET Terms, left : SUBSET Terms, domains : SUBSET Domains, types : SUBSET Types,
            found : SUBSET Memories, old : SUBSET Memories,
            todo : SUBSET Memories, copy : BOOLEAN, rivals : SUBSET Memories]

PipelineTypeOK ==
    /\ admission \in {"llm", "rules"} /\ eager \in BOOLEAN
    /\ home \in [Memories -> Scopes \cup {NoScope}]
    /\ row \in [Memories -> {"absent", "live", "superseded", "purged"}]
    /\ content \in [Memories -> SUBSET Memories] /\ vectors \in [Memories -> SUBSET Memories]
    /\ archived \subseteq Memories /\ kept \subseteq Scopes
    /\ DOMAIN job \subseteq Job /\ Range(job) \subseteq {"running", "ok", "pending", "failed"}
    /\ DOMAIN copies \subseteq Swept /\ Range(copies) \subseteq BOOLEAN
    /\ listed \subseteq [memory : Memories, content : SUBSET Memories]
    /\ req \in [Requests -> Request]
    /\ past \in [Requests -> [lived : SUBSET Memories, shown : SUBSET Memories, stayed : SUBSET Memories]]

Fresh(s) == [at |-> "idle", kind |-> "none", scope |-> s, candidates |-> <<>>, jobs |-> <<>>, wrote |-> <<>>,
             sync |-> "none", terms |-> {}, left |-> {}, domains |-> {}, types |-> {},
             found |-> {}, old |-> {}, todo |-> {}, copy |-> FALSE, rivals |-> {}]

Init ==
    /\ admission \in {"llm", "rules"} /\ eager \in BOOLEAN
    /\ home \in {h \in [Memories -> Scopes \cup {NoScope}] : \A m \in Memories : h[m] \in Scopes <=> m \in Old}
    /\ row = [m \in Memories |-> IF m \in Old THEN "live" ELSE "absent"]
    /\ content = [m \in Memories |-> IF m \in Old THEN {m} ELSE {}]
    /\ archived = {} /\ vectors = content /\ kept = {}
    /\ job = <<>> /\ copies = <<>> /\ listed = {}
    /\ req \in [Requests -> {Fresh(s) : s \in Scopes}]
    /\ past = [r \in Requests |-> [lived |-> {}, shown |-> {}, stayed |-> {}]]

Becomes(r, next) == req' = [req EXCEPT ![r] = next]
Moves(r, stage) == req' = [req EXCEPT ![r].at = stage]

-----------------------------------------------------------------------------
\* observe().

\* The candidates of the turn, in the order the LLM happens to propose them.  Unless one
\* of them is committed, the trace will say that the graph was skipped.
Observe(r, turn) ==
    /\ req[r].at = "idle"
    /\ \E left \in SetToSeqs(Admit(admission, turn.text, turn.events, turn.proposals)) :
        Becomes(r, [req[r] EXCEPT !.kind = "observe", !.candidates = left,
                                  !.at = IF left = <<>> THEN "checkpoint" ELSE "commit",
                                  !.sync = IF left = <<>> THEN "none" ELSE "skipped"])
    /\ UNCHANGED <<admission, eager, stores, tools>>

\* What follows a candidate: the next one, or the checkpoint.
AfterCandidate(q) ==
    LET left == Tail(q.candidates)
    IN  [q EXCEPT !.candidates = left, !.wrote = <<>>, !.at = IF left = <<>> THEN "checkpoint" ELSE "commit"]

\* The memories the candidate was compared with, as far as they are still there: current
\* when they were retrieved, they may be superseded by now.
Evidence(s) ==
    {seen \in SUBSET {m \in Memories : home[m] = s /\ row[m] \in {"live", "superseded"}} :
        Cardinality(seen) <= EvidenceLimit}

\* What apply() leaves of the memories, and the one it returns.  CREATE, also when the
\* target is gone; a text that some request has made a memory of already is not made one
\* again, the model having one name for it.
Creations(c) ==
    IF row[c] # "absent" THEN {}
    ELSE {[memory |-> c, row |-> [row EXCEPT ![c] = "live"], content |-> [content EXCEPT ![c] = {c}]]}

Supersessions(c, seen) ==
    {[made EXCEPT !.row[t] = "superseded"] : made \in Creations(c), t \in seen}

\* UPDATE and MERGE: the target keeps its name, type, domain and status.
Revisions(c, seen) ==
    {[memory |-> t, row |-> row, content |-> [content EXCEPT ![t] = {c}]] : t \in seen}

Mergers(c, seen) ==
    {[memory |-> t, row |-> row, content |-> [content EXCEPT ![t] = @ \cup {c}]] : t \in seen}

\* The jobs: one for every memory of the evidence that is superseded, in the order of the
\* evidence, then the memory's own.
JobsFor(r, c, memory, gone) ==
    LET new(m, kind) == [memory |-> m, kind |-> kind, candidate |-> c, request |-> r]
    IN  {Append([i \in DOMAIN order |-> new(order[i], "stale")], new(memory, "sync")) : order \in SetToSeqs(gone)}

\* _commit_candidate: nothing, or what was decided with its graph jobs, in one
\* transaction.  Eager jobs are born running, so that no worker takes them.
Commit(r) ==
    /\ req[r].at = "commit"
    /\ LET q == req[r]
           c == Head(q.candidates)
       IN  \/ Becomes(r, AfterCandidate(q)) /\ UNCHANGED stores
           \/ /\ \E seen \in Evidence(q.scope) :
                  \E new \in Creations(c) \cup Supersessions(c, seen) \cup Revisions(c, seen) \cup Mergers(c, seen) :
                      LET gone == {m \in seen : new.row[m] = "superseded"}
                      IN  /\ row' = new.row /\ content' = new.content
                          /\ home' = [home EXCEPT ![new.memory] = q.scope]
                          /\ archived' = archived \cup gone
                          /\ \E all \in JobsFor(r, c, new.memory, gone) :
                              /\ job' = [j \in DOMAIN job \cup Range(all) |-> IF j \in Range(all) THEN "pending" ELSE job[j]]
                              /\ Becomes(r, [q EXCEPT !.at = "launch", !.jobs = all,
                                                      !.wrote = [memory |-> new.memory, text |-> new.content[new.memory]]])
              /\ UNCHANGED <<vectors, kept>>
    /\ UNCHANGED <<admission, eager, tools>>

\* Slip: the last status wins.
WorseIsLast(old, new) == new

\* _annotate: the worst status of a field wins.
Worse(old, new) ==
    LET rank == [none |-> 0, skipped |-> 0, ok |-> 1, pending |-> 2, failed |-> 3]
    IN  IF rank[new] >= rank[old] THEN new ELSE old

\* flush, left to the worker: every field says pending.
Defer(r) ==
    /\ ~eager
    /\ req[r].at = "launch"
    /\ Becomes(r, [req[r] EXCEPT !.jobs = <<>>, !.sync = Worse(@, "pending"), !.at = "embed"])
    /\ UNCHANGED <<admission, eager, stores, tools>>

\* _execute_bounded: a thread runs the handler ...
Launch(r) ==
    /\ eager
    /\ req[r].at = "launch"
    /\ job' = [job EXCEPT ![Head(req[r].jobs)] = "running"]
    /\ Moves(r, "await")
    /\ UNCHANGED <<admission, eager, home, row, content, archived, vectors, kept, tools>>

\* ... which ends well, fails and is due again, or cannot record how it ended ...
Handle(j) ==
    /\ job[j] = "running"
    /\ \E outcome \in {"ok", "pending", "failed"} : job' = [job EXCEPT ![j] = outcome]
    /\ UNCHANGED <<admission, eager, home, row, content, archived, vectors, kept, tools, req>>

\* Slip: the thread is joined without a timeout.
AwaitForEver(r) ==
    /\ req[r].at = "await"
    /\ LET q == req[r]
           status == job[Head(q.jobs)]
           left == Tail(q.jobs)
       IN  /\ status # "running"
           /\ Becomes(r, [q EXCEPT !.jobs = left, !.sync = Worse(@, status),
                                   !.at = IF left = <<>> THEN "embed" ELSE "launch"])
    /\ UNCHANGED <<admission, eager, stores, tools>>

\* ... or is still running when the wait is over, and is reported as pending.
Await(r) ==
    /\ req[r].at = "await"
    /\ LET q == req[r]
           status == IF job[Head(q.jobs)] = "running" THEN "pending" ELSE job[Head(q.jobs)]
           left == Tail(q.jobs)
       IN  Becomes(r, [q EXCEPT !.jobs = left, !.sync = Worse(@, status),
                                !.at = IF left = <<>> THEN "embed" ELSE "launch"])
    /\ UNCHANGED <<admission, eager, stores, tools>>

\* _index_embedding, of the text that was written: the model may be missing or broken.
Embed(r) ==
    /\ req[r].at = "embed"
    /\ vectors' \in {vectors, [vectors EXCEPT ![req[r].wrote.memory] = req[r].wrote.text]}
    /\ Becomes(r, AfterCandidate(req[r]))
    /\ UNCHANGED <<admission, eager, home, row, content, archived, kept, job, tools>>

\* The turn may call for a checkpoint; then the report is made up.
Checkpoint(r) ==
    /\ req[r].at = "checkpoint"
    /\ kept' \in {kept, kept \cup {req[r].scope}}
    /\ Moves(r, "answered")
    /\ UNCHANGED <<admission, eager, home, row, content, archived, vectors, job, tools>>

-----------------------------------------------------------------------------
\* recall().

\* DomainRouter.route.
Routed(kinds) ==
    LET asked == (IF "continue" \in kinds THEN {"session", "project"} ELSE {})
                     \cup (IF "company" \in kinds THEN {"organization", "project"} ELSE {})
                     \cup (IF "me" \in kinds THEN {"user"} ELSE {})
    IN  IF asked = {} THEN {"project", "session"} ELSE asked

\* RetrievalPlanner.plan: unless asked for, no procedures.
Planned(types) == IF types = {} THEN {"episodic", "semantic"} ELSE types

\* The latest checkpoint is read, whatever the query is about, and gives terms.
Recall(r, query) ==
    /\ req[r].at = "idle"
    /\ LET s == req[r].scope
           terms == query.terms \cup (IF s \in kept THEN CheckpointTerms ELSE {})
       IN  Becomes(r, [req[r] EXCEPT !.kind = "recall", !.at = "search", !.terms = terms, !.left = terms,
                                     !.domains = Routed(query.kinds), !.types = Planned(query.types)])
    /\ UNCHANGED <<admission, eager, stores, tools>>

InDomain(m, q) == Statement[m].domain \in q.domains

\* The filter of the searches for current memories; the history is not filtered by type.
Wanted(m, q) == Statement[m].type \in q.types /\ InDomain(m, q)

\* Full-text search: one word in common is enough.
Matches(m, t) == content[m] \cap Hits[t] # {}

\* Any `Limit` of the set, all of it when there are no more.
Top(S) == {T \in SUBSET S : Cardinality(T) = Limit \/ (T = S /\ Cardinality(S) < Limit)}

\* Loops go through terms and memories in some fixed order.
First(S) == CHOOSE x \in S : TRUE

\* There is no term left.
NextStage(r, stage) == Becomes(r, [req[r] EXCEPT !.at = stage, !.left = req[r].terms])

\* One full-text search of the live memories; other types and domains are dropped afterwards.
Search(r) ==
    /\ req[r].at = "search"
    /\ LET q == req[r]
           t == First(q.left)
           hits == {m \in Memories : home[m] = q.scope /\ row[m] = "live" /\ Matches(m, t)}
       IN  \/ /\ q.left # {}
              /\ \E top \in Top(hits) :
                   Becomes(r, [q EXCEPT !.left = @ \ {t}, !.rivals = @ \cup hits,
                                        !.found = @ \cup {m \in top : Wanted(m, q)}])
           \/ q.left = {} /\ NextStage(r, "semantic")
    /\ UNCHANGED <<admission, eager, stores, tools>>

\* The vector store keeps the rows of memories that are superseded or purged; the
\* memories table has the last word.
StillCurrent(m) == row[m] = "live"

\* One semantic search.  The stage is over after the last one or when one fails; what
\* was found before stays found.
Semantic(r) ==
    /\ req[r].at = "semantic"
    /\ LET q == req[r]
           t == First(q.left)
       IN  \/ /\ q.left # {}
              /\ \E top \in Top({m \in Memories : home[m] = q.scope /\ vectors[m] # {}}) :
                   LET hits == {m \in top : vectors[m] \in Near[t] /\ StillCurrent(m) /\ Wanted(m, q)}
                   IN  Becomes(r, [q EXCEPT !.left = @ \ {t}, !.rivals = @ \cup hits, !.found = @ \cup hits])
           \/ NextStage(r, "graph")
    /\ UNCHANGED <<admission, eager, stores, tools>>

\* Slip: without the graph there is no answer.
GraphOrNothing(r) ==
    /\ req[r].at = "graph"
    /\ \/ NextStage(r, "history")
       \/ Becomes(r, [req[r] EXCEPT !.at = "history", !.left = req[r].terms, !.found = {}])
    /\ UNCHANGED <<admission, eager, stores, tools>>

\* The entities and relations of the graph: whether it answers or not, the memories stay.
Graph(r) ==
    /\ req[r].at = "graph"
    /\ NextStage(r, "history")
    /\ UNCHANGED <<admission, eager, stores, tools>>

\* Slip: nothing asks whether the memory has been found already.
NewToAnyone(q, m) == TRUE

\* One search of the superseded memories, those left out that were found as current.
NewToAnswer(q, m) == m \notin q.found

History(r) ==
    /\ req[r].at = "history"
    /\ LET q == req[r]
           t == First(q.left)
       IN  \/ /\ q.left # {}
              /\ \E top \in Top({m \in Memories : home[m] = q.scope /\ row[m] = "superseded" /\ Matches(m, t)}) :
                   Becomes(r, [q EXCEPT !.left = @ \ {t},
                                        !.old = @ \cup {m \in top : NewToAnswer(q, m) /\ InDomain(m, q)}])
           \/ q.left = {} /\ Becomes(r, [q EXCEPT !.at = "status", !.todo = q.found])
    /\ UNCHANGED <<admission, eager, stores, tools>>

\* Slip: a low status only weighs on the score.
StatusWeighs(r) ==
    /\ req[r].at = "status" /\ req[r].todo # {}
    /\ Becomes(r, [req[r] EXCEPT !.todo = @ \ {First(req[r].todo)}])
    /\ UNCHANGED <<admission, eager, stores, tools>>

\* The lifecycle record of one of the memories: what is archived is left out.
Status(r) ==
    /\ req[r].at = "status" /\ req[r].todo # {}
    /\ LET m == First(req[r].todo)
       IN  Becomes(r, [req[r] EXCEPT !.todo = @ \ {m}, !.found = IF m \in archived THEN @ \ {m} ELSE @])
    /\ UNCHANGED <<admission, eager, stores, tools>>

\* The rest is ranked, in an order left open here.
Rank(r) ==
    /\ req[r].at = "status" /\ req[r].todo = {}
    /\ \E best \in Top(req[r].found) :
        Becomes(r, [req[r] EXCEPT !.at = "access", !.found = best, !.todo = best, !.left = {}])
    /\ UNCHANGED <<admission, eager, stores, tools>>

\* record_access of one of them reads the record again; after the last one the answer is
\* put together.  Pages that cannot be searched are missing in it.
Access(r) ==
    /\ req[r].at = "access"
    /\ IF req[r].todo = {}
       THEN Moves(r, "answered")
       ELSE Becomes(r, [req[r] EXCEPT !.at = "reinforce", !.copy = First(req[r].todo) \in archived])
    /\ UNCHANGED <<admission, eager, stores, tools>>

\* The record of m is saved.
Saved(m, out) == IF out THEN archived \cup {m} ELSE archived \ {m}

\* ... and saves it: active again, unless it was archived when it was read; whatever was
\* saved in between is lost.
Reinforce(r) ==
    /\ req[r].at = "reinforce"
    /\ LET m == First(req[r].todo)
       IN  /\ archived' = Saved(m, req[r].copy)
           /\ Becomes(r, [req[r] EXCEPT !.at = "access", !.todo = @ \ {m}, !.copy = FALSE])
    /\ UNCHANGED <<admission, eager, home, row, content, vectors, kept, job, tools>>

-----------------------------------------------------------------------------
\* The canonical store or the LLM fails: the request does, what it committed stays.
Canonical == {"commit", "checkpoint", "search", "history", "status", "access", "reinforce"}

Fail(r) ==
    /\ req[r].at \in Canonical
    /\ Becomes(r, [Fresh(req[r].scope) EXCEPT !.at = "failed", !.kind = req[r].kind])
    /\ UNCHANGED <<admission, eager, stores, tools>>

\* The hygiene sweep reads records and saves each as it ages: archived ones unchanged,
\* the others active or, unused for long enough, out of recall.
SweepReads(m) ==
    /\ m \in Swept \ DOMAIN copies /\ row[m] \in {"live", "superseded"}
    /\ copies' = (m :> (m \in archived)) @@ copies
    /\ UNCHANGED <<admission, eager, stores, listed, req>>

SweepSaves(m) ==
    /\ m \in DOMAIN copies
    /\ \E out \in {copies[m], TRUE} : archived' = Saved(m, out)
    /\ copies' = Restrict(copies, DOMAIN copies \ {m})
    /\ UNCHANGED <<admission, eager, home, row, content, vectors, kept, job, listed, req>>

\* `aftermind memory audit` reads the current memories and asks the gate.  Texts that were
\* joined may show what neither shows alone (enough symbols for code): that is left open.
List ==
    /\ listed = {}
    /\ LET live == {m \in Memories : row[m] = "live"}
           joined == {m \in live : Cardinality(content[m]) > 1}
           refused == {m \in live \ joined : \E c \in content[m] : AuditRejects(c)}
       IN  \E more \in SUBSET joined :
               /\ refused \cup more # {}
               /\ listed' = {[memory |-> m, content |-> content[m]] : m \in refused \cup more}
    /\ UNCHANGED <<admission, eager, stores, copies, req>>

\* --purge deletes what was listed, as it is by now, with its lifecycle records (and what
\* the outbox has of it; the embeddings stay); or the backup before it fails.
Purge ==
    /\ listed # {}
    /\ listed' = {}
    /\ LET doomed == {l.memory : l \in listed}
       IN  \/ /\ row' = [m \in Memories |-> IF m \in doomed THEN "purged" ELSE row[m]]
              /\ archived' = archived \ doomed
           \/ UNCHANGED <<row, archived>>
    /\ UNCHANGED <<admission, eager, home, content, vectors, kept, job, copies, req>>

-----------------------------------------------------------------------------
Step(r) ==
    \/ Commit(r) \/ Defer(r) \/ Launch(r) \/ Await(r) \/ Embed(r) \/ Checkpoint(r)
    \/ Search(r) \/ Semantic(r) \/ Graph(r) \/ History(r)
    \/ Status(r) \/ Rank(r) \/ Access(r) \/ Reinforce(r)
    \/ Fail(r)

Acts ==
    \/ \E r \in Requests :
        \/ \E turn \in Turns : Observe(r, turn)
        \/ \E query \in Queries : Recall(r, query)
        \/ Step(r)
    \/ \E j \in DOMAIN job : Handle(j)
    \/ \E m \in Memories : SweepReads(m) \/ SweepSaves(m)
    \/ List \/ Purge

\* History, kept apart from what the program does: the memories that were live, and those
\* that were not archived, at some moment since a recall began; and those that have been
\* both, with the same content, ever since.
Current(m, s) == home[m] = s /\ row[m] = "live" /\ m \notin archived

Remember ==
    past' = [r \in Requests |->
        LET q == req'[r]
            live == {m \in Memories : row'[m] = "live"}
            current == {m \in Memories : Current(m, req[r].scope)'}
            same == {m \in Memories : content'[m] = content[m]}
        IN  IF q.kind # "recall" THEN past[r]
            ELSE IF req[r].at = "idle"
                 THEN [lived |-> live, shown |-> Memories \ archived', stayed |-> current]
                 ELSE [lived |-> past[r].lived \cup live, shown |-> past[r].shown \cup (Memories \ archived'),
                       stayed |-> past[r].stayed \cap current \cap same]]

Next == Acts /\ Remember

\* A request's thread runs on; handlers, sweeps and audits need not.
Fairness == \A r \in Requests : WF_req(Step(r))

Spec == Init /\ [][Next]_vars /\ Fairness

-----------------------------------------------------------------------------
Answered(r, kind) == req[r].kind = kind /\ req[r].at = "answered"

\* The audit finds nothing that this policy admitted, by whichever path and whatever the
\* lengths in force: only memories from before, with the text they had, and joined texts.
AuditSparesAdmitted ==
    \A l \in listed : Cardinality(l.content) > 1 \/ (l.memory \in Old /\ l.content = {l.memory})

\* observe() reports the graph as written only when all the jobs it recorded are done,
\* also those of memories it revised or found superseded, and as skipped, or not at all,
\* just when it recorded none; however late handlers end and whatever others write.
SyncReportIsTrue ==
    \A r \in Requests : Answered(r, "observe") =>
        LET own == {j \in DOMAIN job : j.request = r}
        IN  /\ req[r].sync = "ok" => own # {} /\ \A j \in own : job[j] = "ok"
            /\ req[r].sync \in {"none", "skipped"} <=> own = {}

\* What an answer of recall() gives as current was live, and was not archived, at some
\* moment while it was put together, though records are saved from old copies meanwhile;
\* it is of a type asked for and, like what is given as history, of the scope and of a
\* domain asked for.
AnswersAreCurrent ==
    \A r \in Requests : Answered(r, "recall") =>
        /\ req[r].found \subseteq past[r].lived \cap past[r].shown
        /\ \A m \in req[r].found : Wanted(m, req[r])
        /\ \A m \in req[r].found \cup req[r].old : home[m] = req[r].scope /\ InDomain(m, req[r])

\* No memory is in an answer twice, as current and as superseded, although the two are
\* searched for one after the other while others supersede.
NothingTwice == \A r \in Requests : req[r].found \cap req[r].old = {}

\* What was current, with the same text, from the beginning of a recall to its end, is of
\* a domain and a type asked for and matches one of the terms, is in the answer, whatever
\* fails and whoever writes; unless more than `Limit` memories competed for the place.
AnswersAreComplete ==
    \A r \in Requests : Answered(r, "recall") =>
        LET q == req[r]
        IN  \A m \in past[r].stayed : \A t \in q.terms :
                Matches(m, t) /\ Wanted(m, q) => m \in q.found \/ Cardinality(q.rivals) > Limit

\* Every request ends, also when a handler never does.
EveryRequestEnds == \A r \in Requests : req[r].kind # "none" ~> req[r].at \in {"answered", "failed"}
=============================================================================
