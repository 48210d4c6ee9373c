--------------------------- MODULE Reconciliation ---------------------------
(***************************************************************************)
(* How Aftermind learns: observe() takes each admitted candidate through   *)
(* evidence retrieval, the LLM's decision, its validation and the one      *)
(* transaction that applies it (core/facade.py, core/reconciliation).      *)
(*                                                                         *)
(* Requests run concurrently.  The evidence is read and the LLM consulted  *)
(* outside the transaction, so a decision may be applied to memories that  *)
(* have been updated, superseded or purged since.                          *)
(*                                                                         *)
(* A candidate creates at most one memory, which takes its name here.  A   *)
(* text is the set of the candidates it was put together from.             *)
(***************************************************************************)
EXTENDS Integers, FiniteSets

CONSTANTS
    Candidates,     \* the admitted candidates
    Scopes,         \* stable scopes: tenant, user, project, ...
    NoMemory,       \* null, for target_memory_id and superseded_by
    EvidenceLimit,  \* limit of EvidenceRetriever
    MaxPurges       \* bound on the operator's purges

ASSUME ReconciliationAssumption ==
    /\ NoMemory \notin Candidates
    /\ EvidenceLimit \in Nat
    /\ MaxPurges \in Nat

VARIABLES
    scope,      \* the scope each candidate is observed in
    mem,        \* the memories table
    life,       \* the lifecycle status of each memory, as far as observe() sets it
    jobs,       \* the sync jobs recorded with the memories
    obs,        \* where each candidate's request has got to
    listed,     \* the memories a purge has found and not yet deleted
    purges      \* purges so far

vars == <<scope, mem, life, jobs, obs, listed, purges>>

Memories == Candidates
Target == Memories \cup {NoMemory}

\* ReconciliationAction.
Revisions == {"update", "merge", "supersede"}
Actions == {"ignore", "create"} \cup Revisions

\* A row of memories; a purged row keeps its columns here, as history.
MemoryRow == [status : {"absent", "stored", "purged"}, content : SUBSET Candidates,
              sources : SUBSET Candidates, version : Nat, heir : Target]

\* A request: the decision it holds once it has one, and the evidence behind it.
Request == [phase : {"new", "decided", "kept", "ignored", "failed"},
            action : Actions, target : Target, evidence : SUBSET Memories]

Kinds == {"graph_sync", "graph_mark_stale", "knowledge_consolidate", "knowledge_reconsolidate"}
Job == [kind : Kinds, memory : Memories, by : Candidates]

TypeOK ==
    /\ scope \in [Candidates -> Scopes]
    /\ mem \in [Memories -> MemoryRow]
    /\ life \in [Memories -> {"none", "active", "archived"}]
    /\ jobs \subseteq Job
    /\ obs \in [Candidates -> Request]
    /\ listed \subseteq Memories
    /\ purges \in 0..MaxPurges

Asked(ph, act, tgt, ev) == [phase |-> ph, action |-> act, target |-> tgt, evidence |-> ev]

Init ==
    /\ scope \in [Candidates -> Scopes]
    /\ mem = [m \in Memories |-> [status |-> "absent", content |-> {}, sources |-> {},
                                  version |-> 0, heir |-> NoMemory]]
    /\ life = [m \in Memories |-> "none"]
    /\ jobs = {}
    /\ obs = [c \in Candidates |-> Asked("new", "ignore", NoMemory, {})]
    /\ listed = {}
    /\ purges = 0

Stored(m) == mem[m].status = "stored"
Superseded(m) == mem[m].heir # NoMemory
Live(m) == Stored(m) /\ ~Superseded(m)

-----------------------------------------------------------------------------
\* Before the transaction.

\* Slip: the search forgets the scope.
EvidenceAnywhere(c) == {ev \in SUBSET {m \in Memories : Live(m)} : Cardinality(ev) <= EvidenceLimit}

\* What the full-text search may return for c: live memories of its scope.
Evidence(c) == {ev \in SUBSET {m \in Memories : Live(m) /\ scope[m] = scope[c]} :
                    Cardinality(ev) <= EvidenceLimit}

\* Slip: the target is not looked up in the evidence.
ValidateTrusting(act, tgt, confident, ev) ==
    IF act \in Revisions /\ tgt = NoMemory
    THEN [action |-> "create", target |-> NoMemory]
    ELSE IF act # "ignore" /\ ~confident
    THEN [action |-> "ignore", target |-> NoMemory]
    ELSE [action |-> act, target |-> tgt]

\* Validator.validate: a revision of something that is not in the evidence becomes a
\* creation, at any confidence; what is left with too little confidence is ignored.
Validate(act, tgt, confident, ev) ==
    IF act \in Revisions /\ tgt \notin ev
    THEN [action |-> "create", target |-> NoMemory]
    ELSE IF act # "ignore" /\ ~confident
    THEN [action |-> "ignore", target |-> NoMemory]
    ELSE [action |-> act, target |-> tgt]

\* The evidence is searched, the LLM answers anything, its answer is validated.  It
\* may name any memory it likes as the target of a revision.
Consider(c) ==
    /\ obs[c].phase = "new"
    /\ \E ev \in Evidence(c), act \in Actions, tgt \in Target, confident \in BOOLEAN :
        /\ act \notin Revisions => tgt = NoMemory
        /\ LET decision == Validate(act, tgt, confident, ev)
           IN  obs' = [obs EXCEPT ![c] = Asked("decided", decision.action, decision.target, ev)]
    /\ UNCHANGED <<scope, mem, life, jobs, listed, purges>>

\* The LLM's answer cannot be parsed, a store fails or the process dies: the request
\* ends, its transaction rolled back.
Fail(c) ==
    /\ obs[c].phase \in {"new", "decided"}
    /\ obs' = [obs EXCEPT ![c].phase = "failed"]
    /\ UNCHANGED <<scope, mem, life, jobs, listed, purges>>

-----------------------------------------------------------------------------
\* The transaction (BEGIN IMMEDIATE): it reads the target again.

Fresh(c, version) ==
    [status |-> "stored", content |-> {c}, sources |-> {c}, version |-> version, heir |-> NoMemory]

\* Slip: an update does not count as a version.
RevisedUncounted(row, c, content) ==
    [row EXCEPT !.content = content, !.sources = @ \cup {c}]

Revised(row, c, content) ==
    [row EXCEPT !.content = content, !.sources = @ \cup {c}, !.version = @ + 1]

\* The target as the transaction finds it; NoMemory if there is none (any more).
Found(c) == IF obs[c].target \in Memories /\ mem[obs[c].target].status = "stored"
            THEN obs[c].target ELSE NoMemory

\* Slip: only a decision to create does; a vanished target drops the candidate.
CreatedIfAsked(c) == IF obs[c].action = "create" THEN [mem EXCEPT ![c] = Fresh(c, 1)] ELSE mem

\* CREATE, and what becomes of a revision whose target has vanished.
Created(c) == [mem EXCEPT ![c] = Fresh(c, 1)]

\* Slip: the superseded row is linked to itself.
SucceededBySelf(c, t) == [mem EXCEPT ![c] = Fresh(c, mem[t].version + 1), ![t].heir = t]

\* SUPERSEDE: a successor, and the link to it from the superseded row.
Succeeded(c, t) == [mem EXCEPT ![c] = Fresh(c, mem[t].version + 1), ![t].heir = c]

\* Reconciler.apply: the memories after the decision of c.  The target may have been
\* superseded since it was evidence; nothing looks.
Reconciled(c) ==
    LET t == Found(c)
        act == obs[c].action
    IN  CASE t = NoMemory -> Created(c)
          [] t # NoMemory /\ act = "update" -> [mem EXCEPT ![t] = Revised(@, c, {c})]
          [] t # NoMemory /\ act = "merge" -> [mem EXCEPT ![t] = Revised(@, c, @.content \cup {c})]
          [] t # NoMemory /\ act = "supersede" -> Succeeded(c, t)

\* The memory observe() returns.
Home(c) == IF obs[c].action \in {"update", "merge"} /\ Found(c) # NoMemory THEN Found(c) ELSE c

\* The evidence that is superseded by now, by this decision or by another request.
Outdated(c) == {m \in obs[c].evidence : Reconciled(c)[m].status = "stored" /\ Reconciled(c)[m].heir # NoMemory}

\* An ignored candidate changes nothing but the decisions log.
Ignore(c) ==
    /\ obs[c].phase = "decided"
    /\ obs[c].action = "ignore"
    /\ obs' = [obs EXCEPT ![c].phase = "ignored"]
    /\ UNCHANGED <<scope, mem, life, jobs, listed, purges>>

\* _commit_candidate: the memory, its lifecycle record, the archival of outdated
\* evidence and the sync jobs, all in one transaction.
Apply(c) ==
    /\ obs[c].phase = "decided"
    /\ obs[c].action # "ignore"
    /\ mem' = Reconciled(c)
    /\ life' = [m \in Memories |-> IF m \in Outdated(c) THEN "archived"
                                   ELSE IF m = Home(c) /\ life[m] = "none" THEN "active"
                                   ELSE life[m]]
    /\ jobs' = jobs \cup [kind : {"graph_sync", "knowledge_consolidate"}, memory : {Home(c)}, by : {c}]
                    \cup [kind : {"graph_mark_stale", "knowledge_reconsolidate"},
                          memory : Outdated(c), by : {c}]
    /\ obs' = [obs EXCEPT ![c].phase = "kept"]
    /\ UNCHANGED <<scope, listed, purges>>

-----------------------------------------------------------------------------
\* `aftermind memory audit --purge`: the live memories whose text the admission gate
\* would refuse today are listed first and deleted later, in one transaction.

ListRejected(ms) ==
    /\ purges < MaxPurges
    /\ listed = {}
    /\ ms # {}
    /\ \A m \in ms : Live(m)
    /\ listed' = ms
    /\ purges' = purges + 1
    /\ UNCHANGED <<scope, mem, life, jobs, obs>>

Purge ==
    /\ listed # {}
    /\ mem' = [m \in Memories |-> IF m \in listed THEN [mem[m] EXCEPT !.status = "purged"] ELSE mem[m]]
    /\ life' = [m \in Memories |-> IF m \in listed THEN "none" ELSE life[m]]
    /\ jobs' = {j \in jobs : j.memory \notin listed}
    /\ listed' = {}
    /\ UNCHANGED <<scope, obs, purges>>

-----------------------------------------------------------------------------
Next ==
    \/ \E c \in Candidates : Consider(c) \/ Fail(c) \/ Ignore(c) \/ Apply(c)
    \/ \E ms \in SUBSET Memories : ListRejected(ms)
    \/ Purge

Spec == Init /\ [][Next]_vars

-----------------------------------------------------------------------------
\* What concurrent requests and purges never break.

\* A superseded memory is retired in the transaction that supersedes it: archived,
\* with the jobs that will mark its edges and pages stale, though observe() looks
\* for superseded memories only among its evidence.
SupersededIsRetired ==
    \A m \in Memories : Stored(m) /\ Superseded(m) =>
        /\ life[m] = "archived"
        /\ \A k \in {"graph_mark_stale", "knowledge_reconsolidate"} :
            \E c \in Candidates : [kind |-> k, memory |-> m, by |-> c] \in jobs

\* Supersession never goes round in a circle, however many requests supersede the
\* same memory or each other's: a chain of heirs ends at a live or a purged memory.
ChainsEnd ==
    /\ \A m \in Memories : Stored(m) /\ Superseded(m) => mem[mem[m].heir].status # "absent"
    /\ \A ring \in SUBSET Memories : (\A m \in ring : mem[m].heir \in ring) => ring = {}

\* No candidate that was accepted gets lost or counted twice: it is a source of
\* exactly one memory, even if its target vanished before the transaction.
KeptIsRecorded ==
    \A c \in Candidates :
        Cardinality({m \in Memories : c \in mem[m].sources}) = IF obs[c].phase = "kept" THEN 1 ELSE 0

\* Scopes do not mix: whatever memory the LLM names, only candidates of a memory's
\* own scope revise or supersede it.
ScopesApart ==
    \A m \in Memories :
        /\ \A c \in mem[m].sources : scope[c] = scope[m]
        /\ Superseded(m) => scope[mem[m].heir] = scope[m]

\* No edit is lost: a change of a memory's text adds a source and a version to the
\* ones the row had, whenever the request read it.
EditsAreVersioned ==
    [][\A m \in Memories : Stored(m) =>
        /\ mem[m].sources \subseteq mem'[m].sources
        /\ mem'[m].content # mem[m].content =>
            mem'[m].version = mem[m].version + 1 /\ mem'[m].sources # mem[m].sources]_vars
=============================================================================
