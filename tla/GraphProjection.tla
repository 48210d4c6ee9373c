-------------------------- MODULE GraphProjection --------------------------
(***************************************************************************)
(* The graph as a view derived from the memories: the two graph handlers   *)
(* of the sync jobs (core/facade.py), triple extraction and the graph      *)
(* store (providers/graphiti, providers/inmemory/store.py), composed with  *)
(* Reconciliation, whose transactions record the jobs.                     *)
(*                                                                         *)
(* SyncOutbox says what happens to a job; here one is open until it is     *)
(* settled, open jobs run in any order (retries come after a backoff) and  *)
(* side by side (workers, eager threads), and one that breaks is retried.  *)
(***************************************************************************)
EXTENDS Reconciliation

CONSTANTS
    Facts,      \* the triples (source, relation, target)
    Plain,      \* the candidates whose text is one simple sentence that the patterns parse
    Relates,    \* what the patterns make of the relationships each candidate came with
    Group       \* the group of the graph that each scope is cleaned into, _scope_key

\* No relationships; a valid triple; nothing; or triples is_valid_triple refuses.
Relation == {"none", "parsed", "unparsed", "invalid"}

ASSUME ProjectionAssumption ==
    /\ Plain \subseteq Candidates
    /\ Relates \in [Candidates -> Relation]
    /\ DOMAIN Group = Scopes

VARIABLES
    states,     \* the triple each candidate states
    edges,      \* the live edges of the graph, per group
    past,       \* the historical edges
    running,    \* the graph jobs being executed, with the triples they extracted
    settled,    \* the jobs done
    invented    \* history: what the LLM gave beyond what it was shown states

graphVars == <<states, edges, past, running, settled, invented>>
allVars == <<vars, graphVars>>

Edge == {Group[s] : s \in Scopes} \X Facts
GraphJob == {j \in Job : j.kind \in {"graph_sync", "graph_mark_stale"}}

ProjectionTypeOK ==
    /\ TypeOK
    /\ states \in [Candidates -> Facts]
    /\ edges \subseteq Edge
    /\ past \subseteq Edge
    /\ running \subseteq [job : GraphJob, todo : SUBSET Edge]
    /\ settled \subseteq GraphJob
    /\ invented \subseteq Edge

ProjectionInit ==
    /\ Init
    /\ states \in [Candidates -> Facts]
    /\ edges = {}
    /\ past = {}
    /\ running = {}
    /\ settled = {}
    /\ invented = {}

-----------------------------------------------------------------------------

\* What candidate c states, as a fact of the scope of memory m.
FactOf(m, c) == <<Group[scope[m]], states[c]>>

\* The fast path: the relationships the memory was created with, which no revision
\* changes, or else its text as it is now, if that is one plain sentence.
Parsed(m) ==
    CASE Relates[m] = "parsed" -> {FactOf(m, m)}
      [] Relates[m] = "invalid" -> {}
      [] OTHER -> {FactOf(m, c) : c \in {d \in Plain : mem[m].content = {d}}}

\* What the LLM is shown otherwise: the relationships, if there are any, or the text.
Shown(m) == {FactOf(m, c) : c \in IF Relates[m] = "none" THEN mem[m].content ELSE {m}}

\* extract_validated_triples: the LLM may answer anything, each time anew, and nothing
\* when its answer is no list of triples or there is no extractor.
Extractions(m) == IF Parsed(m) # {} THEN {Parsed(m)}
                  ELSE SUBSET ({Group[scope[m]]} \X Facts)

\* A thread takes up an open job and reads the memory; a purged one has no triples.
Begin(j) ==
    /\ j \in jobs \cap GraphJob
    /\ j \notin settled
    /\ \A r \in running : r.job # j
    /\ \E todo \in IF Stored(j.memory) THEN Extractions(j.memory) ELSE {{}} :
        /\ running' = running \cup {[job |-> j, todo |-> todo]}
        /\ invented' = invented \cup (todo \ (Parsed(j.memory) \cup Shown(j.memory)))
    /\ UNCHANGED <<vars, states, edges, past, settled>>

\* sync_to_graph writes one triple: a live edge, unless there is one.
Upsert(r, e) ==
    /\ r.job.kind = "graph_sync"
    /\ e \in r.todo
    /\ edges' = edges \cup {e}
    /\ running' = (running \ {r}) \cup {[r EXCEPT !.todo = @ \ {e}]}
    /\ UNCHANGED <<vars, states, past, settled, invented>>

\* mark_stale_in_graph turns a live edge into a historical one.
MarkHistorical(r, e) ==
    /\ r.job.kind = "graph_mark_stale"
    /\ e \in r.todo
    /\ edges' = edges \ {e}
    /\ past' = past \cup (edges \cap {e})
    /\ running' = (running \ {r}) \cup {[r EXCEPT !.todo = @ \ {e}]}
    /\ UNCHANGED <<vars, states, settled, invented>>

\* The handler returns ...
Finish(r) ==
    /\ r.todo = {}
    /\ running' = running \ {r}
    /\ settled' = settled \cup {r.job}
    /\ UNCHANGED <<vars, states, edges, past, invented>>

\* Slip: the exception is swallowed, the job marked done.
BreakSilently(r) ==
    /\ running' = running \ {r}
    /\ settled' = settled \cup {r.job}
    /\ UNCHANGED <<vars, states, edges, past, invented>>

\* ... or raises, after some of its writes.
Break(r) ==
    /\ running' = running \ {r}
    /\ UNCHANGED <<vars, states, edges, past, settled, invented>>

ProjectionNext ==
    \/ Next /\ UNCHANGED graphVars
    \/ \E j \in jobs : Begin(j)
    \/ \E r \in running :
        \/ \E e \in r.todo : Upsert(r, e) \/ MarkHistorical(r, e)
        \/ Finish(r)
        \/ Break(r)

ProjectionSpec == ProjectionInit /\ [][ProjectionNext]_allVars

-----------------------------------------------------------------------------
\* The graph catches up with every text that needs no LLM: once the sync jobs of a
\* memory are settled, whatever ran before, after or beside them, the graph knows all
\* the memory states now, as live or as historical edges, although the job of an
\* earlier revision may read the text of a later one, or be overtaken by it.  Of a
\* text that the LLM reads nothing is promised: its job may be done with no triple.
GraphCatchesUp ==
    \A m \in Memories :
        Stored(m) /\ (\A j \in jobs : j.kind = "graph_sync" /\ j.memory = m => j \in settled)
            => Parsed(m) \subseteq edges \cup past

\* A group never learns a fact that no accepted candidate of its scopes stated, unless
\* the LLM made it up.
GraphScopesApart ==
    \A e \in (edges \cup past) \ invented :
        \E c \in Candidates : obs[c].phase = "kept" /\ FactOf(c, c) = e

\* An edge that was ever written stays queryable: it turns historical, and is never
\* deleted.
EdgesAreKept == [][edges \cup past \subseteq edges' \cup past']_allVars
=============================================================================
