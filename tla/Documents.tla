----------------------------- MODULE Documents -----------------------------
(***************************************************************************)
(* The knowledge pages as a view derived from the memories: clustering,    *)
(* consolidation, the page store (core/consolidation, the knowledge        *)
(* handlers of core/facade.py, providers/openknowledge), composed with     *)
(* Reconciliation, whose transactions record the jobs.                     *)
(*                                                                         *)
(* A consolidation reads the memories, asks the LLM, reads the page, reads *)
(* its version once more and writes it back; nothing locks the page, and   *)
(* jobs of workers and of request threads run side by side.  As in         *)
(* GraphProjection a job that breaks stays open and is retried.            *)
(***************************************************************************)
EXTENDS Reconciliation, SequencesExt

CONSTANTS
    Files,          \* the places pages are kept at
    Words,          \* the words of each candidate's text, numbered alphabetically
    Milestones,     \* the candidates observed at a milestone
    MilestoneSize,  \* DEFAULT_MEMORY_COUNT_THRESHOLD
    AutoSize,       \* AUTO_CONSOLIDATION_MEMORY_THRESHOLD
    GroupSizes,     \* the min_group_size of explicit calls, whatever the caller says
    MaxVersion,     \* bound on the writes of a page
    MaxThreads,     \* bound on the jobs that run at once
    MaxRequests     \* bound on the explicit calls of consolidate()

ASSUME DocumentsAssumption ==
    /\ \A c \in Candidates : Words[c] \subseteq Nat /\ Words[c] # {} /\ IsFiniteSet(Words[c])
    /\ Milestones \subseteq Candidates
    /\ GroupSizes \cup {MilestoneSize, AutoSize} \subseteq Int
    /\ MaxVersion \in Nat /\ MaxThreads \in Nat /\ MaxRequests \in Nat

VARIABLES
    remote,     \* pages are posted to an OpenKnowledge server, not written to local files
    place,      \* the file a scope key is cleaned into; two keys may give the same
    pages,      \* what is kept there
    threads,    \* the consolidations under way
    done,       \* the knowledge jobs done
    requests    \* explicit calls so far

docVars == <<remote, place, pages, threads, done, requests>>
knowledgeVars == <<vars, docVars>>

Topics == UNION {Words[c] : c \in Candidates}
StaleSize == 2
MinSources == 2

\* A KnowledgeDocument: which memories each section was written from, the provenance,
\* the version.  A file cut off in the middle of a write cannot be parsed; what it
\* held last stays here, as history.
Page == [state : {"none", "whole", "cut"}, sections : [Topics -> SUBSET Memories],
         sources : SUBSET Memories, version : Nat]
NoPage == [state |-> "none", sections |-> [t \in Topics |-> {}], sources |-> {}, version |-> 0]

KnowledgeJobs == {j \in jobs : j.kind \in {"knowledge_consolidate", "knowledge_reconsolidate"}}
Explicit == [kind |-> "explicit", memory |-> NoMemory, by |-> NoMemory]

\* A ConsolidationPlan: a cluster, its label, and where its first memory stood in the
\* listing, which is its place among the plans.
Plan == [first : Nat, topic : Topics, memories : SUBSET Memories]

\* A running consolidation: where it is, the smallest cluster it takes, the
\* headings a stale page had, the clusters still to write, the page as it was read, the
\* version it will get, and whether another write went into the file while this one
\* had it open.
Thread == [job : Job \cup {Explicit}, scope : Scopes, at : {"list", "plan", "copy", "number", "open"},
           size : Int, headings : SUBSET Topics, plans : SUBSET Plan,
           copy : Page, version : Nat, mixed : BOOLEAN]

DocTypeOK ==
    /\ remote \in BOOLEAN
    /\ place \in [Scopes -> Files]
    /\ pages \in [Files -> Page]
    /\ threads \subseteq Thread
    /\ done \subseteq Job
    /\ requests \in 0..MaxRequests

DocInit ==
    /\ Init
    /\ remote \in BOOLEAN
    /\ place \in [Scopes -> Files]
    /\ pages = [f \in Files |-> NoPage]
    /\ threads = {}
    /\ done = {}
    /\ requests = 0

-----------------------------------------------------------------------------
\* ConsolidationPlanner.

TextWords(m) == UNION {Words[c] : c \in mem[m].content}

\* _similarity reaches 0.2: the overlap, relative to the smaller set of words.
Similar(m, n) ==
    LET a == TextWords(m)
        b == TextWords(n)
        smaller == IF Cardinality(a) < Cardinality(b) THEN a ELSE b
    IN  5 * Cardinality(a \cap b) >= Cardinality(smaller)

\* _label: the most frequent word, the alphabetically last one if several are.
Label(group) ==
    LET count(w) == Cardinality({m \in group : w \in TextWords(m)})
        ahead(v, w) == count(v) > count(w) \/ (count(v) = count(w) /\ v >= w)
    IN  CHOOSE v \in Topics : \A w \in Topics : ahead(v, w)

\* Complete linkage: a memory joins the first group all of whose members are similar
\* to it, or starts one.  Groups go by the position of the memory that started them.
Groups(order) ==
    LET group[i \in DOMAIN order] ==
            Min({i} \cup {g \in 1..(i - 1) : /\ group[g] = g
                                            /\ \A j \in 1..(i - 1) :
                                                 group[j] = g => Similar(order[i], order[j])})
    IN  group

Plans(order, size) ==
    LET group == Groups(order)
        cluster(g) == {order[i] : i \in {j \in DOMAIN order : group[j] = g}}
    IN  {[first |-> g, topic |-> Label(cluster(g)), memories |-> cluster(g)] :
            g \in {k \in DOMAIN order : Cardinality(cluster(k)) >= size}}

\* Slip: the listing forgets the scope.
ListedAnywhere(s) == SetToSeqs({m \in Memories : Live(m)})

\* list_all: the live memories of the scope; the statement has no ORDER BY.
Listed(s) == SetToSeqs({m \in Memories : Live(m) /\ scope[m] = s})

-----------------------------------------------------------------------------
\* The jobs.

Start(j, s, size, headings) ==
    threads' = threads \cup {[job |-> j, scope |-> s, at |-> "list", size |-> size, headings |-> headings,
                              plans |-> {}, copy |-> NoPage, version |-> 0, mixed |-> FALSE]}

Free(j) == j \notin done /\ (\A r \in threads : r.job # j) /\ Cardinality(threads) < MaxThreads

\* _handle_knowledge_consolidate and the head of _reconsolidate_stale_page: a memory
\* gone, a page that is not there or was never written from this memory: nothing to
\* do.  A page that cannot be read breaks the job (which changes nothing here).
TakeUp(j) ==
    LET m == j.memory
        page == pages[place[scope[m]]]
        stale == j.kind = "knowledge_reconsolidate"
        idle == ~Stored(m) \/ (stale /\ m \notin page.sources)
    IN  /\ Free(j)
        /\ Stored(m) /\ stale => page.state # "cut"
        /\ IF idle THEN done' = done \cup {j} /\ UNCHANGED threads
           ELSE /\ IF stale THEN Start(j, scope[m], StaleSize, {t \in Topics : page.sections[t] # {}})
                   ELSE Start(j, scope[m], IF j.by \in Milestones THEN MilestoneSize ELSE AutoSize, Topics)
                /\ UNCHANGED done
        /\ UNCHANGED <<vars, remote, place, pages, requests>>

\* consolidate(), called with the slug of the page of s and any group size.
Consolidate(s, size) ==
    /\ requests < MaxRequests
    /\ Free(Explicit)
    /\ requests' = requests + 1
    /\ Start(Explicit, s, size, Topics)
    /\ UNCHANGED <<vars, remote, place, pages, done>>

\* Which clusters the job writes: at a milestone and on request all, else those of its
\* memory; for a stale page the ones the page has a section for.
Chosen(r, order) ==
    {p \in Plans(order, r.size) :
        CASE r.job.kind = "explicit" -> TRUE
          [] r.job.kind = "knowledge_reconsolidate" -> p.topic \in r.headings
          [] r.job.kind = "knowledge_consolidate" -> r.job.by \in Milestones \/ r.job.memory \in p.memories}

Becomes(r, next) == threads' = (threads \ {r}) \cup {next}

List(r) ==
    /\ r.at = "list"
    /\ \E plans \in {Chosen(r, order) : order \in Listed(r.scope)} :
        Becomes(r, [r EXCEPT !.at = "plan", !.plans = plans, !.size = 0, !.headings = {}])
    /\ UNCHANGED <<vars, remote, place, pages, done, requests>>

Readable(r) == pages[place[r.scope]].state # "cut"

\* The plan whose turn it is.
Current(r) == CHOOSE p \in r.plans : \A q \in r.plans : p.first <= q.first

\* Slip: no validator.
SynthesizeUnchecked(r) ==
    /\ r.at = "plan"
    /\ r.plans # {}
    /\ Readable(r)
    /\ Becomes(r, [r EXCEPT !.at = "copy", !.copy = pages[place[r.scope]]])
    /\ UNCHANGED <<vars, remote, place, pages, done, requests>>

\* The LLM writes the section.  The validator may refuse it, for its text or its
\* confidence, and does for its sources; else the page is read.
Synthesize(r) ==
    /\ r.at = "plan"
    /\ r.plans # {}
    /\ \/ Becomes(r, [r EXCEPT !.plans = @ \ {Current(r)}])
       \/ /\ Cardinality(Current(r).memories) >= MinSources
          /\ Readable(r)
          /\ Becomes(r, [r EXCEPT !.at = "copy", !.copy = pages[place[r.scope]]])
    /\ UNCHANGED <<vars, remote, place, pages, done, requests>>

\* save() reads the page once more, for its version.
Number(r) ==
    /\ r.at = "copy"
    /\ Readable(r)
    /\ pages[place[r.scope]].version < MaxVersion
    /\ Becomes(r, [r EXCEPT !.at = "number", !.version = pages[place[r.scope]].version + 1])
    /\ UNCHANGED <<vars, remote, place, pages, done, requests>>

\* Slip: the page is always built anew.
MergedAnew(r) ==
    LET p == Current(r)
    IN  [state |-> "whole", sections |-> [NoPage.sections EXCEPT ![p.topic] = p.memories],
         sources |-> r.copy.sources \cup p.memories, version |-> r.version]

\* LLMConsolidator.apply: the section of that heading is replaced or added, the
\* sources are joined.
Merged(r) ==
    LET p == Current(r)
    IN  [state |-> "whole", sections |-> [r.copy.sections EXCEPT ![p.topic] = p.memories],
         sources |-> r.copy.sources \cup p.memories, version |-> r.version]

Written(r) == [r EXCEPT !.at = "plan", !.plans = @ \ {Current(r)}, !.copy = NoPage, !.version = 0, !.mixed = FALSE]

\* RemoteOpenKnowledgeClient.write: one request.  The page travels in a comment, which
\* a text with the end of a comment in it cuts short.
Post(r) ==
    /\ remote
    /\ r.at = "number"
    /\ \/ pages' = [pages EXCEPT ![place[r.scope]] = Merged(r)]
       \/ pages' = [pages EXCEPT ![place[r.scope]].state = "cut"]
    /\ Becomes(r, Written(r))
    /\ UNCHANGED <<vars, remote, place, done, requests>>

\* LocalMarkdownClient.write: the file is emptied when it is opened ...
Open(r) ==
    /\ ~remote
    /\ r.at = "number"
    /\ pages' = [pages EXCEPT ![place[r.scope]].state = "cut"]
    /\ Becomes(r, [r EXCEPT !.at = "open"])
    /\ UNCHANGED <<vars, remote, place, done, requests>>

\* ... and gets its text when it is closed.  Of two that have it open the second to
\* close overwrites the first, whose end stays behind if it was longer.
Close(r) ==
    /\ r.at = "open"
    /\ \/ pages' = [pages EXCEPT ![place[r.scope]] = Merged(r)]
       \/ r.mixed /\ pages' = [pages EXCEPT ![place[r.scope]].state = "cut"]
    /\ threads' = {IF x.at = "open" /\ place[x.scope] = place[r.scope] THEN [x EXCEPT !.mixed = TRUE] ELSE x :
                      x \in threads \ {r}} \cup {Written(r)}
    /\ UNCHANGED <<vars, remote, place, done, requests>>

Settle(r) ==
    /\ r.at = "plan"
    /\ r.plans = {}
    /\ threads' = threads \ {r}
    /\ done' = IF r.job = Explicit THEN done ELSE done \cup {r.job}
    /\ UNCHANGED <<vars, remote, place, pages, requests>>

\* The LLM's answer cannot be parsed, the page cannot be read or the process dies.
GiveUp(r) ==
    /\ threads' = threads \ {r}
    /\ UNCHANGED <<vars, remote, place, pages, done, requests>>

DocNext ==
    \/ Next /\ UNCHANGED docVars
    \/ \E j \in KnowledgeJobs : TakeUp(j)
    \/ \E s \in Scopes, size \in GroupSizes : Consolidate(s, size)
    \/ \E r \in threads :
        \/ List(r)
        \/ Synthesize(r)
        \/ Number(r)
        \/ Post(r) \/ Open(r) \/ Close(r)
        \/ Settle(r) \/ GiveUp(r)

DocSpec == DocInit /\ [][DocNext]_knowledgeVars

-----------------------------------------------------------------------------
\* Whatever consolidations overlap, break or overwrite each other, every section of
\* a page rests on at least two memories, and the page names all of them as sources.
SectionsHaveSources ==
    \A f \in Files : \A t \in Topics :
        pages[f].sections[t] # {} =>
            /\ pages[f].sections[t] \subseteq pages[f].sources
            /\ Cardinality(pages[f].sections[t]) >= MinSources

\* A page is written from accepted memories only, and from those of its own scope,
\* whoever's job or call writes it, or of a scope whose key gives the same file.
PagesScopesApart ==
    \A f \in Files : \A m \in pages[f].sources : place[scope[m]] = f /\ mem[m].status # "absent"

\* One consolidation after the other, a page only grows: it keeps its sections and
\* its sources and its version goes up by one.  Only a writer whose copy or number is
\* out of date, another having written since, takes anything away.
OnlyOverlapsDrop ==
    [][\A f \in Files : LET p == pages[f]
                         q == pages'[f]
                     IN  p # q /\ q.state = "whole" =>
                            \/ /\ p.sources \subseteq q.sources
                               /\ \A t \in Topics : p.sections[t] # {} => q.sections[t] # {}
                               /\ q.version = p.version + 1
                            \/ \E r \in threads : /\ place[r.scope] = f
                                                  /\ r.at \in {"number", "open"}
                                                  /\ \/ r.copy # [p EXCEPT !.state = r.copy.state]
                                                     \/ r.version # p.version + 1]_knowledgeVars

-----------------------------------------------------------------------------
\* facade.py, _reconsolidate_stale_page: a section that a superseded memory fed is
\* derived again rather than left stale.  With all jobs done none is left.
StaleSectionsGo ==
    (KnowledgeJobs \subseteq done /\ threads = {}) =>
        \A f \in Files : pages[f].state = "whole" =>
            \A t \in Topics : \A m \in pages[f].sections[t] : Stored(m) => ~Superseded(m)
=============================================================================
