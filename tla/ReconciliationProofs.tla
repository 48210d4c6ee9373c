------------------------ MODULE ReconciliationProofs ------------------------
(***************************************************************************)
(* Theorems of Reconciliation and of the two views derived from it, the    *)
(* graph and the knowledge pages, for any candidates, scopes and limits.   *)
(* The views' steps leave the memories alone, so their invariants rest on  *)
(* Reconciliation's (NextInv) and stand beside it here.                    *)
(*                                                                         *)
(* The inductive invariant says what a decision carries into the           *)
(* transaction (DecisionsBacked) and what the rows owe to the requests     *)
(* (RowsBacked): a row exists only once its candidate was kept, and a      *)
(* candidate is a source of one row exactly when it was kept.              *)
(***************************************************************************)
EXTENDS GraphProjection, Documents, FiniteSetTheorems, TLAPS

\* A decision to revise names a memory of its evidence; evidence is of the
\* candidate's scope and was stored when it was read.
DecisionsBacked ==
    \A c \in Candidates : obs[c].phase = "decided" =>
        /\ obs[c].action \in Revisions => obs[c].target \in obs[c].evidence
        /\ obs[c].action \notin Revisions => obs[c].target = NoMemory
        /\ \A m \in obs[c].evidence : scope[m] = scope[c] /\ mem[m].status # "absent"

RowsBacked ==
    \A m \in Memories :
        /\ mem[m].status = "absent" => mem[m].sources = {} /\ mem[m].heir = NoMemory
        /\ mem[m].status # "absent" => obs[m].phase = "kept"
        /\ m \in listed => mem[m].status # "absent"

KeptOnce ==
    \A c \in Candidates :
        /\ obs[c].phase = "kept" => \E m \in Memories : c \in mem[m].sources
        /\ obs[c].phase # "kept" => \A m \in Memories : c \notin mem[m].sources
        /\ \A m1, m2 \in Memories : c \in mem[m1].sources /\ c \in mem[m2].sources => m1 = m2

HeirsKnown == \A m \in Memories : mem[m].heir # NoMemory => mem[mem[m].heir].status # "absent"

\* A text is put together from sources of its memory.
ContentSourced == \A m \in Memories : mem[m].content \subseteq mem[m].sources

JobsBacked == \A j \in jobs : obs[j.by].phase = "kept"

NoRing == \A ring \in SUBSET Memories : (\A m \in ring : mem[m].heir \in ring) => ring = {}

Inv == /\ TypeOK /\ DecisionsBacked /\ RowsBacked /\ KeptOnce
       /\ ContentSourced /\ JobsBacked
       /\ ScopesApart /\ HeirsKnown /\ NoRing /\ SupersededIsRetired

-----------------------------------------------------------------------------
LEMMA InitInv == Init => Inv
  <1> SUFFICES ASSUME Init PROVE Inv
    OBVIOUS
  <1> USE ReconciliationAssumption
  <1>1. TypeOK
    BY SMT DEF Init, TypeOK, Asked, MemoryRow, Request, Target, Memories, Actions, Revisions
  <1>2. DecisionsBacked /\ RowsBacked /\ KeptOnce /\ ScopesApart /\ HeirsKnown
    BY DEF Init, DecisionsBacked, RowsBacked, KeptOnce, ScopesApart, HeirsKnown, Asked, Memories, Superseded
  <1>3. NoRing
    <2> SUFFICES ASSUME NEW ring \in SUBSET Memories, \A m \in ring : mem[m].heir \in ring
                 PROVE  ring = {}
      BY DEF NoRing
    <2> QED
      BY DEF Init, Memories
  <1>4. SupersededIsRetired /\ ContentSourced /\ JobsBacked
    BY DEF Init, SupersededIsRetired, Stored, ContentSourced, JobsBacked
  <1> QED
    BY <1>1, <1>2, <1>3, <1>4 DEF Inv

\* The three things that applying a decision does to the memories.
LEMMA ApplyCases ==
  ASSUME Inv, NEW c \in Candidates, Apply(c)
  PROVE  /\ mem[c].status = "absent"
         /\ Home(c) \in Memories
         /\ \/ mem' = [mem EXCEPT ![c] = Fresh(c, 1)] /\ Home(c) = c
            \/ \E t \in obs[c].evidence, content \in SUBSET Candidates :
                /\ mem[t].status = "stored" /\ t # c /\ content \subseteq mem[t].content \cup {c}
                /\ mem' = [mem EXCEPT ![t] = Revised(mem[t], c, content)] /\ Home(c) = t
            \/ \E t \in obs[c].evidence :
                /\ mem[t].status = "stored" /\ t # c /\ Home(c) = c
                /\ mem' = [mem EXCEPT ![c] = Fresh(c, mem[t].version + 1), ![t].heir = c]
  <1> USE ReconciliationAssumption DEF Memories
  <1> DEFINE t == Found(c)
  <1>0. obs[c].phase = "decided" /\ obs[c].action # "ignore" /\ mem' = Reconciled(c)
    BY DEF Apply
  <1>1. /\ obs[c] \in Request /\ mem \in [Memories -> MemoryRow]
        /\ mem[c].status = "absent"
    BY <1>0 DEF Inv, TypeOK, RowsBacked
  <1>2. t = NoMemory \/ (t \in obs[c].evidence /\ t \in Candidates /\ mem[t].status = "stored" /\ t # c)
    BY <1>0, <1>1 DEF Found, Inv, DecisionsBacked, Request
  <1>3. Home(c) \in Memories
    BY <1>2 DEF Home
  <1>4. t # NoMemory => obs[c].action \in Revisions
    BY <1>0 DEF Found, Inv, DecisionsBacked
  <1>5. CASE t = NoMemory
    <2>1. mem' = [mem EXCEPT ![c] = Fresh(c, 1)] /\ Home(c) = c
      BY <1>0, <1>5 DEF Reconciled, Created, Home
    <2> QED
      BY <1>1, <1>3, <2>1
  <1>6. CASE t # NoMemory /\ obs[c].action = "update"
    <2>1. mem' = [mem EXCEPT ![t] = Revised(mem[t], c, {c})] /\ Home(c) = t
      BY <1>0, <1>1, <1>2, <1>6 DEF Reconciled, Home
    <2>2. {c} \in SUBSET Candidates
      OBVIOUS
    <2> QED
      BY <1>1, <1>2, <1>3, <1>6, <2>1, <2>2
  <1>7. CASE t # NoMemory /\ obs[c].action = "merge"
    <2>1. mem' = [mem EXCEPT ![t] = Revised(mem[t], c, mem[t].content \cup {c})] /\ Home(c) = t
      BY <1>0, <1>1, <1>2, <1>7 DEF Reconciled, Home
    <2>2. mem[t].content \cup {c} \in SUBSET Candidates
      BY <1>1, <1>2, <1>7 DEF MemoryRow
    <2> QED
      BY <1>1, <1>2, <1>3, <1>7, <2>1, <2>2
  <1>8. CASE t # NoMemory /\ obs[c].action = "supersede"
    <2>1. mem' = [mem EXCEPT ![c] = Fresh(c, mem[t].version + 1), ![t].heir = c] /\ Home(c) = c
      BY <1>0, <1>8 DEF Reconciled, Succeeded, Home
    <2> QED
      BY <1>1, <1>2, <1>3, <1>8, <2>1
  <1> QED
    BY <1>0, <1>1, <1>4, <1>5, <1>6, <1>7, <1>8 DEF Request, Actions, Revisions

\* The rows stay rows.
LEMMA ApplyRows ==
  ASSUME Inv, NEW c \in Candidates, Apply(c)
  PROVE  mem' \in [Memories -> MemoryRow]
  <1> USE ReconciliationAssumption DEF Memories
  <1>2. mem \in [Memories -> MemoryRow] /\ obs[c].evidence \subseteq Memories
    BY DEF Inv, TypeOK, Request
  <1>3. ASSUME mem' = [mem EXCEPT ![c] = Fresh(c, 1)]
        PROVE  mem' \in [Memories -> MemoryRow]
    BY <1>2, <1>3 DEF Fresh, MemoryRow, Target
  <1>4. ASSUME NEW t \in obs[c].evidence, NEW content \in SUBSET Candidates,
               mem' = [mem EXCEPT ![t] = Revised(mem[t], c, content)]
        PROVE  mem' \in [Memories -> MemoryRow]
    <2>1. mem[t] \in MemoryRow
      BY <1>2
    <2>2. mem[t].sources \cup {c} \in SUBSET Candidates /\ mem[t].version + 1 \in Nat
      BY <2>1 DEF MemoryRow
    <2>3. Revised(mem[t], c, content) \in MemoryRow
      BY <2>1, <2>2 DEF Revised, MemoryRow
    <2> QED
      BY <1>2, <1>4, <2>3
  <1>5. ASSUME NEW t \in obs[c].evidence, t # c,
               mem' = [mem EXCEPT ![c] = Fresh(c, mem[t].version + 1), ![t].heir = c]
        PROVE  mem' \in [Memories -> MemoryRow]
    <2>1. Fresh(c, mem[t].version + 1) \in MemoryRow /\ [mem[t] EXCEPT !.heir = c] \in MemoryRow
      BY <1>2 DEF Fresh, MemoryRow, Target
    <2> QED
      BY <1>2, <1>5, <2>1
  <1> QED
    BY <1>3, <1>4, <1>5, ApplyCases

\* The same, column by column.  One memory takes the candidate in as a source; a row
\* that gets an heir was evidence, and its heir is the candidate's own new row.
LEMMA ApplyColumns ==
  ASSUME Inv, NEW c \in Candidates, Apply(c)
  PROVE  /\ \A m \in Memories : mem[m].status # "absent" => mem'[m].status = mem[m].status
         /\ \A m \in Memories : mem[m].status = "absent" /\ mem'[m].status # "absent" => m = c /\ m = Home(c)
         /\ Home(c) \in Memories
         /\ scope[Home(c)] = scope[c] /\ mem'[Home(c)].status = "stored"
         /\ mem'[Home(c)].sources = mem[Home(c)].sources \cup {c}
         /\ mem'[Home(c)].content \subseteq mem[Home(c)].content \cup {c}
         /\ \A m \in Memories \ {Home(c)} :
              mem'[m].sources = mem[m].sources /\ mem'[m].content = mem[m].content
         /\ \A m \in Memories :
              \/ mem'[m].heir = mem[m].heir
              \/ /\ mem'[m].heir = c /\ m \in obs[c].evidence /\ m # c
                 /\ mem'[c].status = "stored"
         /\ mem'[c].heir = NoMemory
  <1> USE ReconciliationAssumption DEF Memories
  <1>1. /\ mem \in [Memories -> MemoryRow] /\ obs[c].evidence \subseteq Memories
        /\ mem[c].status = "absent" /\ mem[c].heir = NoMemory /\ mem[c].sources = {}
        /\ \A m \in obs[c].evidence : scope[m] = scope[c]
    BY DEF Inv, TypeOK, Request, RowsBacked, DecisionsBacked, Apply
  <1>2. CASE mem' = [mem EXCEPT ![c] = Fresh(c, 1)] /\ Home(c) = c
    <2>1. /\ mem'[c].status = "stored" /\ mem'[c].heir = NoMemory
          /\ mem'[c].sources = mem[c].sources \cup {c} /\ mem'[c].content = {c}
          /\ \A m \in Memories \ {c} : mem'[m] = mem[m]
      BY <1>1, <1>2 DEF Fresh
    <2> QED
      BY <1>1, <1>2, <2>1
  <1>3. ASSUME NEW t \in obs[c].evidence, NEW content \in SUBSET Candidates,
               mem[t].status = "stored", t # c,
               mem' = [mem EXCEPT ![t] = Revised(mem[t], c, content)]
        PROVE  /\ \A m \in Memories : mem'[m].status = mem[m].status /\ mem'[m].heir = mem[m].heir
               /\ scope[t] = scope[c] /\ t \in Memories /\ mem'[t].status = "stored"
               /\ mem'[t].sources = mem[t].sources \cup {c} /\ mem'[t].content = content
               /\ \A m \in Memories \ {t} :
                    mem'[m].sources = mem[m].sources /\ mem'[m].content = mem[m].content
    <2>1. mem[t] \in MemoryRow /\ \A m \in Memories \ {t} : mem'[m] = mem[m]
      BY <1>1, <1>3
    <2>2. mem'[t] = [mem[t] EXCEPT !.content = content, !.sources = mem[t].sources \cup {c},
                                   !.version = mem[t].version + 1]
      BY <1>1, <1>3 DEF Revised
    <2>3. /\ mem'[t].status = mem[t].status /\ mem'[t].heir = mem[t].heir
          /\ mem'[t].sources = mem[t].sources \cup {c} /\ mem'[t].content = content
      BY <2>1, <2>2 DEF MemoryRow
    <2> QED
      BY <1>1, <1>3, <2>1, <2>3
  <1>4. ASSUME NEW t \in obs[c].evidence, mem[t].status = "stored", t # c,
               mem' = [mem EXCEPT ![c] = Fresh(c, mem[t].version + 1), ![t].heir = c]
        PROVE  /\ mem'[c].status = "stored" /\ mem'[c].heir = NoMemory
               /\ mem'[c].sources = mem[c].sources \cup {c} /\ mem'[c].content = {c}
               /\ t \in Memories /\ mem'[t].heir = c
               /\ mem'[t].status = mem[t].status /\ mem'[t].sources = mem[t].sources
               /\ mem'[t].content = mem[t].content
               /\ \A m \in Memories \ {c, t} : mem'[m] = mem[m]
    BY <1>1, <1>4 DEF Fresh, MemoryRow
  <1>5. CASE \E t \in obs[c].evidence, content \in SUBSET Candidates :
               /\ mem[t].status = "stored" /\ t # c /\ content \subseteq mem[t].content \cup {c}
               /\ mem' = [mem EXCEPT ![t] = Revised(mem[t], c, content)] /\ Home(c) = t
    <2>1. PICK t \in obs[c].evidence, content \in SUBSET Candidates :
               /\ mem[t].status = "stored" /\ t # c /\ content \subseteq mem[t].content \cup {c}
               /\ mem' = [mem EXCEPT ![t] = Revised(mem[t], c, content)] /\ Home(c) = t
      BY <1>5
    <2>2. /\ \A m \in Memories : mem'[m].status = mem[m].status /\ mem'[m].heir = mem[m].heir
          /\ scope[t] = scope[c] /\ t \in Memories /\ mem'[t].status = "stored"
          /\ mem'[t].sources = mem[t].sources \cup {c} /\ mem'[t].content = content
          /\ \A m \in Memories \ {t} :
               mem'[m].sources = mem[m].sources /\ mem'[m].content = mem[m].content
      BY <2>1, <1>3
    <2> QED
      BY <1>1, <2>1, <2>2
  <1>6. CASE \E t \in obs[c].evidence :
               /\ mem[t].status = "stored" /\ t # c /\ Home(c) = c
               /\ mem' = [mem EXCEPT ![c] = Fresh(c, mem[t].version + 1), ![t].heir = c]
    <2>1. PICK t \in obs[c].evidence :
               /\ mem[t].status = "stored" /\ t # c /\ Home(c) = c
               /\ mem' = [mem EXCEPT ![c] = Fresh(c, mem[t].version + 1), ![t].heir = c]
      BY <1>6
    <2>2. /\ mem'[c].status = "stored" /\ mem'[c].heir = NoMemory
          /\ mem'[c].sources = mem[c].sources \cup {c} /\ mem'[c].content = {c}
          /\ t \in Memories /\ mem'[t].heir = c
          /\ mem'[t].status = mem[t].status /\ mem'[t].sources = mem[t].sources
          /\ mem'[t].content = mem[t].content
          /\ \A m \in Memories \ {c, t} : mem'[m] = mem[m]
      BY <2>1, <1>4
    <2> QED
      BY <1>1, <2>1, <2>2
  <1> QED
    BY <1>2, <1>5, <1>6, ApplyCases

\* Applying a decision keeps the invariant, part by part.
LEMMA ApplyInv ==
  ASSUME Inv, NEW c \in Candidates, Apply(c)
  PROVE  Inv'
  <1> USE ReconciliationAssumption DEF Memories
  <1>1. /\ obs[c].phase = "decided" /\ obs' = [obs EXCEPT ![c].phase = "kept"]
        /\ scope' = scope /\ listed' = listed /\ purges' = purges /\ mem' = Reconciled(c)
    BY DEF Apply
  <1>2. /\ obs \in [Candidates -> Request] /\ mem \in [Memories -> MemoryRow]
        /\ obs[c].evidence \subseteq Memories
    BY DEF Inv, TypeOK, Request
  <1>3. /\ obs'[c].phase = "kept"
        /\ \A d \in Candidates \ {c} : obs'[d] = obs[d]
        /\ obs' \in [Candidates -> Request]
    BY <1>1, <1>2 DEF Request
  <1>4. mem[c].status = "absent" /\ Home(c) \in Memories
    BY ApplyCases
  <1>5. Outdated(c) \subseteq Memories
    BY <1>2 DEF Outdated
  <1>6. TypeOK'
    <2>1. life' \in [Memories -> {"none", "active", "archived"}]
      BY DEF Apply, Inv, TypeOK
    <2>2. jobs' \subseteq Job
      BY <1>4, <1>5 DEF Apply, Inv, TypeOK, Job, Kinds
    <2>3. mem' \in [Memories -> MemoryRow]
      BY ApplyRows
    <2> QED
      BY <1>1, <1>3, <2>1, <2>2, <2>3 DEF Inv, TypeOK
  <1>7. DecisionsBacked'
    BY <1>1, <1>3, <1>2, ApplyColumns DEF Inv, DecisionsBacked, Request
  <1>8. RowsBacked'
    <2> SUFFICES ASSUME NEW m \in Memories
                 PROVE  /\ mem'[m].status = "absent" => mem'[m].sources = {} /\ mem'[m].heir = NoMemory
                        /\ mem'[m].status # "absent" => obs'[m].phase = "kept"
                        /\ m \in listed => mem'[m].status # "absent"
      BY <1>1 DEF RowsBacked
    <2>1. CASE mem'[m].status = "absent"
      <3>1. mem[m].status = "absent"
        BY <2>1, ApplyColumns
      <3>2. mem[m].sources = {} /\ mem[m].heir = NoMemory
        BY <3>1 DEF Inv, RowsBacked
      <3>3. m \notin obs[c].evidence
        BY <1>1, <3>1 DEF Inv, DecisionsBacked
      <3> QED
        BY <2>1, <3>1, <3>2, <3>3, ApplyColumns DEF Inv, RowsBacked
    <2>2. CASE mem'[m].status # "absent"
      <3>1. mem[m].status # "absent" => obs[m].phase = "kept"
        BY DEF Inv, RowsBacked
      <3> QED
        BY <1>3, <2>2, <3>1, ApplyColumns
    <2> QED
      BY <2>1, <2>2
  <1>9. KeptOnce'
    <2> DEFINE h == Home(c)
    <2>1. /\ h \in Memories /\ mem'[h].sources = mem[h].sources \cup {c}
          /\ \A m \in Memories \ {h} : mem'[m].sources = mem[m].sources
      BY ApplyColumns
    <2> HIDE DEF h
    <2>2. \A m \in Memories : c \notin mem[m].sources
      BY <1>1 DEF Inv, KeptOnce
    <2>3. \A m \in Memories : c \in mem'[m].sources <=> m = h
      BY <2>1, <2>2
    <2>4. \A d \in Candidates \ {c}, m \in Memories : d \in mem'[m].sources <=> d \in mem[m].sources
      BY <2>1
    <2>5. ASSUME NEW d \in Candidates \ {c}
          PROVE  /\ obs'[d].phase = "kept" => \E m \in Memories : d \in mem'[m].sources
                 /\ obs'[d].phase # "kept" => \A m \in Memories : d \notin mem'[m].sources
                 /\ \A m1, m2 \in Memories : d \in mem'[m1].sources /\ d \in mem'[m2].sources => m1 = m2
      BY <1>3, <2>4 DEF Inv, KeptOnce
    <2> QED
      BY <1>3, <2>1, <2>3, <2>5 DEF KeptOnce
  <1>10. ScopesApart'
    BY <1>1, ApplyColumns DEF Inv, ScopesApart, Superseded, DecisionsBacked
  <1>11. HeirsKnown'
    BY <1>2, ApplyColumns DEF Inv, HeirsKnown, TypeOK, MemoryRow, Target
  <1>12. NoRing'
    <2> SUFFICES ASSUME NEW ring \in SUBSET Memories, \A m \in ring : mem'[m].heir \in ring
                 PROVE  ring = {}
      BY DEF NoRing
    <2>1. c \notin ring
      BY ApplyColumns
    <2>2. \A m \in ring : mem'[m].heir = mem[m].heir
      BY <2>1, ApplyColumns
    <2> QED
      BY <2>2 DEF Inv, NoRing
  <1>13. SupersededIsRetired'
    <2> SUFFICES ASSUME NEW m \in Memories, mem'[m].status = "stored", mem'[m].heir # NoMemory,
                        NEW k \in {"graph_mark_stale", "knowledge_reconsolidate"}
                 PROVE  /\ life'[m] = "archived"
                        /\ \E d \in Candidates : [kind |-> k, memory |-> m, by |-> d] \in jobs'
      BY DEF SupersededIsRetired, Stored, Superseded
    <2>1. CASE m \in obs[c].evidence
      <3>1. m \in Outdated(c)
        BY <1>1, <2>1 DEF Outdated
      <3> QED
        BY <3>1 DEF Apply
    <2>2. CASE m \notin obs[c].evidence
      <3>1. mem'[m].heir = mem[m].heir
        BY <2>2, ApplyColumns
      <3>2. mem[m].status = "stored"
        <4>1. m # c
          BY <3>1, ApplyColumns
        <4> QED
          BY <4>1, ApplyColumns
      <3>3. /\ life[m] = "archived"
            /\ \E d \in Candidates : [kind |-> k, memory |-> m, by |-> d] \in jobs
        BY <3>1, <3>2 DEF Inv, SupersededIsRetired, Stored, Superseded
      <3> QED
        BY <3>3 DEF Apply
    <2> QED
      BY <2>1, <2>2
  <1>14. ContentSourced'
    BY ApplyColumns DEF Inv, ContentSourced
  <1>15. JobsBacked'
    BY <1>3 DEF Apply, Inv, JobsBacked, TypeOK, Job
  <1> QED
    BY <1>6, <1>7, <1>8, <1>9, <1>10, <1>11, <1>12, <1>13, <1>14, <1>15 DEF Inv

\* A purge changes the status column of live and listed rows, and forgets their jobs.
LEMMA PurgeInv == Inv /\ Purge => Inv'
  <1> SUFFICES ASSUME Inv, Purge PROVE Inv'
    OBVIOUS
  <1> USE ReconciliationAssumption DEF Memories
  <1>1. mem \in [Memories -> MemoryRow]
    BY DEF Inv, TypeOK
  <1>2. /\ \A m \in Memories : mem'[m].heir = mem[m].heir /\ mem'[m].sources = mem[m].sources
                                /\ mem'[m].content = mem[m].content
        /\ \A m \in Memories \ listed : mem'[m] = mem[m]
        /\ \A m \in Memories \cap listed : mem'[m].status = "purged"
        /\ mem' \in [Memories -> MemoryRow]
    BY <1>1 DEF Purge, MemoryRow
  <1>3. TypeOK'
    BY <1>2 DEF Purge, Inv, TypeOK
  <1>4. DecisionsBacked' /\ ScopesApart' /\ KeptOnce' /\ HeirsKnown'
    <2>1. scope' = scope /\ obs' = obs
      BY DEF Purge
    <2>2. \A m \in Memories : mem[m].status # "absent" => mem'[m].status # "absent"
      BY <1>2
    <2>3. \A d \in Candidates : obs[d].evidence \subseteq Memories
      BY DEF Inv, TypeOK, Request
    <2>4. DecisionsBacked'
      BY <2>1, <2>2, <2>3 DEF Inv, DecisionsBacked
    <2>5. ScopesApart' /\ KeptOnce'
      BY <1>2, <2>1 DEF Inv, ScopesApart, KeptOnce, Superseded
    <2>6. HeirsKnown'
      BY <1>1, <1>2, <2>2 DEF Inv, HeirsKnown, MemoryRow, Target
    <2> QED
      BY <2>4, <2>5, <2>6
  <1>5. RowsBacked'
    BY <1>2 DEF Purge, Inv, RowsBacked
  <1>6. NoRing'
    <2> SUFFICES ASSUME NEW ring \in SUBSET Memories, \A m \in ring : mem'[m].heir \in ring
                 PROVE  ring = {}
      BY DEF NoRing
    <2> QED
      BY <1>2 DEF Inv, NoRing
  <1>7. SupersededIsRetired'
    <2> SUFFICES ASSUME NEW m \in Memories, mem'[m].status = "stored", mem'[m].heir # NoMemory,
                        NEW k \in {"graph_mark_stale", "knowledge_reconsolidate"}
                 PROVE  /\ life'[m] = "archived"
                        /\ \E d \in Candidates : [kind |-> k, memory |-> m, by |-> d] \in jobs'
      BY DEF SupersededIsRetired, Stored, Superseded
    <2>1. m \notin listed /\ mem[m].status = "stored" /\ mem[m].heir # NoMemory
      BY <1>2
    <2>2. /\ life[m] = "archived"
          /\ \E d \in Candidates : [kind |-> k, memory |-> m, by |-> d] \in jobs
      BY <2>1 DEF Inv, SupersededIsRetired, Stored, Superseded
    <2> QED
      BY <2>1, <2>2 DEF Purge
  <1>8. ContentSourced' /\ JobsBacked'
    BY <1>2 DEF Purge, Inv, ContentSourced, JobsBacked
  <1> QED
    BY <1>3, <1>4, <1>5, <1>6, <1>7, <1>8 DEF Inv

\* The other actions touch no row.
LEMMA StepInv == Inv /\ [Next]_vars => Inv'
  <1> SUFFICES ASSUME Inv, [Next]_vars PROVE Inv'
    OBVIOUS
  <1> USE ReconciliationAssumption
  <1>1. ASSUME NEW c \in Candidates, Consider(c)
        PROVE  Inv'
    <2>1. PICK ev \in Evidence(c), act \in Actions, tgt \in Target, confident \in BOOLEAN :
            /\ act \notin Revisions => tgt = NoMemory
            /\ obs' = [obs EXCEPT ![c] = Asked("decided", Validate(act, tgt, confident, ev).action,
                                               Validate(act, tgt, confident, ev).target, ev)]
      BY <1>1 DEF Consider
    <2> DEFINE d == Validate(act, tgt, confident, ev)
    <2>2. /\ d.action \in Actions /\ d.target \in Target
          /\ d.action \in Revisions => d.target \in ev
          /\ d.action \notin Revisions => d.target = NoMemory
      BY <2>1 DEF Validate, Actions, Revisions, Target
    <2>3. \A m \in ev : m \in Memories /\ scope[m] = scope[c] /\ mem[m].status = "stored"
      BY DEF Evidence, Live, Stored
    <2>4. /\ obs' \in [Candidates -> Request]
          /\ obs'[c].phase = "decided" /\ obs[c].phase = "new"
          /\ obs'[c].action = d.action /\ obs'[c].target = d.target /\ obs'[c].evidence = ev
          /\ \A b \in Candidates \ {c} : obs'[b] = obs[b]
      BY <1>1, <2>1, <2>2, <2>3 DEF Consider, Asked, Request, Inv, TypeOK
    <2>5. UNCHANGED <<scope, mem, life, jobs, listed, purges>>
      BY <1>1 DEF Consider
    <2>6. TypeOK'
      BY <2>4, <2>5 DEF Inv, TypeOK
    <2>7. DecisionsBacked'
      BY <2>2, <2>3, <2>4, <2>5 DEF Inv, DecisionsBacked
    <2>8. RowsBacked' /\ KeptOnce' /\ JobsBacked'
      BY <2>4, <2>5 DEF Inv, RowsBacked, KeptOnce, JobsBacked, TypeOK, Job, Memories
    <2>9. ScopesApart' /\ HeirsKnown' /\ NoRing' /\ SupersededIsRetired' /\ ContentSourced'
      BY <2>5 DEF Inv, ScopesApart, HeirsKnown, NoRing, SupersededIsRetired, ContentSourced, Stored, Superseded
    <2> QED
      BY <2>6, <2>7, <2>8, <2>9 DEF Inv
  <1>2. ASSUME NEW c \in Candidates, NEW ph \in {"failed", "ignored"}, obs[c].phase \in {"new", "decided"},
               obs' = [obs EXCEPT ![c].phase = ph],
               UNCHANGED <<scope, mem, life, jobs, listed, purges>>
        PROVE  Inv'
    <2>1. /\ obs' \in [Candidates -> Request]
          /\ obs'[c].phase = ph
          /\ \A b \in Candidates \ {c} : obs'[b] = obs[b]
      BY <1>2 DEF Request, Inv, TypeOK
    <2>2. TypeOK'
      BY <1>2, <2>1 DEF Inv, TypeOK
    <2>3. DecisionsBacked'
      BY <1>2, <2>1 DEF Inv, DecisionsBacked
    <2>4. RowsBacked' /\ KeptOnce' /\ JobsBacked'
      BY <1>2, <2>1 DEF Inv, RowsBacked, KeptOnce, JobsBacked, TypeOK, Job, Memories
    <2>5. ScopesApart' /\ HeirsKnown' /\ NoRing' /\ SupersededIsRetired' /\ ContentSourced'
      BY <1>2 DEF Inv, ScopesApart, HeirsKnown, NoRing, SupersededIsRetired, ContentSourced, Stored, Superseded
    <2> QED
      BY <2>2, <2>3, <2>4, <2>5 DEF Inv
  <1>3. ASSUME NEW c \in Candidates, Fail(c) PROVE Inv'
    BY <1>2, <1>3 DEF Fail
  <1>4. ASSUME NEW c \in Candidates, Ignore(c) PROVE Inv'
    BY <1>2, <1>4 DEF Ignore
  <1>5. ASSUME NEW c \in Candidates, Apply(c) PROVE Inv'
    BY <1>5, ApplyInv
  <1>6. ASSUME NEW ms \in SUBSET Memories, ListRejected(ms) PROVE Inv'
    <2>1. TypeOK'
      BY <1>6 DEF ListRejected, Inv, TypeOK
    <2>2. RowsBacked'
      BY <1>6 DEF ListRejected, Inv, RowsBacked, Live, Stored
    <2>3. DecisionsBacked' /\ KeptOnce' /\ ScopesApart' /\ HeirsKnown' /\ NoRing' /\ SupersededIsRetired'
      BY <1>6 DEF ListRejected, Inv, DecisionsBacked, KeptOnce, ScopesApart, HeirsKnown, NoRing,
                  SupersededIsRetired, Stored, Superseded
    <2>4. ContentSourced' /\ JobsBacked'
      BY <1>6 DEF ListRejected, Inv, ContentSourced, JobsBacked
    <2> QED
      BY <2>1, <2>2, <2>3, <2>4 DEF Inv
  <1>7. CASE Purge
    BY <1>7, PurgeInv
  <1>8. CASE UNCHANGED vars
    <2>1. TypeOK'
      BY <1>8 DEF vars, Inv, TypeOK
    <2>2. DecisionsBacked' /\ RowsBacked' /\ KeptOnce' /\ ContentSourced' /\ JobsBacked'
      BY <1>8 DEF vars, Inv, DecisionsBacked, RowsBacked, KeptOnce, ContentSourced, JobsBacked
    <2>3. ScopesApart' /\ HeirsKnown' /\ NoRing' /\ SupersededIsRetired'
      BY <1>8 DEF vars, Inv, ScopesApart, HeirsKnown, NoRing, SupersededIsRetired, Stored, Superseded
    <2> QED
      BY <2>1, <2>2, <2>3 DEF Inv
  <1> QED
    BY <1>1, <1>3, <1>4, <1>5, <1>6, <1>7, <1>8 DEF Next

\* A step that changes the text of a row is the revision of a stored memory by a
\* candidate that was no source of it before.
LEMMA StepVersions == Inv /\ [Next]_vars =>
  \A m \in Memories : Stored(m) =>
    /\ mem[m].sources \subseteq mem'[m].sources
    /\ mem'[m].content # mem[m].content =>
        mem'[m].version = mem[m].version + 1 /\ mem'[m].sources # mem[m].sources
  <1> SUFFICES ASSUME Inv, [Next]_vars, NEW m \in Memories, mem[m].status = "stored"
               PROVE  /\ mem[m].sources \subseteq mem'[m].sources
                      /\ mem'[m].content # mem[m].content =>
                          mem'[m].version = mem[m].version + 1 /\ mem'[m].sources # mem[m].sources
    BY DEF Stored
  <1>1. mem \in [Memories -> MemoryRow]
    BY DEF Inv, TypeOK
  <1>2. CASE mem' = mem
    BY <1>2
  <1>3. CASE Purge
    <2>1. mem'[m].sources = mem[m].sources /\ mem'[m].content = mem[m].content
      BY <1>1, <1>3 DEF Purge, MemoryRow
    <2> QED
      BY <2>1
  <1>4. ASSUME NEW c \in Candidates, Apply(c)
        PROVE  \/ mem'[m] = mem[m]
               \/ mem'[m].content = mem[m].content /\ mem'[m].sources = mem[m].sources
               \/ /\ mem'[m].version = mem[m].version + 1
                  /\ mem'[m].sources = mem[m].sources \cup {c} /\ c \notin mem[m].sources
    <2>1. mem[c].status = "absent" /\ m # c
      BY <1>4, ApplyCases
    <2>2. c \notin mem[m].sources
      BY <1>4 DEF Apply, Inv, KeptOnce
    <2>3. CASE mem' = [mem EXCEPT ![c] = Fresh(c, 1)]
      BY <1>1, <2>1, <2>3
    <2>4. ASSUME NEW t \in obs[c].evidence, NEW content \in SUBSET Candidates,
                 mem' = [mem EXCEPT ![t] = Revised(mem[t], c, content)]
          PROVE  \/ mem'[m] = mem[m]
                 \/ mem'[m].version = mem[m].version + 1 /\ mem'[m].sources = mem[m].sources \cup {c}
      <3>1. m # t => mem'[m] = mem[m]
        BY <1>1, <2>4
      <3>2. m = t => mem'[m] = Revised(mem[m], c, content)
        BY <1>1, <2>4
      <3>3. mem[m] \in MemoryRow
        BY <1>1
      <3>4. m = t => mem'[m].version = mem[m].version + 1 /\ mem'[m].sources = mem[m].sources \cup {c}
        BY <3>2, <3>3 DEF Revised, MemoryRow
      <3> QED
        BY <3>1, <3>4
    <2>5. ASSUME NEW t \in obs[c].evidence,
                 mem' = [mem EXCEPT ![c] = Fresh(c, mem[t].version + 1), ![t].heir = c]
          PROVE  mem'[m].content = mem[m].content /\ mem'[m].sources = mem[m].sources
      BY <1>1, <2>1, <2>5 DEF MemoryRow
    <2> QED
      BY <1>4, <2>2, <2>3, <2>4, <2>5, ApplyCases
  <1>5. \/ mem' = mem
        \/ Purge
        \/ \E c \in Candidates : Apply(c)
    BY DEF Next, vars, Consider, Fail, Ignore, ListRejected
  <1> QED
    BY <1>2, <1>3, <1>4, <1>5

-----------------------------------------------------------------------------
\* The invariant holds in every state.
LEMMA Invariance == Spec => []Inv
  <1> QED
    BY InitInv, StepInv, PTL DEF Spec

\* Every state is well typed, for any candidates, scopes, evidence limit and purges.
THEOREM TypeCorrect == Spec => []TypeOK
  <1>1. Inv => TypeOK
    BY DEF Inv
  <1> QED
    BY <1>1, Invariance, PTL

\* A superseded memory is archived and its jobs are recorded, although observe() looks
\* for superseded memories only among the evidence it read earlier: what it supersedes
\* is in that evidence, because the validator lets no other target through.
THEOREM SupersededRetired == Spec => []SupersededIsRetired
  <1>1. Inv => SupersededIsRetired
    BY DEF Inv
  <1> QED
    BY <1>1, Invariance, PTL

\* Supersession makes no circle: an heir is always the row a transaction inserts, and
\* a row without an heir is on none.
THEOREM ChainsAlwaysEnd == Spec => []ChainsEnd
  <1>1. Inv => ChainsEnd
    BY DEF Inv, ChainsEnd, HeirsKnown, NoRing, Stored, Superseded
  <1> QED
    BY <1>1, Invariance, PTL

\* Accepted candidates are a source of exactly one memory, the others of none.
THEOREM RecordedOnce == Spec => []KeptIsRecorded
  <1>1. Inv => KeptIsRecorded
    <2> SUFFICES ASSUME Inv, NEW c \in Candidates
                 PROVE  Cardinality({m \in Memories : c \in mem[m].sources})
                            = IF obs[c].phase = "kept" THEN 1 ELSE 0
      BY DEF KeptIsRecorded
    <2>1. CASE obs[c].phase = "kept"
      <3>1. PICK h \in Memories : c \in mem[h].sources
        BY <2>1 DEF Inv, KeptOnce
      <3>2. {m \in Memories : c \in mem[m].sources} = {h}
        BY <3>1 DEF Inv, KeptOnce
      <3> QED
        BY <2>1, <3>2, FS_Singleton
    <2>2. CASE obs[c].phase # "kept"
      <3>1. {m \in Memories : c \in mem[m].sources} = {}
        BY <2>2 DEF Inv, KeptOnce
      <3> QED
        BY <2>2, <3>1, FS_EmptySet
    <2> QED
      BY <2>1, <2>2
  <1> QED
    BY <1>1, Invariance, PTL

\* Only candidates of a memory's own scope revise or supersede it, whatever target
\* the LLM names.
THEOREM ScopesStayApart == Spec => []ScopesApart
  <1>1. Inv => ScopesApart
    BY DEF Inv
  <1> QED
    BY <1>1, Invariance, PTL

\* No revision is lost: each adds one version and one source to the row as it is then.
THEOREM EditsCounted == Spec => EditsAreVersioned
  <1>1. Inv /\ [Next]_vars => [\A m \in Memories : Stored(m) =>
            /\ mem[m].sources \subseteq mem'[m].sources
            /\ mem'[m].content # mem[m].content =>
                mem'[m].version = mem[m].version + 1 /\ mem'[m].sources # mem[m].sources]_vars
    BY StepVersions
  <1> QED
    BY <1>1, Invariance, PTL DEF Spec, EditsAreVersioned

-----------------------------------------------------------------------------
(***************************************************************************)
(* GraphProjection.                                                        *)
(*                                                                         *)
(* That settled jobs brought all the patterns find into the graph          *)
(* is not inductive by itself: the job that did may belong to an earlier   *)
(* revision.  SyncsReach names the one job that always will have: the job  *)
(* of the last revision, which can only be begun after that revision.      *)
(***************************************************************************)
\* What was taken up or settled was recorded with an accepted candidate.
RunsBacked ==
    /\ \A r \in running : obs[r.job.by].phase = "kept"
    /\ \A j \in settled : obs[j.by].phase = "kept"

SyncJob(m, c) == [kind |-> "graph_sync", memory |-> m, by |-> c]

\* The job has left, or is about to leave, in the graph all that the patterns make of
\* the memory.
Covers(j, m) ==
    /\ j \in settled => Parsed(m) \subseteq edges \cup past
    /\ \A r \in running : r.job = j => Parsed(m) \subseteq r.todo \cup edges \cup past

SyncsReach ==
    \A m \in Memories : Stored(m) =>
        \E c \in Candidates : SyncJob(m, c) \in jobs /\ Covers(SyncJob(m, c), m)

\* An accepted candidate states the triple.
Stated(e) == \E c \in Candidates : obs[c].phase = "kept" /\ FactOf(c, c) = e

AllStated ==
    /\ \A e \in (edges \cup past) \ invented : Stated(e)
    /\ \A r \in running : \A e \in r.todo \ invented : Stated(e)

ProjectionInv == Inv /\ ProjectionTypeOK /\ RunsBacked /\ SyncsReach /\ AllStated

-----------------------------------------------------------------------------
\* Whatever is extracted from a stored memory is an edge of its group; what the
\* patterns find and what the LLM is shown is stated by candidates kept.
LEMMA TriplesStated ==
  ASSUME Inv, states \in [Candidates -> Facts], NEW m \in Memories, Stored(m)
  PROVE  /\ \A todo \in Extractions(m) : todo \subseteq Edge /\ Parsed(m) \subseteq todo
         /\ \A e \in Parsed(m) \cup Shown(m) : Stated(e)
  <1> USE DEF Memories
  <1>1. /\ scope \in [Candidates -> Scopes] /\ mem[m] \in MemoryRow
        /\ obs[m].phase = "kept"
    BY DEF Inv, TypeOK, RowsBacked, Stored
  <1>2. \A c \in mem[m].content : c \in Candidates /\ scope[c] = scope[m] /\ obs[c].phase = "kept"
    BY <1>1 DEF Inv, ContentSourced, ScopesApart, KeptOnce, MemoryRow
  <1>3. \A c \in mem[m].content \cup {m} : FactOf(m, c) \in Edge /\ Stated(FactOf(m, c))
    BY <1>1, <1>2 DEF FactOf, Edge, Stated
  <1>4. \A e \in Parsed(m) \cup Shown(m) : \E c \in mem[m].content \cup {m} : e = FactOf(m, c)
    BY DEF Parsed, Shown
  <1>5. {Group[scope[m]]} \X Facts \subseteq Edge
    BY <1>1 DEF Edge
  <1>6. \A todo \in Extractions(m) : todo \subseteq Edge /\ Parsed(m) \subseteq todo
    <2>1. CASE Parsed(m) # {}
      BY <1>3, <1>4, <2>1 DEF Extractions
    <2>2. CASE Parsed(m) = {}
      BY <1>5, <2>2 DEF Extractions
    <2> QED
      BY <2>1, <2>2
  <1> QED
    BY <1>3, <1>4, <1>6

\* What the patterns find depends on the text, the scope and what the candidates state.
LEMMA ParsedKept ==
  ASSUME NEW m \in Memories, mem'[m].content = mem[m].content, scope' = scope, states' = states
  PROVE  Parsed(m)' = Parsed(m)
  BY DEF Parsed, FactOf

\* An accepted candidate stays accepted, in its scope.
LEMMA KeptStays ==
  ASSUME Inv, [Next]_vars
  PROVE  scope' = scope /\ \A c \in Candidates : obs[c].phase = "kept" => obs'[c].phase = "kept"
  <1>1. obs \in [Candidates -> Request]
    BY DEF Inv, TypeOK
  <1>2. ASSUME NEW c \in Candidates, Consider(c) \/ Fail(c) \/ Ignore(c)
        PROVE  scope' = scope /\ obs[c].phase # "kept" /\ \A d \in Candidates \ {c} : obs'[d] = obs[d]
    BY <1>1, <1>2 DEF Consider, Fail, Ignore
  <1>3. ASSUME NEW c \in Candidates, Apply(c)
        PROVE  scope' = scope /\ obs'[c].phase = "kept" /\ \A d \in Candidates \ {c} : obs'[d] = obs[d]
    BY <1>1, <1>3 DEF Apply, Request
  <1>4. ASSUME NEW ms \in SUBSET Memories, ListRejected(ms)
        PROVE  scope' = scope /\ obs' = obs
    BY <1>4 DEF ListRejected
  <1>5. CASE Purge
    BY <1>5 DEF Purge
  <1>6. CASE UNCHANGED vars
    BY <1>6 DEF vars
  <1> QED
    BY <1>2, <1>3, <1>4, <1>5, <1>6 DEF Next

-----------------------------------------------------------------------------
LEMMA ProjectionInitInv == ProjectionInit => ProjectionInv
  <1> SUFFICES ASSUME ProjectionInit PROVE ProjectionInv
    OBVIOUS
  <1>1. Inv
    BY InitInv DEF ProjectionInit
  <1>2. ProjectionTypeOK
    BY <1>1 DEF ProjectionInit, ProjectionTypeOK, Inv
  <1>3. RunsBacked /\ AllStated
    BY DEF ProjectionInit, RunsBacked, AllStated
  <1>4. SyncsReach
    BY DEF ProjectionInit, Init, SyncsReach, Stored
  <1> QED
    BY <1>1, <1>2, <1>3, <1>4 DEF ProjectionInv

\* A step of Reconciliation: what it changes about the graph's sources.
LEMMA SourceStepInv ==
  ASSUME ProjectionInv, Next, UNCHANGED graphVars
  PROVE  ProjectionInv'
  <1>1. Inv'
    BY StepInv DEF ProjectionInv
  <1>2. /\ scope' = scope /\ states' = states /\ edges' = edges /\ past' = past
        /\ running' = running /\ settled' = settled /\ invented' = invented
        /\ \A c \in Candidates : obs[c].phase = "kept" => obs'[c].phase = "kept"
    BY KeptStays DEF graphVars, ProjectionInv
  <1>3. ProjectionTypeOK'
    BY <1>1, <1>2 DEF ProjectionInv, ProjectionTypeOK, Inv
  <1>4. /\ \A r \in running : r.job.by \in Candidates
        /\ \A j \in settled : j.by \in Candidates
    BY DEF ProjectionInv, ProjectionTypeOK, GraphJob, Job
  <1>5. RunsBacked'
    BY <1>2, <1>4 DEF ProjectionInv, RunsBacked
  <1>6. AllStated'
    BY <1>2 DEF ProjectionInv, AllStated, Stated, FactOf
  <1>7. ASSUME NEW m \in Memories, Stored(m), mem'[m].content = mem[m].content,
               \A c \in Candidates : SyncJob(m, c) \in jobs => SyncJob(m, c) \in jobs'
        PROVE  \E c \in Candidates : SyncJob(m, c) \in jobs' /\ Covers(SyncJob(m, c), m)'
    <2>1. Parsed(m)' = Parsed(m)
      BY <1>2, <1>7, ParsedKept
    <2>2. PICK c \in Candidates : SyncJob(m, c) \in jobs /\ Covers(SyncJob(m, c), m)
      BY <1>7 DEF ProjectionInv, SyncsReach
    <2>3. Covers(SyncJob(m, c), m)'
      BY <1>2, <2>1, <2>2 DEF Covers, SyncJob
    <2> QED
      BY <1>7, <2>2, <2>3
  <1>8. SyncsReach'
    <2> SUFFICES ASSUME NEW m \in Memories, mem'[m].status = "stored"
                 PROVE  \E c \in Candidates : SyncJob(m, c) \in jobs' /\ Covers(SyncJob(m, c), m)'
      BY DEF SyncsReach, Stored, SyncJob
    <2>1. ASSUME NEW c \in Candidates, Apply(c), m = Home(c)
          PROVE  SyncJob(m, c) \in jobs' /\ Covers(SyncJob(m, c), m)'
      <3>1. SyncJob(m, c) \in jobs'
        BY <2>1 DEF Apply, SyncJob
      <3>2. obs[c].phase # "kept"
        BY <2>1 DEF Apply
      <3>3. SyncJob(m, c) \notin settled /\ \A r \in running : r.job # SyncJob(m, c)
        BY <3>2 DEF ProjectionInv, RunsBacked, SyncJob
      <3> QED
        BY <1>2, <3>1, <3>3 DEF Covers, SyncJob
    <2>2. ASSUME NEW c \in Candidates, Apply(c), m # Home(c)
          PROVE  \E d \in Candidates : SyncJob(m, d) \in jobs' /\ Covers(SyncJob(m, d), m)'
      <3>1. mem[m].status # "absent" /\ mem'[m].content = mem[m].content
        BY <2>2, ApplyColumns DEF ProjectionInv
      <3>2. Stored(m)
        BY <2>2, <3>1, ApplyColumns DEF ProjectionInv, Stored
      <3>3. jobs \subseteq jobs'
        BY <2>2 DEF Apply
      <3> QED
        BY <1>7, <3>1, <3>2, <3>3
    <2>3. ASSUME mem' = mem, jobs' = jobs
          PROVE  \E d \in Candidates : SyncJob(m, d) \in jobs' /\ Covers(SyncJob(m, d), m)'
      BY <1>7, <2>3 DEF Stored
    <2>4. CASE Purge
      <3>1. mem \in [Memories -> MemoryRow]
        BY DEF ProjectionInv, Inv, TypeOK
      <3>2. m \notin listed /\ mem'[m] = mem[m]
        BY <2>4, <3>1 DEF Purge, MemoryRow
      <3>3. \A c \in Candidates : SyncJob(m, c) \in jobs => SyncJob(m, c) \in jobs'
        BY <2>4, <3>2 DEF Purge, SyncJob
      <3> QED
        BY <1>7, <3>2, <3>3 DEF Stored
    <2>5. \/ \E c \in Candidates : Apply(c)
          \/ mem' = mem /\ jobs' = jobs
          \/ Purge
      BY DEF Next, Consider, Fail, Ignore, ListRejected
    <2> QED
      BY <2>1, <2>2, <2>3, <2>4, <2>5
  <1> QED
    BY <1>1, <1>3, <1>5, <1>6, <1>8 DEF ProjectionInv

\* A step of the graph jobs: the memories and their jobs stay as they are.
LEMMA GraphStepInv ==
  ASSUME ProjectionInv, UNCHANGED vars,
         \/ \E j \in jobs : Begin(j)
         \/ \E r \in running :
              \/ \E e \in r.todo : Upsert(r, e) \/ MarkHistorical(r, e)
              \/ Finish(r)
              \/ Break(r)
  PROVE  ProjectionInv'
  <1>1. Inv' /\ TypeOK'
    BY StepInv DEF ProjectionInv, Inv
  <1>2. /\ mem' = mem /\ scope' = scope /\ jobs' = jobs /\ obs' = obs
        /\ \A m \in Memories : Stored(m)' = Stored(m)
    BY DEF vars, Stored
  <1>3. /\ states \in [Candidates -> Facts] /\ edges \subseteq Edge /\ past \subseteq Edge
        /\ running \subseteq [job : GraphJob, todo : SUBSET Edge] /\ settled \subseteq GraphJob
        /\ invented \subseteq Edge
    BY DEF ProjectionInv, ProjectionTypeOK
  <1>4. SUFFICES ASSUME states' = states
                 PROVE  ProjectionTypeOK' /\ RunsBacked' /\ SyncsReach' /\ AllStated'
    BY <1>1 DEF ProjectionInv, Begin, Upsert, MarkHistorical, Finish, Break
  <1>5. \A m \in Memories : Parsed(m)' = Parsed(m)
    BY <1>2, <1>4, ParsedKept
  <1>6. ASSUME NEW j \in jobs, Begin(j)
        PROVE  ProjectionTypeOK' /\ RunsBacked' /\ SyncsReach' /\ AllStated'
    <2>1. j \in GraphJob /\ j.memory \in Memories /\ obs[j.by].phase = "kept"
      BY <1>6 DEF Begin, GraphJob, ProjectionInv, Inv, JobsBacked, TypeOK, Job
    <2>0. PICK todo \in IF Stored(j.memory) THEN Extractions(j.memory) ELSE {{}} :
            /\ running' = running \cup {[job |-> j, todo |-> todo]}
            /\ invented' = invented \cup (todo \ (Parsed(j.memory) \cup Shown(j.memory)))
            /\ edges' = edges /\ past' = past /\ settled' = settled
      BY <1>6 DEF Begin
    <2> DEFINE new == [job |-> j, todo |-> todo]
    <2>2. /\ todo \subseteq Edge
          /\ \A e \in todo \ invented' : Stated(e)
          /\ Stored(j.memory) => Parsed(j.memory) \subseteq todo
      <3>1. CASE Stored(j.memory)
        BY <1>3, <2>0, <2>1, <3>1, TriplesStated DEF ProjectionInv
      <3>2. CASE ~Stored(j.memory)
        BY <2>0, <3>2
      <3> QED
        BY <3>1, <3>2
    <2>3. ProjectionTypeOK'
      BY <1>1, <1>2, <1>3, <1>4, <2>0, <2>1, <2>2 DEF ProjectionTypeOK, Edge, GraphJob
    <2>4. RunsBacked'
      BY <1>2, <2>0, <2>1 DEF ProjectionInv, RunsBacked
    <2>5. AllStated'
      BY <1>2, <1>4, <2>0, <2>2 DEF ProjectionInv, AllStated, Stated, FactOf
    <2>6. SyncsReach'
      <3> SUFFICES ASSUME NEW m \in Memories, Stored(m), NEW c \in Candidates, Covers(SyncJob(m, c), m)
                   PROVE  Covers(SyncJob(m, c), m)'
        BY <1>2 DEF ProjectionInv, SyncsReach, SyncJob
      <3> QED
        BY <1>2, <1>5, <2>0, <2>2 DEF Covers, SyncJob
    <2> QED
      BY <2>3, <2>4, <2>5, <2>6
  <1>7. ASSUME NEW r \in running, NEW e \in r.todo, Upsert(r, e) \/ MarkHistorical(r, e)
        PROVE  ProjectionTypeOK' /\ RunsBacked' /\ SyncsReach' /\ AllStated'
    <2> DEFINE left == [r EXCEPT !.todo = r.todo \ {e}]
    <2>1. /\ invented' = invented
          /\ running' = (running \ {r}) \cup {left} /\ settled' = settled
          /\ left.job = r.job /\ left.todo = r.todo \ {e} /\ left \in [job : GraphJob, todo : SUBSET Edge]
          /\ edges \cup past \subseteq edges' \cup past' /\ edges' \cup past' \subseteq edges \cup past \cup {e}
          /\ edges' \subseteq Edge /\ past' \subseteq Edge
          /\ r.job.kind = "graph_sync" => e \in edges'
      BY <1>3, <1>7 DEF Upsert, MarkHistorical
    <2> HIDE DEF left
    <2>2. ProjectionTypeOK'
      BY <1>1, <1>2, <1>3, <1>4, <2>1 DEF ProjectionTypeOK, Edge, GraphJob
    <2>3. RunsBacked'
      BY <1>2, <2>1 DEF ProjectionInv, RunsBacked
    <2>4. AllStated'
      BY <1>2, <1>4, <2>1 DEF ProjectionInv, AllStated, Stated, FactOf
    <2>5. SyncsReach'
      <3> SUFFICES ASSUME NEW m \in Memories, Stored(m), NEW c \in Candidates, Covers(SyncJob(m, c), m)
                   PROVE  Covers(SyncJob(m, c), m)'
        BY <1>2 DEF ProjectionInv, SyncsReach, SyncJob
      <3>1. SyncJob(m, c).kind = "graph_sync"
        BY DEF SyncJob
      <3> QED
        BY <1>5, <2>1, <3>1 DEF Covers, SyncJob
    <2> QED
      BY <2>2, <2>3, <2>4, <2>5
  <1>8. ASSUME NEW r \in running, Finish(r) \/ Break(r)
        PROVE  ProjectionTypeOK' /\ RunsBacked' /\ SyncsReach' /\ AllStated'
    <2>1. /\ invented' = invented
          /\ running' = running \ {r} /\ edges' = edges /\ past' = past
          /\ settled' = settled \/ (settled' = settled \cup {r.job} /\ r.todo = {})
      BY <1>8 DEF Finish, Break
    <2>2. ProjectionTypeOK'
      BY <1>1, <1>2, <1>3, <1>4, <2>1 DEF ProjectionTypeOK, Edge, GraphJob
    <2>3. RunsBacked'
      BY <1>2, <2>1 DEF ProjectionInv, RunsBacked
    <2>4. AllStated'
      BY <1>2, <1>4, <2>1 DEF ProjectionInv, AllStated, Stated, FactOf
    <2>5. SyncsReach'
      <3> SUFFICES ASSUME NEW m \in Memories, Stored(m), NEW c \in Candidates, Covers(SyncJob(m, c), m)
                   PROVE  Covers(SyncJob(m, c), m)'
        BY <1>2 DEF ProjectionInv, SyncsReach, SyncJob
      <3> QED
        BY <1>5, <2>1 DEF Covers, SyncJob
    <2> QED
      BY <2>2, <2>3, <2>4, <2>5
  <1> QED
    BY <1>6, <1>7, <1>8

LEMMA ProjectionStepInv == ProjectionInv /\ [ProjectionNext]_allVars => ProjectionInv'
  <1> SUFFICES ASSUME ProjectionInv, [ProjectionNext]_allVars PROVE ProjectionInv'
    OBVIOUS
  <1>1. CASE Next /\ UNCHANGED graphVars
    BY <1>1, SourceStepInv
  <1>2. ASSUME NEW j \in jobs, Begin(j) PROVE ProjectionInv'
    BY <1>2, GraphStepInv DEF Begin
  <1>3. ASSUME NEW r \in running, NEW e \in r.todo, Upsert(r, e) \/ MarkHistorical(r, e) PROVE ProjectionInv'
    BY <1>3, GraphStepInv DEF Upsert, MarkHistorical
  <1>4. ASSUME NEW r \in running, Finish(r) \/ Break(r) PROVE ProjectionInv'
    BY <1>4, GraphStepInv DEF Finish, Break
  <1>5. CASE UNCHANGED allVars
    <2>1. Inv'
      BY <1>5, StepInv DEF allVars, ProjectionInv
    <2>2. ProjectionTypeOK'
      BY <1>5, <2>1 DEF allVars, graphVars, ProjectionInv, ProjectionTypeOK, Inv
    <2>3. RunsBacked' /\ AllStated'
      BY <1>5 DEF allVars, vars, graphVars, ProjectionInv, RunsBacked, AllStated, Stated, FactOf
    <2>4. SyncsReach'
      BY <1>5 DEF allVars, vars, graphVars, ProjectionInv, SyncsReach, Covers, Parsed, FactOf, Stored
    <2> QED
      BY <2>1, <2>2, <2>3, <2>4 DEF ProjectionInv
  <1> QED
    BY <1>1, <1>2, <1>3, <1>4, <1>5 DEF ProjectionNext

-----------------------------------------------------------------------------
\* The invariant holds in every state.
LEMMA ProjectionInvariance == ProjectionSpec => []ProjectionInv
  <1> QED
    BY ProjectionInitInv, ProjectionStepInv, PTL DEF ProjectionSpec

\* Every state of the graph and of the jobs being run is well typed.
THEOREM ProjectionTypeCorrect == ProjectionSpec => []ProjectionTypeOK
  <1>1. ProjectionInv => ProjectionTypeOK
    BY DEF ProjectionInv
  <1> QED
    BY <1>1, ProjectionInvariance, PTL

\* Once the sync jobs of a memory are settled the graph knows what the patterns find in
\* it, in whatever order the jobs ran, broke and were retried: the job of the last
\* revision began after it, and no job ever takes a triple out of the graph.  What the
\* LLM answered to any of them does not matter.
THEOREM GraphKeepsUp == ProjectionSpec => []GraphCatchesUp
  <1>1. ProjectionInv => GraphCatchesUp
    <2> SUFFICES ASSUME ProjectionInv, NEW m \in Memories, Stored(m),
                        \A j \in jobs : j.kind = "graph_sync" /\ j.memory = m => j \in settled
                 PROVE  Parsed(m) \subseteq edges \cup past
      BY DEF GraphCatchesUp
    <2>1. PICK c \in Candidates : SyncJob(m, c) \in jobs /\ Covers(SyncJob(m, c), m)
      BY DEF ProjectionInv, SyncsReach
    <2>2. SyncJob(m, c).kind = "graph_sync" /\ SyncJob(m, c).memory = m
      BY DEF SyncJob
    <2>3. SyncJob(m, c) \in settled
      BY <2>1, <2>2
    <2> QED
      BY <2>1, <2>3 DEF Covers
  <1> QED
    BY <1>1, ProjectionInvariance, PTL

\* A group learns only what an accepted candidate of its scopes stated, however scopes
\* are cleaned into groups, but for what the LLM made up.
THEOREM GraphScopesStayApart == ProjectionSpec => []GraphScopesApart
  <1>1. ProjectionInv => GraphScopesApart
    BY DEF ProjectionInv, AllStated, Stated, GraphScopesApart
  <1> QED
    BY <1>1, ProjectionInvariance, PTL

\* An edge turns historical, and is never deleted.
THEOREM EdgesStay == ProjectionSpec => EdgesAreKept
  <1>1. [ProjectionNext]_allVars => [edges \cup past \subseteq edges' \cup past']_allVars
    <2> SUFFICES ASSUME ProjectionNext PROVE edges \cup past \subseteq edges' \cup past'
      OBVIOUS
    <2>1. CASE UNCHANGED graphVars
      BY <2>1 DEF graphVars
    <2>2. ASSUME NEW j \in jobs, Begin(j) PROVE edges \cup past \subseteq edges' \cup past'
      BY <2>2 DEF Begin
    <2>3. ASSUME NEW r \in running, NEW e \in r.todo, Upsert(r, e) \/ MarkHistorical(r, e)
          PROVE  edges \cup past \subseteq edges' \cup past'
      BY <2>3 DEF Upsert, MarkHistorical
    <2>4. ASSUME NEW r \in running, Finish(r) \/ Break(r)
          PROVE  edges \cup past \subseteq edges' \cup past'
      BY <2>4 DEF Finish, Break
    <2> QED
      BY <2>1, <2>2, <2>3, <2>4 DEF ProjectionNext
  <1> QED
    BY <1>1, PTL DEF ProjectionSpec, EdgesAreKept

-----------------------------------------------------------------------------
(***************************************************************************)
(* Documents.                                                              *)
(*                                                                         *)
(* What is true of the pages has to be true of all that is on its way into *)
(* one: the copy a consolidation took of its page, which may be outdated,  *)
(* and the clusters it still has to write, listed when the memories were   *)
(* perhaps different.  Both stay sound because a memory keeps its scope    *)
(* and never becomes absent again (PageBacked).                            *)
(***************************************************************************)

\* The memory was accepted, and its scope's page is kept in the file.
PageBacked(m, f) == place[scope[m]] = f /\ mem[m].status # "absent"

Closed(page) ==
    \A t \in Topics : page.sections[t] # {} =>
        /\ page.sections[t] \subseteq page.sources
        /\ Cardinality(page.sections[t]) >= MinSources

PageSound(page, f) ==
    /\ page \in Page
    /\ Closed(page)
    /\ \A m \in page.sources : PageBacked(m, f)

ThreadFields == {"job", "scope", "at", "size", "headings", "plans", "copy", "version", "mixed"}
Writing == {"copy", "number", "open"}

PlanSound(p, f) ==
    /\ p.first \in Nat
    /\ p.memories \subseteq Memories
    /\ \A m \in p.memories : PageBacked(m, f)

ThreadSound(r) ==
    /\ DOMAIN r = ThreadFields
    /\ r.job.kind \in {"explicit", "knowledge_consolidate", "knowledge_reconsolidate"}
    /\ r.scope \in Scopes
    /\ r.version \in Nat
    /\ PageSound(r.copy, place[r.scope])
    /\ \A p \in r.plans : PlanSound(p, place[r.scope])
    /\ r.at \in Writing => r.plans # {} /\ Cardinality(Current(r).memories) >= MinSources

DocInv ==
    /\ Inv
    /\ place \in [Scopes -> Files]
    /\ pages \in [Files -> Page]
    /\ \A f \in Files : PageSound(pages[f], f)
    /\ \A r \in threads : ThreadSound(r)

-----------------------------------------------------------------------------
\* A nonempty set of natural numbers has a least element: among the intervals 0..k
\* one is smallest.
LEMMA Least ==
  ASSUME NEW T \in SUBSET Nat, T # {}
  PROVE  \E m \in T : \A k \in T : m <= k
  <1> DEFINE Below == {0..k : k \in T}
  <1>1. Below \subseteq FiniteSubsetsOf(Nat)
    <2> SUFFICES ASSUME NEW k \in T PROVE 0..k \in FiniteSubsetsOf(Nat)
      OBVIOUS
    <2>1. IsFiniteSet(0..k)
      BY FS_Interval
    <2> QED
      BY <2>1 DEF FiniteSubsetsOf
  <1>2. PICK x \in Below : \A y \in Below : <<y, x>> \notin StrictSubsetOrdering(Nat)
    <2>1. Below # {}
      OBVIOUS
    <2> HIDE DEF Below
    <2> QED
      BY <1>1, <2>1, FS_StrictSubsetOrderingWellFounded, WFMin
  <1>3. PICK m \in T : x = 0..m
    OBVIOUS
  <1>4. ASSUME NEW k \in T, k < m PROVE FALSE
    <2>1. 0..k \in Below
      OBVIOUS
    <2>2. 0..k \subseteq 0..m /\ m \in 0..m /\ m \notin 0..k
      BY <1>4
    <2>3. 0..k \in SUBSET Nat /\ 0..m \in SUBSET Nat
      OBVIOUS
    <2>4. <<0..k, 0..m>> \in StrictSubsetOrdering(Nat)
      BY <2>2, <2>3 DEF StrictSubsetOrdering
    <2> QED
      BY <1>2, <1>3, <2>1, <2>4
  <1> QED
    BY <1>4

\* The plan whose turn it is is one of the plans.
LEMMA CurrentPlan ==
  ASSUME NEW r, r.plans # {}, \A p \in r.plans : p.first \in Nat
  PROVE  Current(r) \in r.plans
  <1> DEFINE Firsts == {p.first : p \in r.plans}
  <1>1. PICK n \in Firsts : \A k \in Firsts : n <= k
    BY Least
  <1>2. PICK p \in r.plans : p.first = n
    OBVIOUS
  <1>3. \A q \in r.plans : p.first <= q.first
    BY <1>1, <1>2
  <1> QED
    BY <1>3 DEF Current

\* Every cluster consists of memories listed for the scope.
LEMMA PlansOfScope ==
  ASSUME NEW s, NEW order \in Listed(s), NEW size, NEW p \in Plans(order, size)
  PROVE  p.first \in Nat /\ p.memories \subseteq {m \in Memories : Live(m) /\ scope[m] = s}
  <1> DEFINE L == {m \in Memories : Live(m) /\ scope[m] = s}
  <1>1. DOMAIN order = 1..Cardinality(L) /\ \A i \in DOMAIN order : order[i] \in L
    BY DEF Listed, SetToSeqs
  <1> DEFINE cluster(g) == {order[i] : i \in {j \in DOMAIN order : Groups(order)[j] = g}}
             starts == {k \in DOMAIN order : Cardinality(cluster(k)) >= size}
  <1>2. PICK g \in DOMAIN order : p.first = g /\ p.memories = cluster(g)
    <2>1. p \in {[first |-> g, topic |-> Label(cluster(g)), memories |-> cluster(g)] : g \in starts}
      BY Zenon DEF Plans
    <2> HIDE DEF cluster
    <2> QED
      BY <2>1
  <1>3. p.memories \subseteq L
    BY <1>1, <1>2
  <1>4. g \in Nat
    BY <1>1, <1>2
  <1> QED
    BY <1>2, <1>3, <1>4

LEMMA ChosenOfScope ==
  ASSUME NEW r, ThreadSound(r), NEW order \in Listed(r.scope), NEW p \in Chosen(r, order)
  PROVE  PlanSound(p, place[r.scope])
  <1>1. \E size : p \in Plans(order, size)
    BY DEF Chosen
  <1>2. p.first \in Nat /\ p.memories \subseteq {m \in Memories : Live(m) /\ scope[m] = r.scope}
    BY <1>1, PlansOfScope
  <1> QED
    BY <1>2 DEF PlanSound, PageBacked, Live, Stored

\* Soundness is a matter of the memories and of where the pages are kept.
LEMMA SoundStays ==
  ASSUME Inv, scope' = scope, place' = place,
         \A m \in Memories : mem[m].status # "absent" => mem'[m].status # "absent"
  PROVE  /\ \A page, f : PageSound(page, f) => PageSound(page, f)'
         /\ \A r : ThreadSound(r) => ThreadSound(r)'
  <1>1. ASSUME NEW m \in Memories, NEW f, PageBacked(m, f) PROVE PageBacked(m, f)'
    BY <1>1 DEF PageBacked
  <1>2. ASSUME NEW page, NEW f, PageSound(page, f) PROVE PageSound(page, f)'
    BY <1>1, <1>2 DEF PageSound, Page, Closed
  <1>3. ASSUME NEW p, NEW f, PlanSound(p, f) PROVE PlanSound(p, f)'
    BY <1>1, <1>3 DEF PlanSound
  <1>4. ASSUME NEW r, ThreadSound(r) PROVE ThreadSound(r)'
    BY <1>2, <1>3, <1>4 DEF ThreadSound
  <1> QED
    BY <1>2, <1>4

LEMMA NoPageSound ==
  ASSUME NEW f
  PROVE  PageSound(NoPage, f)
  BY DEF PageSound, NoPage, Page, Closed

LEMMA DocInitInv == DocInit => DocInv
  <1> SUFFICES ASSUME DocInit PROVE DocInv
    OBVIOUS
  <1>1. Inv
    BY InitInv DEF DocInit
  <1>2. pages = [f \in Files |-> NoPage] /\ threads = {} /\ place \in [Scopes -> Files]
    BY DEF DocInit
  <1>3. NoPage \in Page
    BY DEF NoPage, Page
  <1>4. \A f \in Files : PageSound(pages[f], f)
    BY <1>2, NoPageSound
  <1>5. pages \in [Files -> Page]
    BY <1>2, <1>3
  <1> QED
    BY <1>1, <1>2, <1>4, <1>5 DEF DocInv

\* A row once written stays, if only as history.
LEMMA PresenceStays ==
  ASSUME Inv, [Next]_vars
  PROVE  scope' = scope /\ \A m \in Memories : mem[m].status # "absent" => mem'[m].status # "absent"
  <1> DEFINE Stays == scope' = scope /\ \A m \in Memories : mem[m].status # "absent" => mem'[m].status # "absent"
  <1>1. ASSUME NEW c \in Candidates, Consider(c) \/ Fail(c) \/ Ignore(c) PROVE Stays
    BY <1>1 DEF Consider, Fail, Ignore
  <1>2. ASSUME NEW c \in Candidates, Apply(c) PROVE Stays
    BY <1>2, ApplyColumns DEF Apply
  <1>3. ASSUME NEW ms \in SUBSET Memories, ListRejected(ms) PROVE Stays
    BY <1>3 DEF ListRejected
  <1>4. CASE Purge
    <2>1. mem \in [Memories -> MemoryRow]
      BY DEF Inv, TypeOK
    <2> QED
      BY <1>4, <2>1 DEF Purge, MemoryRow
  <1>5. CASE UNCHANGED vars
    BY <1>5 DEF vars
  <1> QED
    BY <1>1, <1>2, <1>3, <1>4, <1>5 DEF Next

\* A request, a decision or a purge leaves pages and consolidations alone.
LEMMA MemoriesMove ==
  ASSUME DocInv, [Next]_vars, UNCHANGED docVars
  PROVE  DocInv'
  <1>1. Inv'
    BY StepInv DEF DocInv
  <1>2. scope' = scope /\ \A m \in Memories : mem[m].status # "absent" => mem'[m].status # "absent"
    BY PresenceStays DEF DocInv
  <1>3. UNCHANGED <<place, pages, threads>>
    BY DEF docVars
  <1>4. /\ \A page, f : PageSound(page, f) => PageSound(page, f)'
        /\ \A r : ThreadSound(r) => ThreadSound(r)'
    BY <1>2, <1>3, SoundStays DEF DocInv
  <1> QED
    BY <1>1, <1>3, <1>4 DEF DocInv

\* A step of a consolidation: it becomes a sound one, may mark others as mixed and
\* may leave a sound page.
LEMMA DocMoves ==
  ASSUME DocInv, UNCHANGED <<vars, place>>,
         \A r \in threads' : ThreadSound(r),
         pages' \in [Files -> Page],
         \A f \in Files : PageSound(pages'[f], f)
  PROVE  DocInv'
  <1>1. Inv'
    BY StepInv DEF DocInv
  <1>2. /\ \A page, f : PageSound(page, f) => PageSound(page, f)'
        /\ \A r : ThreadSound(r) => ThreadSound(r)'
    BY SoundStays DEF DocInv, vars
  <1>3. \A f \in Files : PageSound(pages[f], f)'
    BY <1>2
  <1>4. \A r \in threads' : ThreadSound(r)'
    BY <1>2
  <1> QED
    BY <1>1, <1>3, <1>4 DEF DocInv

\* What the writer leaves: the section it wrote rests on the cluster, which has
\* enough memories, all of the page's scope; the others on sources that stay.
LEMMA MergedSound ==
  ASSUME NEW r, ThreadSound(r), r.at \in Writing
  PROVE  PageSound(Merged(r), place[r.scope])
  <1> DEFINE p == Current(r)
             f == place[r.scope]
  <1>1. p \in r.plans
    BY CurrentPlan DEF ThreadSound, PlanSound
  <1>2. PlanSound(p, f) /\ Cardinality(p.memories) >= MinSources
    BY <1>1 DEF ThreadSound
  <1>3. PageSound(r.copy, f) /\ r.version \in Nat
    BY DEF ThreadSound
  <1> DEFINE sections == [r.copy.sections EXCEPT ![p.topic] = p.memories]
  <1> HIDE DEF p, f
  <1>4. r.copy.sections \in [Topics -> SUBSET Memories] /\ r.copy.sources \in SUBSET Memories
    BY <1>3 DEF PageSound, Page
  <1>5. /\ sections \in [Topics -> SUBSET Memories]
        /\ \A t \in Topics : sections[t] = r.copy.sections[t] \/ sections[t] = p.memories
    BY <1>2, <1>4 DEF PlanSound
  <1>6. \A t \in Topics : sections[t] # {} => /\ sections[t] \subseteq r.copy.sources \cup p.memories
                                            /\ Cardinality(sections[t]) >= MinSources
    BY <1>2, <1>3, <1>5 DEF PageSound, Closed
  <1>7. \A m \in r.copy.sources \cup p.memories : PageBacked(m, f)
    BY <1>2, <1>3 DEF PageSound, PlanSound
  <1>8. Merged(r) = [state |-> "whole", sections |-> sections,
                     sources |-> r.copy.sources \cup p.memories, version |-> r.version]
    BY DEF Merged, p
  <1> HIDE DEF sections
  <1>9. r.copy.sources \cup p.memories \in SUBSET Memories
    BY <1>2, <1>4 DEF PlanSound
  <1> QED
    BY <1>3, <1>5, <1>6, <1>7, <1>8, <1>9 DEF PageSound, Page, Closed, f

\* A consolidation that has written its page, or given a cluster up, goes on with
\* what is left of its plans.
LEMMA PlansShrink ==
  ASSUME NEW r, ThreadSound(r), NEW next,
         \/ next = [r EXCEPT !.plans = @ \ {Current(r)}] /\ r.at = "plan"
         \/ next = Written(r)
  PROVE  ThreadSound(next)
  <1>1. DOMAIN next = ThreadFields
    BY DEF ThreadSound, Written
  <1>2. /\ next.at = "plan" /\ next.job = r.job /\ next.scope = r.scope
        /\ next.plans = r.plans \ {Current(r)}
        /\ next.version = r.version \/ next.version = 0
        /\ next.copy = r.copy \/ next.copy = NoPage
    BY DEF ThreadSound, Written, ThreadFields
  <1> QED
    BY <1>1, <1>2, NoPageSound DEF ThreadSound, Writing

\* A page cut off in a write keeps what it held, as history.
LEMMA CutSound ==
  ASSUME DocInv, NEW g \in Files, pages' = [pages EXCEPT ![g].state = "cut"]
  PROVE  pages' \in [Files -> Page] /\ \A f \in Files : PageSound(pages'[f], f)
  <1>1. pages \in [Files -> Page] /\ \A f \in Files : PageSound(pages[f], f)
    BY DEF DocInv
  <1>2. \A f \in Files : pages'[f] = pages[f] \/ pages'[f] = [pages[f] EXCEPT !.state = "cut"]
    BY <1>1
  <1>3. \A f \in Files : PageSound([pages[f] EXCEPT !.state = "cut"], f)
    BY <1>1 DEF PageSound, Page, Closed
  <1>4. \A f \in Files : PageSound(pages'[f], f)
    BY <1>1, <1>2, <1>3
  <1> QED
    BY <1>1, <1>4 DEF PageSound

LEMMA WrittenSound ==
  ASSUME DocInv, NEW r \in threads, r.at \in Writing, pages' = [pages EXCEPT ![place[r.scope]] = Merged(r)]
  PROVE  pages' \in [Files -> Page] /\ \A f \in Files : PageSound(pages'[f], f)
  <1>1. PageSound(Merged(r), place[r.scope]) /\ place[r.scope] \in Files
    BY MergedSound DEF DocInv, ThreadSound
  <1> QED
    BY <1>1 DEF DocInv, PageSound

\* A new consolidation has nothing to write yet.
LEMMA StartSound ==
  ASSUME DocInv, NEW j, NEW s \in Scopes, NEW size, NEW headings, Start(j, s, size, headings),
         j.kind \in {"explicit", "knowledge_consolidate", "knowledge_reconsolidate"}
  PROVE  \A r \in threads' : ThreadSound(r)
  <1> DEFINE new == [job |-> j, scope |-> s, at |-> "list", size |-> size, headings |-> headings,
                     plans |-> {}, copy |-> NoPage, version |-> 0, mixed |-> FALSE]
  <1>1. ThreadSound(new)
    BY NoPageSound DEF ThreadSound, ThreadFields, Writing
  <1>2. threads' = threads \cup {new}
    BY DEF Start
  <1> HIDE DEF new
  <1> QED
    BY <1>1, <1>2 DEF DocInv

LEMMA TakeUpInv ==
  ASSUME DocInv, NEW j \in KnowledgeJobs, TakeUp(j)
  PROVE  DocInv'
  <1>1. UNCHANGED <<vars, place, pages>>
    BY DEF TakeUp
  <1>2. scope[j.memory] \in Scopes
    BY DEF DocInv, Inv, TypeOK, KnowledgeJobs, Job, Memories
  <1>3. \A r \in threads' : ThreadSound(r)
    <2>1. CASE threads' = threads
      BY <2>1 DEF DocInv
    <2>2. CASE threads' # threads
      <3>1. \E size, headings : Start(j, scope[j.memory], size, headings)
        BY <2>2 DEF TakeUp
      <3> QED
        BY <1>2, <3>1, StartSound DEF KnowledgeJobs
    <2> QED
      BY <2>1, <2>2
  <1> QED
    BY <1>1, <1>3, DocMoves DEF DocInv

LEMMA ConsolidateInv ==
  ASSUME DocInv, NEW s \in Scopes, NEW size \in GroupSizes, Consolidate(s, size)
  PROVE  DocInv'
  <1>1. UNCHANGED <<vars, place, pages>> /\ Start(Explicit, s, size, Topics)
    BY DEF Consolidate
  <1>2. \A r \in threads' : ThreadSound(r)
    BY <1>1, StartSound DEF Explicit
  <1> QED
    BY <1>1, <1>2, DocMoves DEF DocInv

\* A consolidation goes on without writing.
LEMMA BecomesInv ==
  ASSUME DocInv, NEW r \in threads, NEW next, Becomes(r, next), ThreadSound(next),
         UNCHANGED <<vars, place, pages>>
  PROVE  DocInv'
  <1>1. \A x \in threads' : ThreadSound(x)
    BY DEF DocInv, Becomes
  <1> QED
    BY <1>1, DocMoves DEF DocInv

LEMMA ListInv ==
  ASSUME DocInv, NEW r \in threads, List(r)
  PROVE  DocInv'
  <1>1. PICK order \in Listed(r.scope) :
             Becomes(r, [r EXCEPT !.at = "plan", !.plans = Chosen(r, order), !.size = 0, !.headings = {}])
    BY DEF List
  <1> DEFINE next == [r EXCEPT !.at = "plan", !.plans = Chosen(r, order), !.size = 0, !.headings = {}]
  <1>2. ThreadSound(r)
    BY DEF DocInv
  <1>3. \A p \in Chosen(r, order) : PlanSound(p, place[r.scope])
    BY <1>2, ChosenOfScope
  <1>4. /\ DOMAIN next = ThreadFields
        /\ next.at = "plan" /\ next.job = r.job /\ next.scope = r.scope
        /\ next.plans = Chosen(r, order) /\ next.version = r.version /\ next.copy = r.copy
    BY <1>2 DEF ThreadSound, ThreadFields
  <1> HIDE DEF next
  <1>5. ThreadSound(next)
    BY <1>2, <1>3, <1>4 DEF ThreadSound, Writing
  <1>6. Becomes(r, next)
    BY <1>1 DEF next
  <1> QED
    BY <1>5, <1>6, BecomesInv DEF List

LEMMA SynthesizeInv ==
  ASSUME DocInv, NEW r \in threads, Synthesize(r)
  PROVE  DocInv'
  <1>1. ThreadSound(r) /\ r.at = "plan"
    BY DEF DocInv, Synthesize
  <1>2. CASE Becomes(r, [r EXCEPT !.plans = @ \ {Current(r)}])
    <2>1. ThreadSound([r EXCEPT !.plans = @ \ {Current(r)}])
      BY <1>1, PlansShrink
    <2> QED
      BY <1>2, <2>1, BecomesInv DEF Synthesize
  <1>3. CASE /\ Cardinality(Current(r).memories) >= MinSources
             /\ Becomes(r, [r EXCEPT !.at = "copy", !.copy = pages[place[r.scope]]])
    <2> DEFINE next == [r EXCEPT !.at = "copy", !.copy = pages[place[r.scope]]]
    <2>1. /\ DOMAIN next = ThreadFields
          /\ next.at = "copy" /\ next.job = r.job /\ next.scope = r.scope
          /\ next.plans = r.plans /\ next.version = r.version /\ next.copy = pages[place[r.scope]]
      BY <1>1 DEF ThreadSound, ThreadFields
    <2>2. PageSound(pages[place[r.scope]], place[r.scope])
      BY <1>1 DEF DocInv, ThreadSound
    <2>3. Becomes(r, next)
      BY <1>3
    <2> HIDE DEF next
    <2>4. Current(next) = Current(r)
      BY <2>1 DEF Current
    <2>5. r.plans # {}
      BY DEF Synthesize
    <2>6. ThreadSound(next)
      BY <1>1, <1>3, <2>1, <2>2, <2>4, <2>5 DEF ThreadSound
    <2> QED
      BY <2>3, <2>6, BecomesInv DEF Synthesize
  <1> QED
    BY <1>2, <1>3 DEF Synthesize

LEMMA NumberInv ==
  ASSUME DocInv, NEW r \in threads, Number(r)
  PROVE  DocInv'
  <1>1. ThreadSound(r) /\ r.at = "copy"
    BY DEF DocInv, Number
  <1> DEFINE next == [r EXCEPT !.at = "number", !.version = pages[place[r.scope]].version + 1]
  <1>2. /\ DOMAIN next = ThreadFields
        /\ next.at = "number" /\ next.job = r.job /\ next.scope = r.scope
        /\ next.plans = r.plans /\ next.copy = r.copy
        /\ next.version = pages[place[r.scope]].version + 1
    BY <1>1 DEF ThreadSound, ThreadFields
  <1>3. pages[place[r.scope]].version + 1 \in Nat
    BY <1>1 DEF DocInv, ThreadSound, Page
  <1>4. Becomes(r, next)
    BY DEF Number
  <1> HIDE DEF next
  <1>5. Current(next) = Current(r)
    BY <1>2 DEF Current
  <1>6. ThreadSound(next)
    BY <1>1, <1>2, <1>3, <1>5 DEF ThreadSound, Writing
  <1> QED
    BY <1>4, <1>6, BecomesInv DEF Number

\* Marking a consolidation whose file another has written into changes nothing here.
LEMMA MixedSound ==
  ASSUME NEW r, ThreadSound(r)
  PROVE  ThreadSound([r EXCEPT !.mixed = TRUE])
  <1> DEFINE next == [r EXCEPT !.mixed = TRUE]
  <1>1. /\ DOMAIN next = ThreadFields
        /\ next.at = r.at /\ next.job = r.job /\ next.scope = r.scope
        /\ next.plans = r.plans /\ next.copy = r.copy /\ next.version = r.version
    BY DEF ThreadSound, ThreadFields
  <1> HIDE DEF next
  <1>2. Current(next) = Current(r)
    BY <1>1 DEF Current
  <1>3. ThreadSound(next)
    BY <1>1, <1>2 DEF ThreadSound
  <1> QED
    BY <1>3 DEF next

LEMMA WriteInv ==
  ASSUME DocInv, NEW r \in threads, Post(r) \/ Open(r) \/ Close(r)
  PROVE  DocInv'
  <1>1. ThreadSound(r) /\ r.at \in Writing /\ UNCHANGED <<vars, place>>
    BY DEF DocInv, Post, Open, Close, Writing
  <1>2. pages' \in [Files -> Page] /\ \A f \in Files : PageSound(pages'[f], f)
    <2>1. place[r.scope] \in Files
      BY <1>1 DEF DocInv, ThreadSound
    <2>2. \/ pages' = [pages EXCEPT ![place[r.scope]] = Merged(r)]
          \/ pages' = [pages EXCEPT ![place[r.scope]].state = "cut"]
      BY DEF Post, Open, Close
    <2> QED
      BY <1>1, <2>1, <2>2, CutSound, WrittenSound
  <1>3. ThreadSound(Written(r))
    BY <1>1, PlansShrink
  <1>4. \A x \in threads' : ThreadSound(x)
    <2>1. CASE Post(r)
      BY <1>3, <2>1 DEF Post, Becomes, DocInv
    <2>2. CASE Open(r)
      <3> DEFINE next == [r EXCEPT !.at = "open"]
      <3>1. /\ DOMAIN next = ThreadFields
            /\ next.at = "open" /\ next.job = r.job /\ next.scope = r.scope
            /\ next.plans = r.plans /\ next.copy = r.copy /\ next.version = r.version
        BY <1>1 DEF ThreadSound, ThreadFields
      <3>2. Becomes(r, next)
        BY <2>2 DEF Open
      <3> HIDE DEF next
      <3>3. Current(next) = Current(r)
        BY <3>1 DEF Current
      <3>4. ThreadSound(next)
        BY <1>1, <3>1, <3>3 DEF ThreadSound, Writing
      <3> QED
        BY <3>2, <3>4 DEF Becomes, DocInv
    <2>3. CASE Close(r)
      <3> SUFFICES ASSUME NEW x \in threads' PROVE ThreadSound(x)
        OBVIOUS
      <3>1. CASE x = Written(r)
        BY <1>3, <3>1
      <3>2. CASE x # Written(r)
        <4>1. PICK y \in threads : x = y \/ x = [y EXCEPT !.mixed = TRUE]
          BY <2>3, <3>2 DEF Close
        <4> QED
          BY <4>1, MixedSound DEF DocInv
      <3> QED
        BY <3>1, <3>2
    <2> QED
      BY <2>1, <2>2, <2>3
  <1> QED
    BY <1>1, <1>2, <1>4, DocMoves

LEMMA LeaveInv ==
  ASSUME DocInv, NEW r \in threads, Settle(r) \/ GiveUp(r)
  PROVE  DocInv'
  <1>1. threads' \subseteq threads /\ UNCHANGED <<vars, place, pages>>
    BY DEF Settle, GiveUp
  <1> QED
    BY <1>1, DocMoves DEF DocInv

LEMMA DocStepInv == DocInv /\ [DocNext]_knowledgeVars => DocInv'
  <1> SUFFICES ASSUME DocInv, [DocNext]_knowledgeVars PROVE DocInv'
    OBVIOUS
  <1>1. CASE [Next]_vars /\ UNCHANGED docVars
    BY <1>1, MemoriesMove
  <1>2. ASSUME NEW j \in KnowledgeJobs, TakeUp(j) PROVE DocInv'
    BY <1>2, TakeUpInv
  <1>3. ASSUME NEW s \in Scopes, NEW size \in GroupSizes, Consolidate(s, size) PROVE DocInv'
    BY <1>3, ConsolidateInv
  <1>4. ASSUME NEW r \in threads, List(r) \/ Synthesize(r) \/ Number(r) PROVE DocInv'
    BY <1>4, ListInv, SynthesizeInv, NumberInv
  <1>5. ASSUME NEW r \in threads, Post(r) \/ Open(r) \/ Close(r) PROVE DocInv'
    BY <1>5, WriteInv
  <1>6. ASSUME NEW r \in threads, Settle(r) \/ GiveUp(r) PROVE DocInv'
    BY <1>6, LeaveInv
  <1>7. CASE UNCHANGED knowledgeVars
    BY <1>7, MemoriesMove DEF knowledgeVars
  <1> QED
    BY <1>1, <1>2, <1>3, <1>4, <1>5, <1>6, <1>7 DEF DocNext

-----------------------------------------------------------------------------
LEMMA DocInvariance == DocSpec => []DocInv
  <1> QED
    BY DocInitInv, DocStepInv, PTL DEF DocSpec

\* Every section of a page rests on at least two memories, all named as sources,
\* for any texts, clusters, overlaps, breaks and cut writes.
THEOREM SectionsAlwaysHaveSources == DocSpec => []SectionsHaveSources
  <1>1. DocInv => SectionsHaveSources
    BY DEF DocInv, PageSound, Closed, SectionsHaveSources
  <1> QED
    BY <1>1, DocInvariance, PTL

\* The sources of a page are accepted memories of the scopes whose keys give its file.
THEOREM PageScopesStayApart == DocSpec => []PagesScopesApart
  <1>1. DocInv => PagesScopesApart
    BY DEF DocInv, PageSound, PageBacked, PagesScopesApart
  <1> QED
    BY <1>1, DocInvariance, PTL

\* A write of a copy and a number that are up to date takes nothing away.
LEMMA CurrentWriteGrows ==
  ASSUME DocInv, NEW r \in threads, r.at \in Writing, NEW p \in Page,
         r.copy = [p EXCEPT !.state = r.copy.state], r.version = p.version + 1
  PROVE  LET q == Merged(r)
         IN  /\ p.sources \subseteq q.sources
             /\ \A t \in Topics : p.sections[t] # {} => q.sections[t] # {}
             /\ q.version = p.version + 1
  <1>1. r.copy.sources = p.sources /\ r.copy.sections = p.sections
    BY DEF Page
  <1>2. Cardinality(Current(r).memories) >= MinSources
    BY DEF DocInv, ThreadSound
  <1>3. Current(r).memories # {}
    BY <1>2, FS_EmptySet DEF MinSources
  <1>4. p.sections \in [Topics -> SUBSET Memories]
    BY DEF Page
  <1> QED
    BY <1>1, <1>3, <1>4 DEF Merged

\* Only overlapping consolidations take anything away from a page.
THEOREM DropsNeedOverlaps == DocSpec => OnlyOverlapsDrop
  <1> DEFINE Grows(p, q) == /\ p.sources \subseteq q.sources
                            /\ \A t \in Topics : p.sections[t] # {} => q.sections[t] # {}
                            /\ q.version = p.version + 1
             Late(r, f, p) == /\ place[r.scope] = f
                              /\ r.at \in {"number", "open"}
                              /\ \/ r.copy # [p EXCEPT !.state = r.copy.state]
                                 \/ r.version # p.version + 1
             Kept(f) == pages[f] # pages'[f] /\ pages'[f].state = "whole" =>
                            Grows(pages[f], pages'[f]) \/ \E r \in threads : Late(r, f, pages[f])
  <1>1. DocInv /\ [DocNext]_knowledgeVars => \A f \in Files : Kept(f)
    <2> SUFFICES ASSUME DocInv, [DocNext]_knowledgeVars, NEW f \in Files,
                        pages[f] # pages'[f], pages'[f].state = "whole"
                 PROVE  Grows(pages[f], pages'[f]) \/ \E r \in threads : Late(r, f, pages[f])
      OBVIOUS
    <2>1. PICK r \in threads : Post(r) \/ Open(r) \/ Close(r)
      BY DEF DocNext, docVars, knowledgeVars, TakeUp, Consolidate, List, Synthesize, Number, Settle, GiveUp
    <2>2. pages \in [Files -> Page] /\ pages[f] \in Page
      BY DEF DocInv
    <2>3. ASSUME pages' = [pages EXCEPT ![place[r.scope]].state = "cut"] PROVE FALSE
      <3>1. f # place[r.scope] => pages'[f] = pages[f]
        BY <2>2, <2>3
      <3>2. f = place[r.scope] => pages'[f] = [pages[f] EXCEPT !.state = "cut"]
        BY <2>2, <2>3
      <3>3. pages'[f] = [pages[f] EXCEPT !.state = "cut"]
        BY <3>1, <3>2
      <3> QED
        BY <2>2, <3>3 DEF Page
    <2>4. /\ pages' = [pages EXCEPT ![place[r.scope]] = Merged(r)]
          /\ r.at \in {"number", "open"}
      BY <2>1, <2>3 DEF Post, Open, Close
    <2>5. place[r.scope] = f /\ pages'[f] = Merged(r)
      BY <2>2, <2>4
    <2>6. CASE Late(r, f, pages[f])
      BY <2>6
    <2>7. CASE ~Late(r, f, pages[f])
      <3>1. r.copy = [pages[f] EXCEPT !.state = r.copy.state] /\ r.version = pages[f].version + 1
        BY <2>4, <2>5, <2>7
      <3>2. r.at \in Writing
        BY <2>4 DEF Writing
      <3> QED
        BY <2>2, <2>5, <3>1, <3>2, CurrentWriteGrows
    <2> QED
      BY <2>6, <2>7
  <1>2. [(\A f \in Files : Kept(f))]_knowledgeVars =>
           [\A f \in Files : LET p == pages[f]
                             q == pages'[f]
                         IN  p # q /\ q.state = "whole" =>
                                \/ /\ p.sources \subseteq q.sources
                                   /\ \A t \in Topics : p.sections[t] # {} => q.sections[t] # {}
                                   /\ q.version = p.version + 1
                                \/ \E r \in threads : /\ place[r.scope] = f
                                                      /\ r.at \in {"number", "open"}
                                                      /\ \/ r.copy # [p EXCEPT !.state = r.copy.state]
                                                         \/ r.version # p.version + 1]_knowledgeVars
    OBVIOUS
  <1> HIDE DEF Kept
  <1> QED
    BY <1>1, <1>2, DocInvariance, PTL DEF DocSpec, OnlyOverlapsDrop
=============================================================================
