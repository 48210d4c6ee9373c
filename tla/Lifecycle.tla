------------------------------ MODULE Lifecycle ------------------------------
(***************************************************************************)
(* The lifecycle record of each memory: created by observe(), reinforced   *)
(* by recalls, decayed and archived by the hygiene sweep, archived when    *)
(* the memory is superseded, deleted by the operator's purge               *)
(* (core/lifecycle, core/facade.py, providers/sqlite/lifecycle_store.py).  *)
(*                                                                         *)
(* Only observe() and the purge write in the transaction they read in.  A  *)
(* recall and a sweep read a record in one transaction and save the        *)
(* changed copy in another, whatever has been saved in between.            *)
(***************************************************************************)
EXTENDS Integers, FiniteSets

CONSTANTS
    Memories,       \* the memories of one scope
    Recalls,        \* threads that serve recalls, one memory at a time
    Sweeps,         \* threads that run hygiene sweeps
    DecayTicks,     \* idle ticks after which a memory never used is decayed ...
    ExpireTicks,    \* ... and expired
    MaxRecalls,     \* bound on the recalls that retrieve a memory
    Prompt          \* no recall or sweep lasts till the next tick

ASSUME LifecycleAssumption ==
    /\ DecayTicks \in Nat /\ ExpireTicks \in Nat
    /\ DecayTicks < ExpireTicks
    /\ MaxRecalls \in Nat
    /\ Prompt \in BOOLEAN
    /\ IsFiniteSet(Recalls)

VARIABLES
    memory,     \* the memories table, as far as the lifecycle depends on it
    row,        \* the lifecycle table
    recall,     \* the memory each recall is at, and its copy of the record
    sweep,      \* the copies each sweep has yet to save, and those it has saved
    recalls,    \* recalls so far
    used        \* history: the memories a use of which was recorded while nobody else had a copy

vars == <<memory, row, recall, sweep, recalls, used>>

\* MemoryStatus, without the one that nothing sets; "none" is a missing row.
Status == {"none", "active", "decayed", "expired", "archived"}

\* Terminal for reinforcement, and excluded from recall.
Retired == {"expired", "archived"}

\* Importance grows with each use, and stretches the time a memory stays fresh.
DecayAfter(uses) == DecayTicks + uses
ExpireAfter(uses) == ExpireTicks + uses

\* Older than this, age makes no difference.
Oldest == ExpireAfter(MaxRecalls)

\* A record: age is the time since last_accessed_at, or since created_at.
Record == [status : Status, uses : 0..MaxRecalls, age : 0..Oldest]

NoRecord == [status |-> "none", uses |-> 0, age |-> 0]
NewRecord == [status |-> "active", uses |-> 0, age |-> 0]
NoRecall == [phase |-> "idle", of |-> {}, copy |-> NoRecord]
NoSweep == [todo |-> {}, done |-> {}]

Copies == [of : Memories, copy : Record]

TypeOK ==
    /\ memory \in [Memories -> {"none", "live", "superseded", "purged"}]
    /\ row \in [Memories -> Record]
    /\ recall \in [Recalls -> [phase : {"idle", "found", "chosen", "read"},
                               of : SUBSET Memories, copy : Record]]
    /\ \A t \in Recalls : recall[t].of \in IF recall[t].phase = "idle" THEN {{}} ELSE {{m} : m \in Memories}
    /\ sweep \in [Sweeps -> [todo : SUBSET Copies, done : SUBSET Copies]]
    /\ recalls \in 0..MaxRecalls
    /\ used \subseteq Memories

Init ==
    /\ memory = [m \in Memories |-> "none"]
    /\ row = [m \in Memories |-> NoRecord]
    /\ recall = [t \in Recalls |-> NoRecall]
    /\ sweep = [s \in Sweeps |-> NoSweep]
    /\ recalls = 0
    /\ used = {}

-----------------------------------------------------------------------------
\* The operations on a record.

\* Slip: an archived memory that is used becomes active again.
ReinforcedAlways(r) == [status |-> "active", uses |-> r.uses + 1, age |-> 0]

\* Slip: a use makes a record fresh and is not counted.
ReinforcedUncounted(r) == IF r.status \in Retired THEN r
                          ELSE [r EXCEPT !.status = "active", !.age = 0]

\* reinforce: a use makes a record active and fresh, unless it is retired.
Reinforced(r) == IF r.status \in Retired THEN r
                 ELSE [status |-> "active", uses |-> r.uses + 1, age |-> 0]

\* Slip: a decayed record counts as terminal.
DecayedOnce(r) ==
    IF r.status \in {"archived", "decayed"} THEN r
    ELSE [r EXCEPT !.status = IF r.age >= ExpireAfter(r.uses) THEN "expired"
                              ELSE IF r.age >= DecayAfter(r.uses) THEN "decayed" ELSE "active"]

\* apply_decay: the status that the idle time gives a record, unless it is archived.
Decayed(r) ==
    IF r.status = "archived" THEN r
    ELSE [r EXCEPT !.status = IF r.age >= ExpireAfter(r.uses) THEN "expired"
                              ELSE IF r.age >= DecayAfter(r.uses) THEN "decayed" ELSE "active"]

Archived(r) == [r EXCEPT !.status = "archived"]

\* store.get(...) or MemoryLifecycle(...)
Known(r) == IF r.status = "none" THEN NewRecord ELSE r

Aged(r) == IF r.status # "none" /\ r.age < Oldest THEN [r EXCEPT !.age = @ + 1] ELSE r

-----------------------------------------------------------------------------
\* observe() and the purge, each in one transaction.

\* A new memory, and get_or_create for its record.
Create(m) ==
    /\ memory[m] = "none"
    /\ memory' = [memory EXCEPT ![m] = "live"]
    /\ row' = [row EXCEPT ![m] = Known(@)]
    /\ UNCHANGED <<recall, sweep, recalls, used>>

\* A memory is superseded, and archive_superseded for its record.
Supersede(m) ==
    /\ memory[m] = "live"
    /\ memory' = [memory EXCEPT ![m] = "superseded"]
    /\ row' = [row EXCEPT ![m] = Archived(Known(@))]
    /\ UNCHANGED <<recall, sweep, recalls, used>>

Purge(m) ==
    /\ memory[m] \in {"live", "superseded"}
    /\ memory' = [memory EXCEPT ![m] = "purged"]
    /\ row' = [row EXCEPT ![m] = NoRecord]
    /\ UNCHANGED <<recall, sweep, recalls, used>>

-----------------------------------------------------------------------------
\* Recall: search, look at the status, then record the access.

Find(t, m) ==
    /\ recall[t].phase = "idle"
    /\ recalls < MaxRecalls
    /\ memory[m] = "live"
    /\ recall' = [recall EXCEPT ![t] = [phase |-> "found", of |-> {m}, copy |-> NoRecord]]
    /\ recalls' = recalls + 1
    /\ UNCHANGED <<memory, row, sweep, used>>

\* status_of: retired memories are left out; a missing record counts as active.
Choose(t, m) ==
    /\ recall[t].phase = "found"
    /\ m \in recall[t].of
    /\ recall' = [recall EXCEPT ![t] = IF row[m].status \in Retired THEN NoRecall
                                       ELSE [@ EXCEPT !.phase = "chosen"]]
    /\ UNCHANGED <<memory, row, sweep, recalls, used>>

\* record_access reads the record ...
Read(t, m) ==
    /\ recall[t].phase = "chosen"
    /\ m \in recall[t].of
    /\ recall' = [recall EXCEPT ![t] = [@ EXCEPT !.phase = "read", !.copy = Known(row[m])]]
    /\ UNCHANGED <<memory, row, sweep, recalls, used>>

\* Somebody else has a copy of the record that it may still save.
Elsewhere(t, m) ==
    \/ \E s \in Sweeps : \E c \in sweep[s].todo \cup sweep[s].done : c.of = m
    \/ \E o \in Recalls \ {t} : recall[o].phase = "read" /\ m \in recall[o].of

\* ... and saves it reinforced.
Save(t, m) ==
    /\ recall[t].phase = "read"
    /\ m \in recall[t].of
    /\ row' = [row EXCEPT ![m] = Reinforced(recall[t].copy)]
    /\ recall' = [recall EXCEPT ![t] = NoRecall]
    /\ used' = IF recall[t].copy.status \in Retired \/ Elsewhere(t, m) THEN used ELSE used \cup {m}
    /\ UNCHANGED <<memory, sweep, recalls>>

-----------------------------------------------------------------------------
\* run_hygiene_sweep.

Listed == {[of |-> m, copy |-> row[m]] : m \in {x \in Memories : row[x].status # "none"}}

\* sweep_decay lists all the records of the scope ...
List(s) ==
    /\ sweep[s] = NoSweep
    /\ Listed # {}
    /\ sweep' = [sweep EXCEPT ![s].todo = Listed]
    /\ UNCHANGED <<memory, row, recall, recalls, used>>

\* ... and saves them decayed, one by one ...
Decay(s, c) ==
    /\ c \in sweep[s].todo
    /\ row' = [row EXCEPT ![c.of] = Decayed(c.copy)]
    /\ sweep' = [sweep EXCEPT ![s] = [todo |-> @.todo \ {c},
                                      done |-> @.done \cup {[c EXCEPT !.copy = Decayed(@)]}]]
    /\ UNCHANGED <<memory, recall, recalls, used>>

\* Slip: used memories are archived too.
Forsaken(r) == r.status = "expired"

\* What a sweep archives: expired and never once recalled.
Unused(r) == r.status = "expired" /\ r.uses = 0

\* ... then goes through them again, and archives those that were never used.
Archive(s, c) ==
    /\ sweep[s].todo = {}
    /\ c \in sweep[s].done
    /\ row' = IF Unused(c.copy) THEN [row EXCEPT ![c.of] = Archived(c.copy)] ELSE row
    /\ sweep' = [sweep EXCEPT ![s].done = @ \ {c}]
    /\ UNCHANGED <<memory, recall, recalls, used>>

\* A save fails or the process dies: the rest of the sweep is dropped.
Drop(s) ==
    /\ sweep[s] # NoSweep
    /\ sweep' = [sweep EXCEPT ![s] = NoSweep]
    /\ UNCHANGED <<memory, row, recall, recalls, used>>

-----------------------------------------------------------------------------
\* Time passes, for the records and for the copies of them.
Tick ==
    /\ Prompt => (\A t \in Recalls : recall[t] = NoRecall) /\ (\A s \in Sweeps : sweep[s] = NoSweep)
    /\ row' = [m \in Memories |-> Aged(row[m])]
    /\ recall' = [t \in Recalls |-> [recall[t] EXCEPT !.copy = Aged(@)]]
    /\ sweep' = [s \in Sweeps |->
                    [todo |-> {[c EXCEPT !.copy = Aged(@)] : c \in sweep[s].todo},
                     done |-> {[c EXCEPT !.copy = Aged(@)] : c \in sweep[s].done}]]
    /\ UNCHANGED <<memory, recalls, used>>

SweepStep(s) == List(s) \/ (\E c \in sweep[s].todo : Decay(s, c)) \/ (\E c \in sweep[s].done : Archive(s, c))

Next ==
    \/ \E m \in Memories : Create(m) \/ Supersede(m) \/ Purge(m)
    \/ \E t \in Recalls, m \in Memories : Find(t, m) \/ Choose(t, m) \/ Read(t, m) \/ Save(t, m)
    \/ \E s \in Sweeps : SweepStep(s) \/ Drop(s)
    \/ Tick

Spec == Init /\ [][Next]_vars

\* Sweeps are run again and again (a cron job, says the facade), and not all of them
\* fail; a recall may stop anywhere.
Fairness == /\ WF_vars(Tick)
            /\ \A s \in Sweeps :
                /\ WF_vars(List(s))
                /\ \A m \in Memories :
                    /\ SF_vars(\E c \in sweep[s].todo : c.of = m /\ Decay(s, c))
                    /\ SF_vars(\E c \in sweep[s].done : c.of = m /\ Archive(s, c))

FairSpec == Spec /\ Fairness

-----------------------------------------------------------------------------
\* However stale the copies are that sweeps and recalls save: a live memory leaves
\* recall only for disuse as its record tells it, for as long as its uses demand, and
\* is archived only if the record has never been used.
RetiredForAReason ==
    \A m \in Memories : memory[m] = "live" =>
        /\ row[m].status \in Retired => row[m].age >= ExpireAfter(row[m].uses)
        /\ row[m].status = "archived" => row[m].uses = 0

\* Using a retired memory does not bring it back (reinforcement.py): a record leaves
\* its retirement only if somebody holds a copy read before it retired.
OnlyOverlapsRevive ==
    [][\A m \in Memories : row[m].status \in Retired /\ row'[m].status \in {"active", "decayed"} =>
        \/ \E t \in Recalls : recall[t].phase = "read" /\ m \in recall[t].of
                              /\ recall[t].copy.status \notin Retired
        \/ \E s \in Sweeps : \E c \in sweep[s].todo : c.of = m /\ c.copy.status \notin Retired]_vars

\* A use is never forgotten, so that no sweep archives the memory for want of one, unless
\* a sweep or another recall had a copy of the record when the use was saved.
OnlyOverlapsForgetUses == \A m \in used : memory[m] = "live" => row[m].uses > 0

\* Nothing stays in recall unused for ever: when the recalls stop, every memory ends
\* up retired, whatever races it went through.
EventuallyRetired == \A m \in Memories : <>[](row[m].status \in Retired \cup {"none"})
=============================================================================
