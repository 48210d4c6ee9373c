----------------------------- MODULE SyncIntent -----------------------------
(***************************************************************************)
(* What the sync outbox promises, without rows, workers, retries or time.  *)
(* A committed memory change records an intent to propagate it to a        *)
(* derived store.  The intent stays open until it is settled, and it is    *)
(* settled only once its effect has been applied; it may instead be        *)
(* abandoned (every attempt used up), from where only an operator reopens  *)
(* it; an operator may drop it together with its memory.  Applying the     *)
(* effect and settling are two steps: the effect may be applied more than  *)
(* once, never zero times.                                                 *)
(***************************************************************************)
CONSTANT Jobs       \* the sync intents

VARIABLES intent,   \* [Jobs -> intent status]
          effect    \* the intents whose effect reached the derived store

intentVars == <<intent, effect>>

IntentStatus == {"absent", "open", "settled", "abandoned", "dropped"}

IntentTypeOK ==
    /\ intent \in [Jobs -> IntentStatus]
    /\ effect \subseteq Jobs

Init ==
    /\ intent = [j \in Jobs |-> "absent"]
    /\ effect = {}

\* One transaction records any number of new intents.
Record(js) ==
    /\ js # {}
    /\ \A j \in js : intent[j] = "absent"
    /\ intent' = [j \in Jobs |-> IF j \in js THEN "open" ELSE intent[j]]
    /\ UNCHANGED effect

\* The handler's effect lands.  An intent that was dropped meanwhile may still be
\* in a thread's hands, so it may still be applied.
Apply(j) ==
    /\ intent[j] \in {"open", "dropped"}
    /\ effect' = effect \cup {j}
    /\ UNCHANGED intent

\* The outcome of an attempt is recorded: settled only after the effect.  The
\* late outcome of a dropped intent brings it back.
Conclude(j, s) ==
    /\ intent[j] \in {"open", "dropped"}
    /\ s \in {"open", "settled", "abandoned"}
    /\ s = "settled" => j \in effect
    /\ intent' = [intent EXCEPT ![j] = s]
    /\ UNCHANGED effect

\* An operator requeues a dead intent (or one dropped since he listed it).
Reopen(j) ==
    /\ intent[j] \in {"abandoned", "dropped"}
    /\ intent' = [intent EXCEPT ![j] = "open"]
    /\ UNCHANGED effect

\* An operator deletes the memory and its intents.
Drop(j) ==
    /\ intent[j] \notin {"absent", "dropped"}
    /\ intent' = [intent EXCEPT ![j] = "dropped"]
    /\ UNCHANGED effect

Next ==
    \/ \E js \in SUBSET Jobs : Record(js)
    \/ \E j \in Jobs :
        \/ Apply(j)
        \/ \E s \in IntentStatus : Conclude(j, s)
        \/ Reopen(j)
        \/ Drop(j)

Spec == Init /\ [][Next]_intentVars
=============================================================================
