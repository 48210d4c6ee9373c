------------------------------- MODULE Tokens -------------------------------
(***************************************************************************)
(* The OAuth tokens of the two LLM providers that reuse another tool's     *)
(* login (providers/llm): the other tool's file, which Aftermind only      *)
(* reads, its own file with the pairs it has refreshed, and the requests   *)
(* that look for a usable pair, refresh one when there is none, and keep   *)
(* what they got.  Every refresh spends the token it is made with.         *)
(*                                                                         *)
(* A pair is a number; its access token expires, its refresh token is      *)
(* spent.  The authorization server and the other tools are external.      *)
(***************************************************************************)
EXTENDS Naturals, Sequences, Functions

CONSTANTS
    Threads,        \* callers of complete(), of one process or of several
    MaxPairs        \* bound: how many pairs are issued

ASSUME TokensAssumption == MaxPairs \in Nat

VARIABLES
    issued,         \* for each pair, the provider it is for
    usable,         \* the pairs whose refresh token has not been spent
    fresh,          \* the pairs whose access token has not expired
    login,          \* the pair in the file of the provider's own tool
    store,          \* credentials.json
    tmp,            \* credentials.tmp
    thread,
    excused,        \* history: the providers a pair of which was lost on its way
    raced           \* history: two threads have been saving at the same time

server == <<issued, usable, fresh>>
vars == <<server, login, store, tmp, thread, excused, raced>>

Providers == {"codex_oauth", "claude_code_oauth"}

NoPair == 0
Pair == 1..MaxPairs
Pairs == [Providers -> Pair \cup {NoPair}]
NoFile == [p \in Providers |-> NoPair]

\* The two endpoints of Claude Code are tried in turn; Codex has one.
Endpoints(p) == IF p = "claude_code_oauth" THEN 2 ELSE 1

\* A thread: the pair it refreshes, then the one it has got; the file as it will be saved.
Thread == [at : {"idle", "refresh", "load", "write", "replace", "use"}, provider : Providers,
           pair : Pair \cup {NoPair}, tries : 0..2, data : Pairs]

TokensTypeOK ==
    /\ issued \in Seq(Providers) /\ Len(issued) <= MaxPairs
    /\ usable \subseteq DOMAIN issued /\ fresh \subseteq DOMAIN issued
    /\ login \in Pairs /\ store \in Pairs /\ tmp \in Pairs \cup {<<>>}
    /\ thread \in [Threads -> Thread]
    /\ excused \subseteq Providers /\ raced \in BOOLEAN

Idle == [at |-> "idle", provider |-> "codex_oauth", pair |-> NoPair, tries |-> 0, data |-> NoFile]

Init ==
    /\ issued = <<>> /\ usable = {} /\ fresh = {}
    /\ login = NoFile /\ store = NoFile /\ tmp = <<>>
    /\ thread = [r \in Threads |-> Idle]
    /\ excused = {} /\ raced = FALSE

Becomes(r, next) == thread' = [thread EXCEPT ![r] = next]
Over(r) == Becomes(r, Idle)

\* The server issues a new pair for p and spends the token of `old`.
Issue(p, old) ==
    /\ Len(issued) < MaxPairs
    /\ issued' = Append(issued, p)
    /\ usable' = (usable \ {old}) \cup {Len(issued) + 1}
    /\ fresh' = fresh \cup {Len(issued) + 1}

-----------------------------------------------------------------------------
\* The other tool: a login, and its own refreshing.

Login(p) ==
    /\ Issue(p, NoPair)
    /\ login' = [login EXCEPT ![p] = Len(issued) + 1]
    /\ UNCHANGED <<store, tmp, thread, excused, raced>>

ToolRefreshes(p) ==
    /\ login[p] \in usable
    /\ Issue(p, login[p])
    /\ login' = [login EXCEPT ![p] = Len(issued) + 1]
    /\ UNCHANGED <<store, tmp, thread, excused, raced>>

Expire(t) ==
    /\ t \in fresh
    /\ fresh' = fresh \ {t}
    /\ UNCHANGED <<issued, usable, login, store, tmp, thread, excused, raced>>

-----------------------------------------------------------------------------
\* _current_tokens, _access_token

\* Slip: the tool's token is preferred.
ToRefreshLogin(p) == IF login[p] # NoPair THEN login[p] ELSE store[p]

\* Our own pair is the one to refresh: ours was made with the tool's token, if with any.
ToRefresh(p) == IF store[p] # NoPair THEN store[p] ELSE login[p]

HasAccess(p) == {login[p], store[p]} \cap fresh # {}

\* A pair whose access token is good is used as it is, the tool's or ours; without any pair
\* there is nothing to do.
Look(r) ==
    /\ thread[r].at = "idle"
    /\ \E p \in Providers :
        /\ ToRefresh(p) # NoPair
        /\ Becomes(r, IF HasAccess(p)
                      THEN [Idle EXCEPT !.at = "use", !.provider = p]
                      ELSE [Idle EXCEPT !.at = "refresh", !.provider = p, !.pair = ToRefresh(p)])
    /\ UNCHANGED <<server, login, store, tmp, excused, raced>>

\* refresh_codex_tokens, refresh_claude_code_tokens: a new pair.
Granted(r) ==
    /\ thread[r].at = "refresh" /\ thread[r].pair \in usable
    /\ Issue(thread[r].provider, thread[r].pair)
    /\ Becomes(r, [thread[r] EXCEPT !.at = "load", !.pair = Len(issued) + 1])
    /\ UNCHANGED <<login, store, tmp, excused, raced>>

\* After a failed call the next endpoint is asked with the same token, if there is one.
NextEndpoint(r) ==
    IF thread[r].tries + 1 < Endpoints(thread[r].provider)
    THEN Becomes(r, [thread[r] EXCEPT !.tries = @ + 1])
    ELSE Over(r)

\* The server refuses the token or cannot be reached.
Refused(r) ==
    /\ thread[r].at = "refresh"
    /\ NextEndpoint(r)
    /\ UNCHANGED <<server, login, store, tmp, excused, raced>>

\* The answer does not arrive: the token is spent and the new pair unknown.
AnswerLost(r) ==
    /\ thread[r].at = "refresh" /\ thread[r].pair \in usable
    /\ Issue(thread[r].provider, thread[r].pair)
    /\ excused' = excused \cup {thread[r].provider}
    /\ NextEndpoint(r)
    /\ UNCHANGED <<login, store, tmp, raced>>

-----------------------------------------------------------------------------
\* TokenStore.set

Saving(r) == thread[r].at \in {"write", "replace"}

\* Slip: the spent token is kept with the new access token.
LoadSpent(r) ==
    /\ thread[r].at = "load"
    /\ Becomes(r, [thread[r] EXCEPT !.at = "write", !.data = [store EXCEPT ![thread[r].provider] = ToRefresh(thread[r].provider)]])
    /\ raced' = (raced \/ \E o \in Threads \ {r} : Saving(o))
    /\ UNCHANGED <<server, login, store, tmp, excused>>

\* The file is loaded, the pair put in its place, ...
Load(r) ==
    /\ thread[r].at = "load"
    /\ Becomes(r, [thread[r] EXCEPT !.at = "write", !.data = [store EXCEPT ![thread[r].provider] = thread[r].pair]])
    /\ raced' = (raced \/ \E o \in Threads \ {r} : Saving(o))
    /\ UNCHANGED <<server, login, store, tmp, excused>>

\* ... written to the temporary file all providers share, ...
Write(r) ==
    /\ thread[r].at = "write"
    /\ tmp' = thread[r].data
    /\ Becomes(r, [thread[r] EXCEPT !.at = "replace"])
    /\ UNCHANGED <<server, login, store, excused, raced>>

\* ... which takes the place of the file, if nobody else has moved it by then: the request
\* fails then.
Replace(r) ==
    /\ thread[r].at = "replace"
    /\ IF tmp = <<>>
       THEN Over(r) /\ UNCHANGED <<store, tmp>>
       ELSE /\ store' = tmp /\ tmp' = <<>>
            /\ Becomes(r, [Idle EXCEPT !.at = "use", !.provider = thread[r].provider])
    /\ UNCHANGED <<server, login, excused, raced>>

\* complete() goes on with the access token.
Use(r) ==
    /\ thread[r].at = "use"
    /\ Over(r)
    /\ UNCHANGED <<server, login, store, tmp, excused, raced>>

\* The process dies.
Die(r) ==
    /\ thread[r].at # "idle"
    /\ excused' = IF thread[r].at = "load" \/ Saving(r) THEN excused \cup {thread[r].provider} ELSE excused
    /\ Over(r)
    /\ UNCHANGED <<server, login, store, tmp, raced>>

Next ==
    \/ \E p \in Providers : Login(p) \/ ToolRefreshes(p)
    \/ \E t \in Pair : Expire(t)
    \/ \E r \in Threads :
        \/ Look(r) \/ Granted(r) \/ Refused(r) \/ AnswerLost(r)
        \/ Load(r) \/ Write(r) \/ Replace(r) \/ Use(r)
        \/ Die(r)

Spec == Init /\ [][Next]_vars

-----------------------------------------------------------------------------
\* The pair a thread has been granted and not saved yet.
InHand(r) == IF thread[r].at = "load" \/ Saving(r) THEN {thread[r].pair} ELSE {}

\* Whoever has logged in need not do so again: a pair that can still be refreshed is in one
\* of the files or about to be, however the tool and the threads take turns refreshing;
\* unless an answer got lost, a process died with the pair, or two threads were saving at
\* the same time.
LoginIsKept ==
    \A p \in Providers : p \in Range(issued) =>
        \/ raced \/ p \in excused
        \/ \E t \in usable : issued[t] = p /\ t \in {login[p], store[p]} \cup UNION {InHand(r) : r \in Threads}

\* A refresh is not tried with a token already spent, except while the pair that it bought
\* is on its way to the file, or for the same reasons.
NoSpentTokens ==
    [][\A r \in Threads : thread[r].at = "idle" /\ thread'[r].at = "refresh" =>
        LET p == thread'[r].provider
        IN  \/ raced \/ p \in excused
            \/ thread'[r].pair \in usable
            \/ \E o \in Threads : thread[o].provider = p /\ InHand(o) # {}]_vars
=============================================================================
