---------------------------- MODULE TokensProofs ----------------------------
(***************************************************************************)
(* Proofs about Tokens: a pair on its way to the file is known to nobody   *)
(* but the thread that was granted it, and the file is written by one      *)
(* thread at a time unless two are saving at once.  So the pair arrives    *)
(* unspent, and takes the place of the one it was bought with.             *)
(***************************************************************************)
EXTENDS Tokens, TLAPS

-----------------------------------------------------------------------------
(* The inductive invariant. *)

Carries(r) == thread[r].at \in {"load", "write", "replace"}

\* t is a pair of p.
PairOf(t, p) == t \in DOMAIN issued /\ issued[t] = p

\* Pairs are kept under the provider that issued them.
Filed ==
    /\ \A p \in Providers :
        /\ login[p] # NoPair => PairOf(login[p], p)
        /\ store[p] # NoPair => PairOf(store[p], p)
        /\ tmp # <<>> /\ tmp[p] # NoPair => PairOf(tmp[p], p)
        /\ \A r \in Threads : thread[r].data[p] # NoPair => PairOf(thread[r].data[p], p)
    /\ \A r \in Threads : thread[r].at = "refresh" \/ Carries(r) => PairOf(thread[r].pair, thread[r].provider)

\* The pairs of the tools and those Aftermind was granted are different ones.
Apart ==
    \A p, q \in Providers : login[p] # NoPair =>
        /\ store[q] # login[p]
        /\ tmp # <<>> => tmp[q] # login[p]
        /\ \A r \in Threads :
            /\ thread[r].data[q] # login[p]
            /\ Carries(r) => thread[r].pair # login[p]

\* A pair on its way to the file is unspent, and only its thread has it.
Private ==
    ~raced => \A r \in Threads : Carries(r) =>
        /\ thread[r].pair \in usable
        /\ \A q \in Providers : store[q] # thread[r].pair
        /\ \A o \in Threads \ {r} : thread[o].at = "refresh" \/ Carries(o) => thread[o].pair # thread[r].pair

\* One thread is saving, and what it will save is the file as it is but for its own pair.
OneSaver ==
    ~raced => \A r \in Threads : Saving(r) =>
        /\ thread[r].data = [store EXCEPT ![thread[r].provider] = thread[r].pair]
        /\ thread[r].at = "replace" => tmp = thread[r].data
        /\ \A o \in Threads : Saving(o) => o = r

\* What a thread would refresh with next is unspent, or what it has bought is on its way.
NextIsGood ==
    \A p \in Providers : ToRefresh(p) # NoPair =>
        \/ raced \/ p \in excused
        \/ ToRefresh(p) \in usable
        \/ \E o \in Threads : thread[o].provider = p /\ Carries(o)

\* p can be refreshed, or there is an excuse.
Kept(p) ==
    \/ raced \/ p \in excused
    \/ \E t \in usable :
        /\ PairOf(t, p)
        /\ t = login[p] \/ t = store[p] \/ \E r \in Threads : Carries(r) /\ t = thread[r].pair

AllKept == \A p \in Providers : (\E t \in DOMAIN issued : issued[t] = p) => Kept(p)

Inv ==
    /\ TokensTypeOK
    /\ Filed
    /\ Apart
    /\ Private
    /\ OneSaver
    /\ NextIsGood
    /\ AllKept

-----------------------------------------------------------------------------
NewPair == Len(issued) + 1

LEMMA IdleTyped == Idle \in Thread
  BY TokensAssumption DEF Idle, Thread, Pairs, NoFile, NoPair, Providers, Pair

\* The pair that is issued is new, and the others stay what they are.
LEMMA Issuing ==
  ASSUME TokensTypeOK, NEW p \in Providers, NEW old, Issue(p, old)
  PROVE  /\ issued' \in Seq(Providers) /\ Len(issued') <= MaxPairs
         /\ NewPair \in Pair /\ NewPair # NoPair /\ NewPair \notin DOMAIN issued
         /\ DOMAIN issued' = DOMAIN issued \cup {NewPair}
         /\ issued'[NewPair] = p
         /\ \A t \in DOMAIN issued : issued'[t] = issued[t]
         /\ usable' \subseteq DOMAIN issued' /\ fresh' \subseteq DOMAIN issued'
  <1>1. Len(issued) \in Nat /\ DOMAIN issued = 1..Len(issued)
    BY DEF TokensTypeOK
  <1>2. issued' = Append(issued, p) /\ Len(issued) < MaxPairs
    BY DEF Issue
  <1>3. issued' \in Seq(Providers) /\ Len(issued') = NewPair /\ DOMAIN issued' = 1..NewPair
    BY <1>1, <1>2 DEF TokensTypeOK, NewPair
  <1>4. issued'[NewPair] = p /\ \A t \in DOMAIN issued : issued'[t] = issued[t]
    BY <1>1, <1>2 DEF TokensTypeOK, NewPair
  <1>5. DOMAIN issued' = DOMAIN issued \cup {NewPair}
    BY <1>1, <1>3 DEF NewPair
  <1> QED
    BY <1>1, <1>2, <1>3, <1>4, <1>5, TokensAssumption DEF Issue, TokensTypeOK, Pair, NoPair, NewPair

\* One thread moves, the others stay where they are.
LEMMA Becoming ==
  ASSUME TokensTypeOK, NEW r \in Threads, NEW next \in Thread, Becomes(r, next)
  PROVE  /\ thread' \in [Threads -> Thread]
         /\ thread'[r] = next
         /\ \A o \in Threads : o # r => thread'[o] = thread[o]
  BY DEF Becomes, TokensTypeOK

\* A thread with no pair in hand.
LEMMA IdleFacts ==
  /\ Idle.at = "idle" /\ Idle.data = NoFile
  /\ \A p \in Providers : Idle.data[p] = NoPair
  BY DEF Idle, NoFile

LEMMA Initially == Init => Inv
  <1> SUFFICES ASSUME Init PROVE Inv
    OBVIOUS
  <1>1. issued \in Seq(Providers) /\ Len(issued) = 0 /\ DOMAIN issued = {}
    BY DEF Init
  <1>2. NoFile \in Pairs
    BY TokensAssumption DEF NoFile, Pairs, NoPair
  <1>3. thread \in [Threads -> Thread]
    BY IdleTyped DEF Init
  <1>6. Len(issued) <= MaxPairs /\ usable \subseteq DOMAIN issued /\ fresh \subseteq DOMAIN issued
    BY <1>1, TokensAssumption DEF Init
  <1>7. login \in Pairs /\ store \in Pairs /\ tmp \in Pairs \cup {<<>>} /\ excused \subseteq Providers /\ raced \in BOOLEAN
    BY <1>2 DEF Init
  <1>8. TokensTypeOK
    BY <1>1, <1>3, <1>6, <1>7 DEF TokensTypeOK
  <1>4. Filed /\ Apart /\ Private /\ OneSaver
    BY IdleFacts DEF Init, Filed, Apart, Private, OneSaver, Carries, Saving, NoFile, Idle
  <1>5. NextIsGood /\ AllKept
    BY <1>1 DEF Init, NextIsGood, AllKept, ToRefresh, NoFile
  <1> QED
    BY <1>8, <1>4, <1>5 DEF Inv

-----------------------------------------------------------------------------
(* The other tool. *)

\* Everything that is known is an issued pair, so a new one is unknown.
LEMMA Unknown ==
  ASSUME TokensTypeOK, Filed, NEW n, n \notin DOMAIN issued, n # NoPair, NEW q \in Providers
  PROVE  /\ login[q] # n /\ store[q] # n
         /\ tmp # <<>> => tmp[q] # n
         /\ \A r \in Threads : /\ thread[r].data[q] # n
                               /\ thread[r].at = "refresh" \/ Carries(r) => thread[r].pair # n
  BY DEF Filed, PairOf

\* The tool gets a new pair, whatever it paid with that is not Aftermind's.
LEMMA ToolGets ==
  ASSUME Inv, NEW p \in Providers, NEW old, Issue(p, old),
         old = NoPair \/ old = login[p],
         login' = [login EXCEPT ![p] = NewPair],
         UNCHANGED <<store, tmp, thread, excused, raced>>
  PROVE  Inv'
  <1>1. /\ issued' \in Seq(Providers) /\ Len(issued') <= MaxPairs
        /\ NewPair \in Pair /\ NewPair # NoPair /\ NewPair \notin DOMAIN issued
        /\ DOMAIN issued' = DOMAIN issued \cup {NewPair}
        /\ issued'[NewPair] = p
        /\ \A t \in DOMAIN issued : issued'[t] = issued[t]
        /\ usable' \subseteq DOMAIN issued' /\ fresh' \subseteq DOMAIN issued'
    BY Issuing DEF Inv
  <1>2. usable' = (usable \ {old}) \cup {NewPair}
    BY DEF Issue, NewPair
  <1>3. /\ login'[p] = NewPair
        /\ \A q \in Providers : q # p => login'[q] = login[q]
        /\ login' \in Pairs
    BY <1>1 DEF Inv, TokensTypeOK, Pairs
  <1>4. TokensTypeOK'
    BY <1>1, <1>3 DEF Inv, TokensTypeOK
  <1>5. \A t, q : PairOf(t, q) => PairOf(t, q)'
    BY <1>1 DEF PairOf
  <1>6. \A t, q : PairOf(t, q) /\ q # p /\ old = login[p] /\ old # NoPair => t # old
    BY DEF Inv, Filed, PairOf
  <1>7. Filed'
    BY <1>1, <1>3, <1>5 DEF Inv, Filed, PairOf, Carries
  <1>8. \A q \in Providers :
          /\ login[q] # NewPair /\ store[q] # NewPair
          /\ tmp # <<>> => tmp[q] # NewPair
          /\ \A r \in Threads : /\ thread[r].data[q] # NewPair
                                /\ thread[r].at = "refresh" \/ Carries(r) => thread[r].pair # NewPair
    BY <1>1, Unknown DEF Inv
  <1>9. Apart'
    <2> SUFFICES ASSUME NEW c \in Providers, NEW q \in Providers, login'[c] # NoPair
                 PROVE  /\ store[q] # login'[c]
                        /\ tmp # <<>> => tmp[q] # login'[c]
                        /\ \A r \in Threads :
                            /\ thread[r].data[q] # login'[c]
                            /\ Carries(r) => thread[r].pair # login'[c]
      BY DEF Apart, Carries
    <2>1. CASE c = p
      BY <1>3, <1>8, <2>1
    <2>2. CASE c # p
      BY <1>3, <2>2 DEF Inv, Apart
    <2> QED
      BY <2>1, <2>2
  <1>10. 0 \notin usable
    BY DEF Inv, TokensTypeOK
  <1>11. Private'
    <2> SUFFICES ASSUME ~raced, NEW r \in Threads, Carries(r)
                 PROVE  thread[r].pair \in usable'
      BY DEF Inv, Private, Carries
    <2>1. thread[r].pair \in usable
      BY DEF Inv, Private
    <2>2. old = login[p] /\ old # NoPair => thread[r].pair # old
      BY DEF Inv, Apart
    <2> QED
      BY <1>2, <1>10, <2>1, <2>2 DEF NoPair
  <1>12. OneSaver'
    BY DEF Inv, OneSaver, Saving
  <1>13. NextIsGood'
    <2> SUFFICES ASSUME NEW q \in Providers, ToRefresh(q)' # NoPair, ~raced, q \notin excused,
                        ~ \E o \in Threads : thread[o].provider = q /\ Carries(o)
                 PROVE  ToRefresh(q)' \in usable'
      BY DEF NextIsGood, Carries
    <2>1. CASE q = p /\ store[q] = NoPair
      BY <1>2, <1>3, <2>1 DEF ToRefresh
    <2>2. CASE ~(q = p /\ store[q] = NoPair)
      <3>1. ToRefresh(q)' = ToRefresh(q)
        BY <1>3, <2>2 DEF ToRefresh
      <3>2. ToRefresh(q) \in usable
        BY <3>1 DEF Inv, NextIsGood
      <3>3. old # NoPair => ToRefresh(q) # old
        <4>1. CASE q # p
          BY <1>6, <4>1, <3>1 DEF Inv, Filed, ToRefresh
        <4>2. CASE q = p
          BY <2>2, <4>2 DEF Inv, Apart, ToRefresh
        <4> QED
          BY <4>1, <4>2
      <3> QED
        BY <1>2, <1>10, <3>1, <3>2, <3>3 DEF NoPair
    <2> QED
      BY <2>1, <2>2
  <1>14. AllKept'
    <2> SUFFICES ASSUME NEW q \in Providers, \E t \in DOMAIN issued' : issued'[t] = q
                 PROVE  Kept(q)'
      BY DEF AllKept
    <2>1. CASE q = p
      BY <1>1, <1>2, <1>3, <2>1 DEF Kept, PairOf
    <2>2. CASE q # p
      <3>1. Kept(q)
        BY <1>1, <2>2 DEF Inv, AllKept
      <3>2. SUFFICES ASSUME NEW t \in usable, PairOf(t, q),
                            t = login[q] \/ t = store[q] \/ \E r \in Threads : Carries(r) /\ t = thread[r].pair
                     PROVE  Kept(q)'
        BY <3>1 DEF Kept
      <3>3. t \in usable'
        BY <1>2, <1>6, <1>10, <2>2, <3>2 DEF NoPair
      <3> QED
        BY <1>3, <1>5, <2>2, <3>2, <3>3 DEF Kept, Carries
    <2> QED
      BY <2>1, <2>2
  <1> QED
    BY <1>4, <1>7, <1>9, <1>11, <1>12, <1>13, <1>14 DEF Inv
LEMMA LoginKeeps == ASSUME Inv, NEW p \in Providers, Login(p) PROVE Inv'
  BY ToolGets DEF Login, NewPair

LEMMA ToolRefreshesKeeps == ASSUME Inv, NEW p \in Providers, ToolRefreshes(p) PROVE Inv'
  BY ToolGets DEF ToolRefreshes, NewPair

LEMMA ExpireKeeps == ASSUME Inv, NEW t \in Pair, Expire(t) PROVE Inv'
  <1>1. TokensTypeOK'
    BY DEF Inv, TokensTypeOK, Expire
  <1>2. Filed' /\ Apart' /\ Private' /\ OneSaver'
    BY DEF Inv, Expire, Filed, Apart, Private, OneSaver, PairOf, Carries, Saving
  <1>3. NextIsGood' /\ AllKept'
    BY DEF Inv, Expire, NextIsGood, AllKept, Kept, PairOf, Carries, ToRefresh
  <1> QED
    BY <1>1, <1>2, <1>3 DEF Inv

-----------------------------------------------------------------------------
(* A thread looks for a pair, gives up, goes on, or dies: the files stay as *)
(* they are, and a pair it carried is excused.                              *)

LEMMA StepsAside ==
  ASSUME Inv, NEW r \in Threads, NEW next \in Thread, Becomes(r, next),
         UNCHANGED <<server, login, store, tmp, raced>>,
         excused \subseteq excused', excused' \subseteq Providers,
         next.at \in {"idle", "use", "refresh"},
         Carries(r) => raced \/ thread[r].provider \in excused',
         next.data = NoFile \/ next.data = thread[r].data,
         next.at = "refresh" =>
           /\ PairOf(next.pair, next.provider)
           /\ \A o \in Threads : o # r /\ ~raced /\ Carries(o) => thread[o].pair # next.pair
  PROVE  Inv'
  <1>1. /\ thread' \in [Threads -> Thread]
        /\ thread'[r] = next
        /\ \A o \in Threads : o # r => thread'[o] = thread[o]
    BY Becoming DEF Inv
  <1>2. /\ ~Carries(r)' /\ ~Saving(r)'
        /\ \A o \in Threads : o # r => (Carries(o)' <=> Carries(o)) /\ (Saving(o)' <=> Saving(o))
    BY <1>1 DEF Carries, Saving
  <1>3. TokensTypeOK'
    BY <1>1 DEF Inv, TokensTypeOK, server
  <1>4. \A q \in Providers : next.data[q] # NoPair => next.data[q] = thread[r].data[q]
    BY DEF NoFile
  <1>5. Filed'
    BY <1>1, <1>2, <1>4 DEF Inv, Filed, PairOf, server
  <1>6. Apart'
    BY <1>1, <1>2, <1>4 DEF Inv, Apart
  <1>7. Private'
    <2> SUFFICES ASSUME ~raced, NEW o \in Threads, o # r, Carries(o)
                 PROVE  /\ thread[o].pair \in usable
                        /\ \A q \in Providers : store[q] # thread[o].pair
                        /\ \A k \in Threads \ {o} :
                             thread'[k].at = "refresh" \/ Carries(k)' => thread'[k].pair # thread[o].pair
      BY <1>1, <1>2 DEF Private, server
    <2>1. /\ thread[o].pair \in usable
          /\ \A q \in Providers : store[q] # thread[o].pair
          /\ \A k \in Threads \ {o} : thread[k].at = "refresh" \/ Carries(k) => thread[k].pair # thread[o].pair
      BY DEF Inv, Private
    <2> QED
      BY <1>1, <1>2, <2>1
  <1>8. OneSaver'
    BY <1>1, <1>2 DEF Inv, OneSaver
  <1>9. NextIsGood'
    <2> SUFFICES ASSUME NEW q \in Providers, ToRefresh(q) # NoPair, ~raced, q \notin excused',
                        ToRefresh(q) \notin usable
                 PROVE  \E o \in Threads : thread'[o].provider = q /\ Carries(o)'
      BY DEF NextIsGood, ToRefresh, server
    <2>1. PICK o \in Threads : thread[o].provider = q /\ Carries(o)
      BY DEF Inv, NextIsGood
    <2>2. o # r
      BY <2>1
    <2> QED
      BY <1>1, <1>2, <2>1, <2>2
  <1>10. AllKept'
    <2> SUFFICES ASSUME NEW q \in Providers, Kept(q), ~raced, q \notin excused'
                 PROVE  Kept(q)'
      BY DEF Inv, AllKept, Kept, server
    <2>1. PICK t \in usable :
            /\ PairOf(t, q)
            /\ t = login[q] \/ t = store[q] \/ \E o \in Threads : Carries(o) /\ t = thread[o].pair
      BY DEF Kept
    <2>2. t \in usable' /\ PairOf(t, q)'
      BY <2>1 DEF PairOf, server
    <2>3. CASE t = login[q] \/ t = store[q]
      BY <2>2, <2>3 DEF Kept
    <2>4. ASSUME NEW o \in Threads, Carries(o), t = thread[o].pair PROVE Kept(q)'
      <3>1. thread[o].provider = q
        BY <2>1, <2>4 DEF Inv, Filed, PairOf
      <3>2. o # r
        BY <3>1, <2>4
      <3> QED
        BY <1>1, <1>2, <2>2, <2>4, <3>2 DEF Kept
    <2> QED
      BY <2>1, <2>3, <2>4
  <1> QED
    BY <1>3, <1>5, <1>6, <1>7, <1>8, <1>9, <1>10 DEF Inv

LEMMA LookKeeps == ASSUME Inv, NEW r \in Threads, Look(r) PROVE Inv'
  <1>1. PICK p \in Providers :
          /\ ToRefresh(p) # NoPair
          /\ Becomes(r, IF HasAccess(p)
                        THEN [Idle EXCEPT !.at = "use", !.provider = p]
                        ELSE [Idle EXCEPT !.at = "refresh", !.provider = p, !.pair = ToRefresh(p)])
    BY DEF Look
  <1>2. thread[r].at = "idle" /\ UNCHANGED <<server, login, store, tmp, excused, raced>>
    BY DEF Look
  <1>3. ~Carries(r) /\ excused \subseteq Providers
    BY <1>2 DEF Carries, Inv, TokensTypeOK
  <1>4. CASE HasAccess(p)
    <2> DEFINE next == [Idle EXCEPT !.at = "use", !.provider = p]
    <2>1. next \in Thread /\ next.at = "use" /\ next.data = NoFile
      BY IdleTyped DEF Idle, Thread
    <2> HIDE DEF next
    <2>2. Becomes(r, next)
      BY <1>1, <1>4 DEF next
    <2> QED
      BY <1>2, <1>3, <2>1, <2>2, StepsAside
  <1>5. CASE ~HasAccess(p)
    <2> DEFINE next == [Idle EXCEPT !.at = "refresh", !.provider = p, !.pair = ToRefresh(p)]
    <2>1. ToRefresh(p) \in Pair \cup {NoPair}
      BY DEF ToRefresh, Inv, TokensTypeOK, Pairs
    <2>2. next \in Thread /\ next.at = "refresh" /\ next.data = NoFile
          /\ next.provider = p /\ next.pair = ToRefresh(p)
      BY <2>1, IdleTyped DEF Idle, Thread
    <2>3. PairOf(ToRefresh(p), p)
      BY <1>1 DEF ToRefresh, Inv, Filed
    <2>4. \A o \in Threads : ~raced /\ Carries(o) => thread[o].pair # ToRefresh(p)
      BY <1>1 DEF ToRefresh, Inv, Apart, Private
    <2> HIDE DEF next
    <2>5. Becomes(r, next)
      BY <1>1, <1>5 DEF next
    <2> QED
      BY <1>2, <1>3, <2>2, <2>3, <2>4, <2>5, StepsAside
  <1> QED
    BY <1>4, <1>5

\* The next endpoint is asked, or the call is over.
LEMMA NextEndpointTyped ==
  ASSUME TokensTypeOK, NEW r \in Threads, thread[r].at = "refresh", NextEndpoint(r)
  PROVE  \E next \in Thread :
           /\ Becomes(r, next)
           /\ \/ next = Idle
              \/ /\ next.at = "refresh" /\ next.provider = thread[r].provider
                 /\ next.pair = thread[r].pair /\ next.data = thread[r].data
  <1>1. CASE thread[r].tries + 1 < Endpoints(thread[r].provider)
    <2> DEFINE next == [thread[r] EXCEPT !.tries = @ + 1]
    <2>1. thread[r] \in Thread
      BY DEF TokensTypeOK
    <2>2. thread[r].tries + 1 \in 0..2
      BY <1>1, <2>1 DEF Thread, Endpoints
    <2>3. next \in Thread /\ next.at = "refresh" /\ next.provider = thread[r].provider
          /\ next.pair = thread[r].pair /\ next.data = thread[r].data
      BY <2>1, <2>2 DEF Thread
    <2>4. Becomes(r, next)
      BY <1>1 DEF NextEndpoint
    <2> QED
      BY <2>3, <2>4
  <1>2. CASE ~(thread[r].tries + 1 < Endpoints(thread[r].provider))
    BY <1>2, IdleTyped DEF NextEndpoint, Over
  <1> QED
    BY <1>1, <1>2

LEMMA RefusedKeeps == ASSUME Inv, NEW r \in Threads, Refused(r) PROVE Inv'
  <1>1. thread[r].at = "refresh" /\ NextEndpoint(r) /\ UNCHANGED <<server, login, store, tmp, excused, raced>>
    BY DEF Refused
  <1>2. PICK next \in Thread :
           /\ Becomes(r, next)
           /\ \/ next = Idle
              \/ /\ next.at = "refresh" /\ next.provider = thread[r].provider
                 /\ next.pair = thread[r].pair /\ next.data = thread[r].data
    BY <1>1, NextEndpointTyped DEF Inv
  <1>3. ~Carries(r) /\ excused \subseteq Providers
    BY <1>1 DEF Carries, Inv, TokensTypeOK
  <1>4. next.at \in {"idle", "refresh"} /\ (next.data = NoFile \/ next.data = thread[r].data)
    BY <1>2, IdleFacts
  <1>5. next.at = "refresh" =>
           /\ PairOf(next.pair, next.provider)
           /\ \A o \in Threads : o # r /\ ~raced /\ Carries(o) => thread[o].pair # next.pair
    BY <1>1, <1>2, IdleFacts DEF Inv, Filed, Private
  <1> QED
    BY <1>1, <1>2, <1>3, <1>4, <1>5, StepsAside

LEMMA UseKeeps == ASSUME Inv, NEW r \in Threads, Use(r) PROVE Inv'
  <1>1. ~Carries(r) /\ excused \subseteq Providers
    BY DEF Use, Carries, Inv, TokensTypeOK
  <1> QED
    BY <1>1, IdleTyped, IdleFacts, StepsAside DEF Use, Over

LEMMA DieKeeps == ASSUME Inv, NEW r \in Threads, Die(r) PROVE Inv'
  <1>1. thread[r].provider \in Providers /\ excused \subseteq Providers
    BY DEF Inv, TokensTypeOK, Thread
  <1>2. /\ excused \subseteq excused' /\ excused' \subseteq Providers
        /\ Carries(r) => thread[r].provider \in excused'
    BY <1>1 DEF Die, Carries, Saving
  <1> QED
    BY <1>2, IdleTyped, IdleFacts, StepsAside DEF Die, Over
-----------------------------------------------------------------------------
(* A thread's token is spent. *)

\* What was said of the pairs of others, and of those on their way, stays true.
LEMMA Spending ==
  ASSUME Inv, NEW r \in Threads, thread[r].at = "refresh", thread[r].pair \in usable,
         Issue(thread[r].provider, thread[r].pair)
  PROVE  /\ \A t, q : PairOf(t, q) => PairOf(t, q)'
         /\ \A t, q : PairOf(t, q) /\ q # thread[r].provider /\ t \in usable => t \in usable'
         /\ \A o \in Threads : o # r /\ ~raced /\ Carries(o) => thread[o].pair \in usable'
         /\ NewPair \in usable' /\ NewPair \in DOMAIN issued' /\ issued'[NewPair] = thread[r].provider
         /\ \A q : q # thread[r].provider /\ (\E t \in DOMAIN issued' : issued'[t] = q)
               => \E t \in DOMAIN issued : issued[t] = q
  <1> DEFINE p == thread[r].provider
  <1>1. p \in Providers
    BY DEF Inv, TokensTypeOK, Thread
  <1>2. /\ DOMAIN issued' = DOMAIN issued \cup {NewPair}
        /\ NewPair \notin DOMAIN issued
        /\ issued'[NewPair] = p
        /\ \A t \in DOMAIN issued : issued'[t] = issued[t]
    BY <1>1, Issuing DEF Inv
  <1>3. usable' = (usable \ {thread[r].pair}) \cup {NewPair}
    BY DEF Issue, NewPair
  <1>4. PairOf(thread[r].pair, p)
    BY DEF Inv, Filed
  <1>5. \A o \in Threads : o # r /\ ~raced /\ Carries(o) =>
          thread[o].pair \in usable /\ thread[o].pair # thread[r].pair
    BY DEF Inv, Private
  <1> QED
    BY <1>2, <1>3, <1>4, <1>5 DEF PairOf

LEMMA GrantedKeeps == ASSUME Inv, NEW r \in Threads, Granted(r) PROVE Inv'
  <1> DEFINE p == thread[r].provider
             next == [thread[r] EXCEPT !.at = "load", !.pair = NewPair]
  <1>1. /\ thread[r].at = "refresh" /\ thread[r].pair \in usable
        /\ Issue(p, thread[r].pair) /\ Becomes(r, next)
        /\ UNCHANGED <<login, store, tmp, excused, raced>>
    BY DEF Granted, NewPair
  <1>2. thread[r] \in Thread /\ p \in Providers
    BY DEF Inv, TokensTypeOK, Thread
  <1>3. /\ issued' \in Seq(Providers) /\ Len(issued') <= MaxPairs
        /\ NewPair \in Pair /\ NewPair # NoPair /\ NewPair \notin DOMAIN issued
        /\ usable' \subseteq DOMAIN issued' /\ fresh' \subseteq DOMAIN issued'
    BY <1>1, <1>2, Issuing DEF Inv
  <1>4. /\ \A t, q : PairOf(t, q) => PairOf(t, q)'
        /\ \A t, q : PairOf(t, q) /\ q # p /\ t \in usable => t \in usable'
        /\ \A o \in Threads : o # r /\ ~raced /\ Carries(o) => thread[o].pair \in usable'
        /\ NewPair \in usable' /\ NewPair \in DOMAIN issued' /\ issued'[NewPair] = p
        /\ \A q : q # p /\ (\E t \in DOMAIN issued' : issued'[t] = q)
              => \E t \in DOMAIN issued : issued[t] = q
    BY <1>1, Spending
  <1>5. /\ next \in Thread /\ next.at = "load" /\ next.pair = NewPair
        /\ next.provider = p /\ next.data = thread[r].data
    BY <1>2, <1>3 DEF Thread
  <1> HIDE DEF next
  <1>6. /\ thread' \in [Threads -> Thread]
        /\ thread'[r] = next
        /\ \A o \in Threads : o # r => thread'[o] = thread[o]
    BY <1>1, <1>5, Becoming DEF Inv
  <1>7. /\ Carries(r)' /\ ~Saving(r)' /\ ~Saving(r)
        /\ \A o \in Threads : o # r => (Carries(o)' <=> Carries(o)) /\ (Saving(o)' <=> Saving(o))
    BY <1>1, <1>5, <1>6 DEF Carries, Saving
  <1>8. \A q \in Providers :
          /\ login[q] # NewPair /\ store[q] # NewPair
          /\ \A o \in Threads : thread[o].at = "refresh" \/ Carries(o) => thread[o].pair # NewPair
    BY <1>3, Unknown DEF Inv
  <1>9. TokensTypeOK'
    BY <1>1, <1>3, <1>6 DEF Inv, TokensTypeOK
  <1>10. Filed'
    BY <1>1, <1>4, <1>5, <1>6, <1>7 DEF Inv, Filed, PairOf
  <1>11. Apart'
    BY <1>1, <1>5, <1>6, <1>7, <1>8 DEF Inv, Apart
  <1>12. Private'
    <2> SUFFICES ASSUME ~raced, NEW o \in Threads, Carries(o)'
                 PROVE  /\ thread'[o].pair \in usable'
                        /\ \A q \in Providers : store[q] # thread'[o].pair
                        /\ \A k \in Threads \ {o} :
                             thread'[k].at = "refresh" \/ Carries(k)' => thread'[k].pair # thread'[o].pair
      BY <1>1 DEF Private
    <2>1. CASE o = r
      BY <1>2, <1>4, <1>5, <1>6, <1>7, <1>8, <2>1
    <2>2. CASE o # r
      <3>1. /\ \A q \in Providers : store[q] # thread[o].pair
            /\ \A k \in Threads \ {o} : thread[k].at = "refresh" \/ Carries(k) => thread[k].pair # thread[o].pair
        BY <1>7, <2>2 DEF Inv, Private
      <3> QED
        BY <1>2, <1>4, <1>5, <1>6, <1>7, <1>8, <2>2, <3>1
    <2> QED
      BY <2>1, <2>2
  <1>13. OneSaver'
    BY <1>1, <1>6, <1>7 DEF Inv, OneSaver
  <1>14. NextIsGood'
    <2> SUFFICES ASSUME NEW q \in Providers, q # p, ToRefresh(q) # NoPair, ~raced, q \notin excused,
                        ToRefresh(q) \notin usable'
                 PROVE  \E o \in Threads : thread'[o].provider = q /\ Carries(o)'
      BY <1>1, <1>5, <1>6, <1>7 DEF NextIsGood, ToRefresh
    <2>1. PairOf(ToRefresh(q), q)
      BY DEF ToRefresh, Inv, Filed
    <2>2. PICK o \in Threads : thread[o].provider = q /\ Carries(o)
      BY <1>4, <2>1 DEF Inv, NextIsGood
    <2> QED
      BY <1>6, <1>7, <2>2
  <1>15. AllKept'
    <2> SUFFICES ASSUME NEW q \in Providers, \E t \in DOMAIN issued' : issued'[t] = q, ~raced, q \notin excused
                 PROVE  Kept(q)'
      BY <1>1 DEF AllKept, Kept
    <2>1. CASE q = p
      BY <1>4, <1>5, <1>6, <1>7, <2>1 DEF Kept, PairOf
    <2>2. CASE q # p
      <3>1. Kept(q)
        BY <1>4, <2>2 DEF Inv, AllKept
      <3>2. PICK t \in usable :
              /\ PairOf(t, q)
              /\ t = login[q] \/ t = store[q] \/ \E o \in Threads : Carries(o) /\ t = thread[o].pair
        BY <3>1 DEF Kept
      <3>3. t \in usable' /\ PairOf(t, q)'
        BY <1>4, <2>2, <3>2
      <3>4. (\E o \in Threads : Carries(o) /\ t = thread[o].pair) => \E o \in Threads : Carries(o)' /\ t = thread'[o].pair
        BY <1>1, <1>6, <1>7 DEF Carries
      <3> QED
        BY <1>1, <3>2, <3>3, <3>4 DEF Kept
    <2> QED
      BY <2>1, <2>2
  <1> QED
    BY <1>9, <1>10, <1>11, <1>12, <1>13, <1>14, <1>15 DEF Inv

LEMMA AnswerLostKeeps == ASSUME Inv, NEW r \in Threads, AnswerLost(r) PROVE Inv'
  <1> DEFINE p == thread[r].provider
  <1>1. /\ thread[r].at = "refresh" /\ thread[r].pair \in usable
        /\ Issue(p, thread[r].pair) /\ NextEndpoint(r) /\ excused' = excused \cup {p}
        /\ UNCHANGED <<login, store, tmp, raced>>
    BY DEF AnswerLost
  <1>2. p \in Providers
    BY DEF Inv, TokensTypeOK, Thread
  <1>3. /\ issued' \in Seq(Providers) /\ Len(issued') <= MaxPairs
        /\ usable' \subseteq DOMAIN issued' /\ fresh' \subseteq DOMAIN issued'
    BY <1>1, <1>2, Issuing DEF Inv
  <1>4. /\ \A t, q : PairOf(t, q) => PairOf(t, q)'
        /\ \A t, q : PairOf(t, q) /\ q # p /\ t \in usable => t \in usable'
        /\ \A o \in Threads : o # r /\ ~raced /\ Carries(o) => thread[o].pair \in usable'
        /\ \A q : q # p /\ (\E t \in DOMAIN issued' : issued'[t] = q)
              => \E t \in DOMAIN issued : issued[t] = q
    BY <1>1, Spending
  <1>5. PICK next \in Thread :
           /\ Becomes(r, next)
           /\ \/ next = Idle
              \/ /\ next.at = "refresh" /\ next.provider = thread[r].provider
                 /\ next.pair = thread[r].pair /\ next.data = thread[r].data
    BY <1>1, NextEndpointTyped DEF Inv
  <1>6. /\ thread' \in [Threads -> Thread]
        /\ thread'[r] = next
        /\ \A o \in Threads : o # r => thread'[o] = thread[o]
    BY <1>5, Becoming DEF Inv
  <1>7. /\ ~Carries(r)' /\ ~Saving(r)' /\ ~Carries(r) /\ ~Saving(r)
        /\ thread'[r].at = "refresh" => thread'[r].pair = thread[r].pair /\ thread'[r].provider = p
        /\ \A q \in Providers : thread'[r].data[q] # NoPair => thread'[r].data[q] = thread[r].data[q]
        /\ \A o \in Threads : o # r => (Carries(o)' <=> Carries(o)) /\ (Saving(o)' <=> Saving(o))
    BY <1>1, <1>5, <1>6, IdleFacts DEF Carries, Saving
  <1>8. TokensTypeOK'
    BY <1>1, <1>2, <1>3, <1>6 DEF Inv, TokensTypeOK
  <1>9. Filed'
    BY <1>1, <1>4, <1>6, <1>7 DEF Inv, Filed
  <1>10. Apart'
    BY <1>1, <1>6, <1>7 DEF Inv, Apart
  <1>11. Private'
    <2> SUFFICES ASSUME ~raced, NEW o \in Threads, o # r, Carries(o)
                 PROVE  /\ thread[o].pair \in usable'
                        /\ \A q \in Providers : store[q] # thread[o].pair
                        /\ \A k \in Threads \ {o} :
                             thread'[k].at = "refresh" \/ Carries(k)' => thread'[k].pair # thread[o].pair
      BY <1>1, <1>6, <1>7 DEF Private
    <2>1. /\ \A q \in Providers : store[q] # thread[o].pair
          /\ \A k \in Threads \ {o} : thread[k].at = "refresh" \/ Carries(k) => thread[k].pair # thread[o].pair
      BY DEF Inv, Private
    <2> QED
      BY <1>1, <1>4, <1>6, <1>7, <2>1
  <1>12. OneSaver'
    BY <1>1, <1>6, <1>7 DEF Inv, OneSaver
  <1>13. NextIsGood'
    <2> SUFFICES ASSUME NEW q \in Providers, q # p, ToRefresh(q) # NoPair, ~raced, q \notin excused,
                        ToRefresh(q) \notin usable'
                 PROVE  \E o \in Threads : thread'[o].provider = q /\ Carries(o)'
      BY <1>1 DEF NextIsGood, ToRefresh
    <2>1. PairOf(ToRefresh(q), q)
      BY DEF ToRefresh, Inv, Filed
    <2>2. PICK o \in Threads : thread[o].provider = q /\ Carries(o)
      BY <1>4, <2>1 DEF Inv, NextIsGood
    <2> QED
      BY <1>6, <1>7, <2>2
  <1>14. AllKept'
    <2> SUFFICES ASSUME NEW q \in Providers, q # p, \E t \in DOMAIN issued' : issued'[t] = q,
                        ~raced, q \notin excused
                 PROVE  Kept(q)'
      BY <1>1 DEF AllKept, Kept
    <2>1. Kept(q)
      BY <1>4 DEF Inv, AllKept
    <2>2. PICK t \in usable :
            /\ PairOf(t, q)
            /\ t = login[q] \/ t = store[q] \/ \E o \in Threads : Carries(o) /\ t = thread[o].pair
      BY <2>1 DEF Kept
    <2>3. t \in usable' /\ PairOf(t, q)'
      BY <1>4, <2>2
    <2>4. (\E o \in Threads : Carries(o) /\ t = thread[o].pair) => \E o \in Threads : Carries(o)' /\ t = thread'[o].pair
      BY <1>6, <1>7
    <2> QED
      BY <1>1, <2>2, <2>3, <2>4 DEF Kept
  <1> QED
    BY <1>8, <1>9, <1>10, <1>11, <1>12, <1>13, <1>14 DEF Inv
-----------------------------------------------------------------------------
(* A pair is saved. *)

\* The thread goes on with the pair in hand.
LEMMA CarriesOn ==
  ASSUME Inv, NEW r \in Threads, Carries(r), NEW next \in Thread, Becomes(r, next),
         next.at \in {"load", "write", "replace"},
         next.provider = thread[r].provider, next.pair = thread[r].pair,
         UNCHANGED <<server, login, store, excused>>, raced => raced', raced' \in BOOLEAN,
         tmp' = tmp \/ tmp' = thread[r].data,
         \A q \in Providers :
           \/ next.data[q] = thread[r].data[q]
           \/ next.data[q] = store[q]
           \/ next.data[q] = thread[r].pair /\ q = thread[r].provider,
         OneSaver'
  PROVE  Inv'
  <1>1. /\ thread' \in [Threads -> Thread]
        /\ thread'[r] = next
        /\ \A o \in Threads : o # r => thread'[o] = thread[o]
    BY Becoming DEF Inv
  <1>2. \A o \in Threads :
          /\ Carries(o)' <=> Carries(o)
          /\ thread'[o].pair = thread[o].pair
          /\ thread'[o].provider = thread[o].provider
          /\ thread'[o].at = "refresh" <=> thread[o].at = "refresh"
    BY <1>1 DEF Carries
  <1>3. thread[r].data \in Pairs
    BY DEF Inv, TokensTypeOK, Thread
  <1>4. TokensTypeOK'
    BY <1>1, <1>3 DEF Inv, TokensTypeOK, server
  <1>5. Filed'
    <2>1. \A t, q : PairOf(t, q)' <=> PairOf(t, q)
      BY DEF PairOf, server
    <2>2. \A q \in Providers, o \in Threads : thread'[o].data[q] # NoPair => PairOf(thread'[o].data[q], q)
      BY <1>1 DEF Inv, Filed
    <2>3. \A q \in Providers : tmp' # <<>> /\ tmp'[q] # NoPair => PairOf(tmp'[q], q)
      BY DEF Inv, Filed
    <2> QED
      BY <1>2, <2>1, <2>2, <2>3 DEF Inv, Filed
  <1>6. Apart'
    BY <1>1, <1>2 DEF Inv, Apart
  <1>7. Private'
    BY <1>2 DEF Inv, Private, server
  <1>8. NextIsGood'
    BY <1>2 DEF Inv, NextIsGood, ToRefresh, server
  <1>9. AllKept'
    BY <1>2 DEF Inv, AllKept, Kept, PairOf, server
  <1> QED
    BY <1>4, <1>5, <1>6, <1>7, <1>8, <1>9 DEF Inv

LEMMA LoadKeeps == ASSUME Inv, NEW r \in Threads, Load(r) PROVE Inv'
  <1> DEFINE data == [store EXCEPT ![thread[r].provider] = thread[r].pair]
             next == [thread[r] EXCEPT !.at = "write", !.data = data]
  <1>1. /\ thread[r].at = "load" /\ Becomes(r, next)
        /\ raced' = (raced \/ \E o \in Threads \ {r} : Saving(o))
        /\ UNCHANGED <<server, login, store, tmp, excused>>
    BY DEF Load
  <1>2. thread[r] \in Thread /\ store \in Pairs
    BY DEF Inv, TokensTypeOK
  <1>3. /\ data \in Pairs
        /\ \A q \in Providers : data[q] = store[q] \/ (data[q] = thread[r].pair /\ q = thread[r].provider)
    BY <1>2 DEF Thread, Pairs
  <1> HIDE DEF data
  <1>4. /\ next \in Thread /\ next.at = "write" /\ next.pair = thread[r].pair
        /\ next.provider = thread[r].provider /\ next.data = data
    BY <1>2, <1>3 DEF Thread
  <1> HIDE DEF next
  <1>5. /\ thread'[r] = next
        /\ \A o \in Threads : o # r => thread'[o] = thread[o]
    BY <1>1, <1>4, Becoming DEF Inv
  <1>6. raced \in BOOLEAN /\ raced' \in BOOLEAN /\ (raced => raced')
    BY <1>1 DEF Inv, TokensTypeOK
  <1>7. OneSaver'
    <2> SUFFICES ASSUME ~raced', NEW o \in Threads, Saving(o)'
                 PROVE  /\ o = r
                        /\ thread'[r].data = [store EXCEPT ![thread[r].provider] = thread[r].pair]
      BY <1>1, <1>4, <1>5 DEF OneSaver
    <2>1. \A k \in Threads : k # r => ~Saving(k)
      BY <1>1
    <2>2. o = r
      BY <1>5, <2>1 DEF Saving
    <2> QED
      BY <1>4, <1>5, <2>2 DEF data
  <1>8. Carries(r)
    BY <1>1 DEF Carries
  <1> QED
    BY <1>1, <1>3, <1>4, <1>6, <1>7, <1>8, CarriesOn

LEMMA WriteKeeps == ASSUME Inv, NEW r \in Threads, Write(r) PROVE Inv'
  <1> DEFINE next == [thread[r] EXCEPT !.at = "replace"]
  <1>1. /\ thread[r].at = "write" /\ Becomes(r, next) /\ tmp' = thread[r].data
        /\ UNCHANGED <<server, login, store, excused, raced>>
    BY DEF Write
  <1>2. thread[r] \in Thread /\ raced \in BOOLEAN
    BY DEF Inv, TokensTypeOK
  <1>3. /\ next \in Thread /\ next.at = "replace" /\ next.pair = thread[r].pair
        /\ next.provider = thread[r].provider /\ next.data = thread[r].data
    BY <1>2 DEF Thread
  <1> HIDE DEF next
  <1>4. /\ thread'[r] = next
        /\ \A o \in Threads : o # r => thread'[o] = thread[o]
    BY <1>1, <1>3, Becoming DEF Inv
  <1>5. OneSaver'
    <2> SUFFICES ASSUME ~raced, NEW o \in Threads, Saving(o)'
                 PROVE  /\ o = r
                        /\ thread[r].data = [store EXCEPT ![thread[r].provider] = thread[r].pair]
      BY <1>1, <1>3, <1>4 DEF OneSaver
    <2>1. Saving(r)
      BY <1>1 DEF Saving
    <2>2. Saving(o)
      BY <1>4, <2>1 DEF Saving
    <2> QED
      BY <2>1, <2>2 DEF Inv, OneSaver
  <1>6. Carries(r)
    BY <1>1 DEF Carries
  <1> QED
    BY <1>1, <1>2, <1>3, <1>5, <1>6, CarriesOn

\* With one thread saving, the temporary file is there and the pair takes its place.
LEMMA ReplaceKeeps == ASSUME Inv, NEW r \in Threads, Replace(r) PROVE Inv'
  <1> DEFINE p == thread[r].provider
             pair == thread[r].pair
  <1>1. thread[r].at = "replace" /\ Carries(r) /\ Saving(r) /\ UNCHANGED <<server, login, excused, raced>>
    BY DEF Replace, Carries, Saving
  <1>2. /\ thread[r] \in Thread /\ p \in Providers /\ thread[r].data \in Pairs
        /\ excused \subseteq Providers /\ store \in Pairs /\ tmp \in Pairs \cup {<<>>}
    BY DEF Inv, TokensTypeOK, Thread
  <1>3. ASSUME tmp = <<>> PROVE Inv'
    <2>1. DOMAIN thread[r].data = Providers
      BY <1>2 DEF Pairs
    <2>2. thread[r].data # <<>>
      BY <1>2, <2>1
    <2>3. raced
      BY <1>1, <1>3, <2>2 DEF Inv, OneSaver
    <2>4. Becomes(r, Idle) /\ UNCHANGED <<store, tmp>>
      BY <1>3 DEF Replace, Over
    <2> QED
      BY <1>1, <1>2, <2>3, <2>4, IdleTyped, IdleFacts, StepsAside
  <1>4. ASSUME tmp # <<>> PROVE Inv'
    <2> DEFINE next == [Idle EXCEPT !.at = "use", !.provider = p]
    <2>1. store' = tmp /\ tmp' = <<>> /\ Becomes(r, next)
      BY <1>4 DEF Replace
    <2>2. next \in Thread /\ next.at = "use" /\ next.data = NoFile
      BY <1>2, IdleTyped DEF Idle, Thread
    <2> HIDE DEF next
    <2>3. /\ thread' \in [Threads -> Thread]
          /\ thread'[r] = next
          /\ \A o \in Threads : o # r => thread'[o] = thread[o]
      BY <2>1, <2>2, Becoming DEF Inv
    <2>4. /\ ~Carries(r)' /\ ~Saving(r)' /\ thread'[r].at # "refresh"
          /\ \A q \in Providers : thread'[r].data[q] = NoPair
          /\ \A o \in Threads : o # r => (Carries(o)' <=> Carries(o)) /\ (Saving(o)' <=> Saving(o))
      BY <2>2, <2>3 DEF Carries, Saving, NoFile
    <2>5. TokensTypeOK'
      BY <1>1, <1>2, <1>4, <2>1, <2>3 DEF Inv, TokensTypeOK, server
    <2>6. \A t, q : PairOf(t, q)' <=> PairOf(t, q)
      BY <1>1 DEF PairOf, server
    <2>7. Filed'
      BY <1>1, <1>4, <2>1, <2>3, <2>4, <2>6 DEF Inv, Filed
    <2>8. Apart'
      BY <1>1, <1>4, <2>1, <2>3, <2>4 DEF Inv, Apart
    <2>9. ~raced => /\ store' = [store EXCEPT ![p] = pair]
                    /\ pair \in usable
                    /\ \A o \in Threads : o # r => ~Saving(o)
                    /\ \A o \in Threads : o # r /\ Carries(o) => thread[o].pair # pair
      BY <1>1, <2>1 DEF Inv, OneSaver, Private
    <2>10. /\ pair # NoPair /\ PairOf(pair, p)
           /\ ~raced => /\ store'[p] = pair
                        /\ \A q \in Providers : q # p => store'[q] = store[q]
      <3>1. PairOf(pair, p)
        BY <1>1 DEF Inv, Filed
      <3>2. 0 \notin DOMAIN issued
        BY DEF Inv, TokensTypeOK
      <3> QED
        BY <1>2, <2>9, <3>1, <3>2 DEF PairOf, NoPair, Pairs
    <2>11. Private'
      <3> SUFFICES ASSUME ~raced, NEW o \in Threads, o # r, Carries(o)
                   PROVE  /\ thread[o].pair \in usable
                          /\ \A q \in Providers : store'[q] # thread[o].pair
                          /\ \A k \in Threads \ {o} :
                               thread'[k].at = "refresh" \/ Carries(k)' => thread'[k].pair # thread[o].pair
        BY <1>1, <2>3, <2>4 DEF Private, server
      <3>1. /\ thread[o].pair \in usable
            /\ \A q \in Providers : store[q] # thread[o].pair
            /\ \A k \in Threads \ {o} : thread[k].at = "refresh" \/ Carries(k) => thread[k].pair # thread[o].pair
        BY DEF Inv, Private
      <3> QED
        BY <2>3, <2>4, <2>9, <2>10, <3>1
    <2>12. OneSaver'
      BY <1>1, <2>3, <2>4, <2>9 DEF OneSaver
    <2>13. NextIsGood'
      <3> SUFFICES ASSUME NEW q \in Providers, ToRefresh(q)' # NoPair, ~raced, q \notin excused,
                          ToRefresh(q)' \notin usable
                   PROVE  \E o \in Threads : thread'[o].provider = q /\ Carries(o)'
        BY <1>1 DEF NextIsGood, server
      <3>1. q # p
        BY <2>9, <2>10 DEF ToRefresh
      <3>2. ToRefresh(q)' = ToRefresh(q)
        BY <1>1, <2>10, <3>1 DEF ToRefresh
      <3>3. PICK o \in Threads : thread[o].provider = q /\ Carries(o)
        BY <3>2 DEF Inv, NextIsGood
      <3> QED
        BY <2>3, <2>4, <3>1, <3>3
    <2>14. AllKept'
      <3> SUFFICES ASSUME NEW q \in Providers, Kept(q), ~raced, q \notin excused
                   PROVE  Kept(q)'
        BY <1>1 DEF Inv, AllKept, Kept, server
      <3>1. CASE q = p
        BY <1>1, <2>6, <2>9, <2>10, <3>1 DEF Kept, server
      <3>2. CASE q # p
        <4>1. PICK t \in usable :
                /\ PairOf(t, q)
                /\ t = login[q] \/ t = store[q] \/ \E o \in Threads : Carries(o) /\ t = thread[o].pair
          BY DEF Kept
        <4>2. t \in usable' /\ PairOf(t, q)'
          BY <1>1, <2>6, <4>1 DEF server
        <4>3. t # pair
          BY <2>10, <3>2, <4>1 DEF PairOf
        <4>4. (\E o \in Threads : Carries(o) /\ t = thread[o].pair) => \E o \in Threads : Carries(o)' /\ t = thread'[o].pair
          BY <2>3, <2>4, <4>3
        <4> QED
          BY <1>1, <2>10, <3>2, <4>1, <4>2, <4>4 DEF Kept
      <3> QED
        BY <3>1, <3>2
    <2> QED
      BY <2>5, <2>7, <2>8, <2>11, <2>12, <2>13, <2>14 DEF Inv
  <1> QED
    BY <1>3, <1>4

-----------------------------------------------------------------------------
(* What follows. *)

LEMMA StutterKeeps == ASSUME Inv, UNCHANGED vars PROVE Inv'
  <1>1. TokensTypeOK' /\ Filed' /\ Apart'
    BY DEF Inv, vars, server, TokensTypeOK, Filed, Apart, PairOf, Carries
  <1>2. Private' /\ OneSaver' /\ NextIsGood' /\ AllKept'
    BY DEF Inv, vars, server, Private, OneSaver, NextIsGood, AllKept, Kept, PairOf, Carries, Saving, ToRefresh
  <1> QED
    BY <1>1, <1>2 DEF Inv

LEMMA InvKept == Inv /\ [Next]_vars => Inv'
  <1> SUFFICES ASSUME Inv, [Next]_vars PROVE Inv'
    OBVIOUS
  <1>1. ASSUME NEW p \in Providers, Login(p) \/ ToolRefreshes(p) PROVE Inv'
    BY <1>1, LoginKeeps, ToolRefreshesKeeps
  <1>2. ASSUME NEW t \in Pair, Expire(t) PROVE Inv'
    BY <1>2, ExpireKeeps
  <1>3. ASSUME NEW r \in Threads, Look(r) \/ Granted(r) \/ Refused(r) \/ AnswerLost(r) PROVE Inv'
    BY <1>3, LookKeeps, GrantedKeeps, RefusedKeeps, AnswerLostKeeps
  <1>4. ASSUME NEW r \in Threads, Load(r) \/ Write(r) \/ Replace(r) \/ Use(r) \/ Die(r) PROVE Inv'
    BY <1>4, LoadKeeps, WriteKeeps, ReplaceKeeps, UseKeeps, DieKeeps
  <1>5. CASE UNCHANGED vars
    BY <1>5, StutterKeeps
  <1> QED
    BY <1>1, <1>2, <1>3, <1>4, <1>5 DEF Next

\* The files, the threads and the server are what the code takes them for, whatever the
\* number of threads and of refreshes.
THEOREM TypeCorrect == Spec => []TokensTypeOK
  <1>1. Inv => TokensTypeOK
    BY DEF Inv
  <1> QED
    BY <1>1, Initially, InvKept, PTL DEF Spec

\* Whoever has logged in need not do so again, unless a pair was lost on its way or two
\* threads saved at once: TokenStore.set keeps what the refreshing bought.
THEOREM LoginsKept == Spec => []LoginIsKept
  <1>1. Inv => LoginIsKept
    <2> SUFFICES ASSUME Inv, NEW p \in Providers, p \in Range(issued), ~raced, p \notin excused
                 PROVE  \E t \in usable : issued[t] = p /\ t \in {login[p], store[p]} \cup UNION {InHand(r) : r \in Threads}
      BY DEF LoginIsKept
    <2>1. Kept(p)
      BY DEF Inv, AllKept, Range
    <2>2. \A r \in Threads : Carries(r) => thread[r].pair \in InHand(r)
      BY DEF Carries, InHand, Saving
    <2> QED
      BY <2>1, <2>2 DEF Kept, PairOf
  <1> QED
    BY <1>1, Initially, InvKept, PTL DEF Spec

\* No thread sets out with a spent token, unless what it bought is on its way to the file or
\* for the same reasons: _access_token asks for the pair that is kept, not for the tool's.
THEOREM SpentTokensNotTried == Spec => NoSpentTokens
  <1>1. Inv /\ [Next]_vars => [\A r \in Threads : thread[r].at = "idle" /\ thread'[r].at = "refresh" =>
                                LET p == thread'[r].provider
                                IN  \/ raced \/ p \in excused
                                    \/ thread'[r].pair \in usable
                                    \/ \E o \in Threads : thread[o].provider = p /\ InHand(o) # {}]_vars
    <2> SUFFICES ASSUME Inv, Next, NEW r \in Threads, thread[r].at = "idle", thread'[r].at = "refresh"
                 PROVE  LET p == thread'[r].provider
                        IN  \/ raced \/ p \in excused
                            \/ thread'[r].pair \in usable
                            \/ \E o \in Threads : thread[o].provider = p /\ InHand(o) # {}
      OBVIOUS
    <2>1. thread \in [Threads -> Thread]
      BY DEF Inv, TokensTypeOK
    <2>2. Look(r)
      <3>2. thread' # thread
        OBVIOUS
      <3>3. ASSUME NEW o \in Threads, o # r, NEW next PROVE ~Becomes(o, next)
        BY <2>1, <3>3 DEF Becomes
      <3>4. ASSUME NEW o \in Threads, o # r, Granted(o) \/ Refused(o) \/ AnswerLost(o) \/ Load(o) PROVE FALSE
        BY <3>3, <3>4 DEF Granted, Refused, AnswerLost, NextEndpoint, Over, Load
      <3>5. ASSUME NEW o \in Threads, o # r, Look(o) \/ Write(o) \/ Replace(o) \/ Use(o) \/ Die(o) PROVE FALSE
        BY <3>3, <3>5 DEF Look, Write, Replace, Use, Die, Over
      <3> QED
        BY <3>2, <3>4, <3>5 DEF Next, Login, ToolRefreshes, Expire, Granted, Refused, AnswerLost, Load, Write, Replace, Use, Die
    <2>3. PICK p \in Providers :
            /\ ToRefresh(p) # NoPair
            /\ Becomes(r, IF HasAccess(p)
                          THEN [Idle EXCEPT !.at = "use", !.provider = p]
                          ELSE [Idle EXCEPT !.at = "refresh", !.provider = p, !.pair = ToRefresh(p)])
      BY <2>2 DEF Look
    <2>4. thread'[r].provider = p /\ thread'[r].pair = ToRefresh(p)
      BY <2>1, <2>3 DEF Becomes, Idle
    <2>5. \A o \in Threads : Carries(o) => InHand(o) # {}
      BY DEF Carries, InHand, Saving
    <2> QED
      BY <2>3, <2>4, <2>5 DEF Inv, NextIsGood
  <1> QED
    BY <1>1, Initially, InvKept, PTL DEF Spec, NoSpentTokens
=============================================================================
