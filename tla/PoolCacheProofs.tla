-------------------------- MODULE PoolCacheProofs --------------------------
(***************************************************************************)
(* PoolCache, for every set of calls, every length of the times and any    *)
(* number of chunks: no reader is behind the setPools that returned before *)
(* it began, and what the miner said is not handed out for longer than the *)
(* bound.                                                                  *)
(*                                                                         *)
(* The first rests on one fact about the entry: as long as it is there, it *)
(* was merged from the pools that are configured now.  The second rests on *)
(* the sockets' timer, which bounds the time to the next chunk: with each  *)
(* chunk an answer can have become older by Timeout, and by no more.       *)
(***************************************************************************)
EXTENDS PoolCache, TLAPS

\* An entry was merged from the current pools and was stored in time.
Stored ==
  cache.lastFetch # 0 =>
    /\ cache.data.cfg = configured
    /\ cache.lastFetch <= now
    /\ cache.lastFetch <= Complete(cache.data)

\* A reader that waits is not overdue, and each chunk of its answer came at
\* most Timeout after the one before, the first after the miner looked.
Timed(r) ==
  /\ wire[r] # "none" => pc[r] \in Waits
  /\ pc[r] \in Waits => /\ heard[r] <= now
                        /\ now <= heard[r] + Timeout
  /\ wire[r] \in {"connecting", "request"} => chunks[r] = 0
  /\ wire[r] = "data" => heard[r] <= looked[r] + chunks[r] * Timeout

\* What a reader found when it began lies in the past; what it was given is
\* not behind that.
Served(r) ==
  /\ pc[r] # "write"
  /\ since[r].cfg <= configured
  /\ pc[r] \in Waits => since[r].at <= now
  /\ wire[r] = "data" => since[r].at <= looked[r]
  /\ Answered(r) => /\ since[r].cfg <= result[r].cfg
                    /\ since[r].at <= Complete(result[r]) + CacheTime

IndInv ==
  /\ TypeOK
  /\ Stored
  /\ \A r \in Readers : Timed(r) /\ Served(r)

----------------------------------------------------------------------------
(* The arithmetic of the bound.                                            *)

\* One chunk more is one Timeout more.
LEMMA OneMore ==
  ASSUME NEW k \in Nat, NEW t \in Nat
  PROVE  k * t \in Nat /\ (k + 1) * t = k * t + t
  OBVIOUS

LEMMA CompleteType ==
  ASSUME NEW view \in Views
  PROVE  Complete(view) \in Nat /\ view.at <= Complete(view)
<1>1. view.chunks \in Nat /\ view.at \in Nat /\ Timeout \in Nat
  BY TimesAreNat DEF Views
<1>2. view.chunks * Timeout \in Nat
  BY <1>1, OneMore
<1> QED BY <1>1, <1>2 DEF Complete

----------------------------------------------------------------------------
LEMMA InitInv == Init => IndInv
<1> SUFFICES ASSUME Init PROVE IndInv
  OBVIOUS
<1>1. TypeOK
  BY DEF Init, TypeOK, Views, NoView, Missing, Waits
<1>2. Stored
  BY DEF Init, Stored, Missing
<1>3. ASSUME NEW r \in Readers PROVE Timed(r) /\ Served(r)
  BY DEF Init, Timed, Served, Calls, Waits, Answered
<1> QED BY <1>1, <1>2, <1>3 DEF IndInv

\* A reader that a step leaves alone stays as it is while the clock stands and
\* the configured pools only move on.
LEMMA OthersKeep ==
  ASSUME IndInv, NEW s \in Readers, now' = now,
         configured' \in Nat, configured <= configured',
         pc'[s] = pc[s], wire'[s] = wire[s], heard'[s] = heard[s],
         looked'[s] = looked[s], chunks'[s] = chunks[s],
         result'[s] = result[s], since'[s] = since[s]
  PROVE  (Timed(s) /\ Served(s))'
<1>1. Timed(s) /\ Served(s)
  BY DEF IndInv
<1>2. Timed(s)'
  BY <1>1 DEF Timed
<1>3. since[s].cfg \in Nat /\ configured \in Nat
  BY DEF IndInv, TypeOK
<1>4. Complete(result[s])' = Complete(result[s])
  BY DEF Complete
<1>5. Served(s)'
  BY <1>1, <1>3, <1>4 DEF Served, Answered
<1> QED BY <1>2, <1>5

\* A reader sends a request: its wait begins now.
LEMMA SendInv ==
  ASSUME IndInv, NEW r \in Readers, NEW phase \in Waits, Send(r, phase),
         UNCHANGED <<now, cache, configured, result>>,
         \/ UNCHANGED since /\ pc[r] \in Waits
         \/ since' = [since EXCEPT ![r] = [cfg |-> configured, at |-> now]]
  PROVE  IndInv'
<1> USE TimesAreNat
<1>1. TypeOK'
  <2>1. r \in Calls /\ now \in Nat /\ configured \in Nat
    BY DEF IndInv, TypeOK, Calls
  <2>2. /\ pc' \in [Calls -> {"idle", "write", "done"} \union Waits]
        /\ wire' \in [Readers -> {"none", "connecting", "request", "data", "fail"}]
        /\ heard' \in [Readers -> Nat]
        /\ looked' \in [Readers -> Nat]
        /\ chunks' \in [Readers -> Nat]
    BY <2>1 DEF IndInv, TypeOK, Send
  <2>3. since' \in [Readers -> [cfg : Nat, at : Nat]]
    BY <2>1 DEF IndInv, TypeOK
  <2> QED BY <2>2, <2>3 DEF IndInv, TypeOK
<1>2. Stored'
  BY DEF IndInv, Stored, Complete
<1>3. /\ pc'[r] = phase /\ wire'[r] = "connecting" /\ heard'[r] = now /\ chunks'[r] = 0
      /\ now' = now /\ now \in Nat
  BY DEF IndInv, TypeOK, Send, Calls
<1>4. Timed(r)'
  BY <1>3 DEF Timed
<1>5. since'[r].cfg <= configured /\ since'[r].at <= now
  BY DEF IndInv, TypeOK, Served
<1>6. Served(r)'
  BY <1>3, <1>5 DEF Served, Answered, Waits
<1>7. ASSUME NEW s \in Readers, s # r PROVE (Timed(s) /\ Served(s))'
  BY <1>7, OthersKeep DEF Send, IndInv, TypeOK, Calls
<1> QED BY <1>1, <1>2, <1>4, <1>6, <1>7 DEF IndInv

\* A reader returns, with a view that is not behind it or with none.
LEMMA ReturnInv ==
  ASSUME IndInv, NEW r \in Readers, NEW view \in Views, Return(r, view),
         TypeOK', Stored', UNCHANGED <<now, configured>>,
         since'[r].cfg <= configured,
         view # NoView => /\ since'[r].cfg <= view.cfg
                          /\ since'[r].at <= Complete(view) + CacheTime,
         \A s \in Readers \ {r} : since'[s] = since[s]
  PROVE  IndInv'
<1>1. pc'[r] = "done" /\ wire'[r] = "none" /\ result'[r] = view
  BY DEF IndInv, TypeOK, Return, Calls
<1>2. Timed(r)'
  BY <1>1 DEF Timed, Waits
<1>3. Complete(result[r])' = Complete(view)
  BY <1>1 DEF Complete
<1>4. Served(r)'
  BY <1>1, <1>3 DEF Served, Answered, Waits
<1>5. ASSUME NEW s \in Readers, s # r PROVE (Timed(s) /\ Served(s))'
  BY <1>5, OthersKeep DEF Return, IndInv, TypeOK, Calls
<1> QED BY <1>2, <1>4, <1>5 DEF IndInv

LEMMA FetchInv ==
  ASSUME IndInv, NEW r \in Readers, Fetch(r)
  PROVE  IndInv'
<1> USE TimesAreNat
<1>1. /\ since' = [since EXCEPT ![r] = [cfg |-> configured, at |-> now]]
      /\ UNCHANGED <<now, cache, configured>>
  BY DEF Fetch
<1>2. CASE Fresh
  <2>1. Return(r, cache.data) /\ cache.data \in Views
    BY <1>2 DEF Fetch, IndInv, TypeOK
  <2>2. TypeOK'
    BY <1>1, <2>1 DEF IndInv, TypeOK, Return
  <2>3. Stored'
    BY <1>1 DEF IndInv, Stored, Complete
  <2>4. /\ since'[r].cfg = configured /\ since'[r].at = now
        /\ \A s \in Readers \ {r} : since'[s] = since[s]
    BY <1>1 DEF IndInv, TypeOK
  <2>5. now <= Complete(cache.data) + CacheTime
    <3>1. now <= cache.lastFetch + CacheTime /\ cache.lastFetch <= Complete(cache.data)
      BY <1>2 DEF Fresh, IndInv, TypeOK, Stored
    <3>2. Complete(cache.data) \in Nat
      BY <2>1, CompleteType
    <3> QED BY <3>1, <3>2 DEF IndInv, TypeOK
  <2>6. configured <= configured /\ configured <= cache.data.cfg
    BY <1>2 DEF Fresh, IndInv, TypeOK, Stored
  <2> QED BY <1>1, <2>1, <2>2, <2>3, <2>4, <2>5, <2>6, ReturnInv
<1>3. CASE ~Fresh
  BY <1>1, <1>3, SendInv DEF Fetch, Waits
<1> QED BY <1>2, <1>3

\* The last chunk: the answer is one Timeout older at most than when the timer
\* was last armed.
LEMMA ReceivedInv ==
  ASSUME IndInv, NEW r \in Readers, Received(r)
  PROVE  IndInv'
<1> USE TimesAreNat
<1> DEFINE view == [cfg |-> configured, at |-> looked[r], chunks |-> chunks[r] + 1]
<1>1. /\ pc[r] \in Waits /\ wire[r] = "data"
      /\ cache' = [data |-> view, lastFetch |-> now]
      /\ Return(r, view)
      /\ UNCHANGED <<now, configured, since>>
  BY DEF Received, Waits
<1>2. view \in Views
  BY DEF IndInv, TypeOK, Views
<1>3. view.cfg = configured /\ view.at = looked[r] /\ view.chunks = chunks[r] + 1
  OBVIOUS
<1> HIDE DEF view
<1>4. now <= Complete(view)
  <2>1. now <= heard[r] + Timeout /\ heard[r] <= looked[r] + chunks[r] * Timeout
    BY <1>1 DEF IndInv, Timed
  <2>2. Complete(view) = looked[r] + (chunks[r] + 1) * Timeout
    BY <1>3 DEF Complete
  <2>3. chunks[r] \in Nat /\ looked[r] \in Nat /\ heard[r] \in Nat /\ now \in Nat /\ Timeout \in Nat
    BY DEF IndInv, TypeOK
  <2>4. chunks[r] * Timeout \in Nat /\ (chunks[r] + 1) * Timeout = chunks[r] * Timeout + Timeout
    BY <2>3, OneMore
  <2> QED BY <2>1, <2>2, <2>3, <2>4
<1>5. TypeOK'
  BY <1>1, <1>2 DEF IndInv, TypeOK, Return
<1>6. Stored'
  <2>1. cache'.data = view /\ cache'.lastFetch = now /\ now' = now /\ configured' = configured
    BY <1>1
  <2>2. Complete(cache.data)' = Complete(view)
    BY <2>1 DEF Complete
  <2> QED BY <1>3, <1>4, <2>1, <2>2 DEF Stored, IndInv, TypeOK
<1>7. since[r].cfg <= configured /\ since[r].at <= Complete(view) + CacheTime
  <2>1. since[r].cfg <= configured /\ since[r].at <= view.at
    BY <1>1, <1>3 DEF IndInv, Served
  <2>2. Complete(view) \in Nat /\ view.at <= Complete(view) /\ view.at \in Nat /\ since[r].at \in Nat
    BY <1>2, CompleteType DEF Views, IndInv, TypeOK
  <2> QED BY <2>1, <2>2
<1> QED BY <1>1, <1>2, <1>3, <1>5, <1>6, <1>7, ReturnInv

LEMMA ReadFailsInv ==
  ASSUME IndInv, NEW r \in Readers, ReadFails(r)
  PROVE  IndInv'
<1>1. Return(r, NoView) /\ UNCHANGED <<now, cache, configured, since>>
  BY DEF ReadFails
<1>2. NoView \in Views
  BY DEF NoView, Views
<1>3. TypeOK'
  BY <1>1, <1>2 DEF IndInv, TypeOK, Return
<1>4. Stored'
  BY <1>1 DEF IndInv, Stored, Complete
<1>5. since[r].cfg <= configured
  BY DEF IndInv, Served
<1> QED BY <1>1, <1>2, <1>3, <1>4, <1>5, ReturnInv

LEMMA FallBackInv ==
  ASSUME IndInv, NEW r \in Readers, FallBack(r)
  PROVE  IndInv'
  BY SendInv DEF FallBack, Waits

\* What arrives on the socket of a reader arms its timer anew, before the time
\* is up; the miner looks while the reader waits.
LEMMA SocketInv ==
  ASSUME IndInv, NEW r \in Readers,
         Connected(r) \/ Chunk(r) \/ Answer(r) \/ NoPoolsView(r)
  PROVE  IndInv'
<1> USE TimesAreNat
<1>1. /\ UNCHANGED <<now, cache, configured, pc, result, since>>
      /\ \A s \in Readers \ {r} :
           /\ wire'[s] = wire[s] /\ heard'[s] = heard[s]
           /\ looked'[s] = looked[s] /\ chunks'[s] = chunks[s]
  <2>1. CASE Connected(r)
    BY <2>1 DEF Connected, IndInv, TypeOK
  <2>2. CASE Chunk(r)
    BY <2>2 DEF Chunk, IndInv, TypeOK
  <2>3. CASE Answer(r)
    BY <2>3 DEF Answer, IndInv, TypeOK
  <2>4. CASE NoPoolsView(r)
    BY <2>4 DEF NoPoolsView, IndInv, TypeOK
  <2> QED BY <2>1, <2>2, <2>3, <2>4
<1>2. TypeOK'
  <2>1. wire' \in [Readers -> {"none", "connecting", "request", "data", "fail"}]
    BY DEF Connected, Chunk, Answer, NoPoolsView, IndInv, TypeOK
  <2>2. heard' \in [Readers -> Nat] /\ looked' \in [Readers -> Nat]
    BY DEF Connected, Chunk, Answer, NoPoolsView, IndInv, TypeOK
  <2>3. chunks' \in [Readers -> Nat]
    BY DEF Connected, Chunk, Answer, NoPoolsView, IndInv, TypeOK
  <2> QED BY <1>1, <2>1, <2>2, <2>3 DEF IndInv, TypeOK
<1>3. Stored'
  BY <1>1 DEF IndInv, Stored, Complete
<1>4. ASSUME NEW s \in Readers, s # r PROVE (Timed(s) /\ Served(s))'
  <2>1. configured \in Nat /\ configured <= configured'
    BY <1>1 DEF IndInv, TypeOK
  <2> QED BY <1>1, <1>4, <2>1, OthersKeep
<1>5. /\ now \in Nat /\ heard[r] \in Nat /\ looked[r] \in Nat /\ chunks[r] \in Nat
      /\ Timeout \in Nat /\ since[r].at \in Nat
  BY DEF IndInv, TypeOK
<1>6. Timed(r) /\ Served(r)
  BY DEF IndInv
<1>7. pc[r] \in Waits /\ heard[r] <= now /\ now <= heard[r] + Timeout /\ since[r].at <= now
  BY <1>6 DEF Timed, Served, Connected, Chunk, Answer, NoPoolsView
<1>8. Served(r)'
  <2>1. wire'[r] = "data" => since[r].at <= looked'[r]
    BY <1>6, <1>7 DEF Served, Connected, Chunk, Answer, NoPoolsView, IndInv, TypeOK
  <2>2. Complete(result[r])' = Complete(result[r])
    BY <1>1 DEF Complete
  <2> QED BY <1>1, <1>6, <2>1, <2>2 DEF Served, Answered
<1>9. Timed(r)'
  <2>1. CASE Connected(r)
    <3>1. wire'[r] = "request" /\ heard'[r] = now /\ chunks'[r] = chunks[r] /\ chunks[r] = 0
      BY <1>6, <2>1 DEF Connected, Timed, IndInv, TypeOK
    <3> QED BY <1>1, <1>5, <1>7, <3>1 DEF Timed
  <2>2. CASE Chunk(r)
    <3>1. /\ wire'[r] = wire[r] /\ wire[r] \in {"data", "fail"} /\ heard'[r] = now
          /\ chunks'[r] = chunks[r] + 1 /\ looked'[r] = looked[r]
      BY <2>2 DEF Chunk, IndInv, TypeOK
    <3>2. /\ chunks[r] * Timeout \in Nat
          /\ (chunks[r] + 1) * Timeout = chunks[r] * Timeout + Timeout
      BY <1>5, OneMore
    <3>3. wire[r] = "data" => now <= looked[r] + (chunks[r] + 1) * Timeout
      <4>1. wire[r] = "data" => heard[r] <= looked[r] + chunks[r] * Timeout
        BY <1>6 DEF Timed
      <4> QED BY <1>5, <1>7, <3>2, <4>1
    <3>4. wire'[r] = "data" => heard'[r] <= looked'[r] + chunks'[r] * Timeout
      BY <3>1, <3>3
    <3> QED BY <1>1, <1>5, <1>7, <3>1, <3>4 DEF Timed
  <2>3. CASE Answer(r)
    <3>1. /\ wire'[r] = "data" /\ heard'[r] = heard[r] /\ chunks'[r] = 0 /\ looked'[r] = now
      BY <1>6, <2>3 DEF Answer, Timed, IndInv, TypeOK
    <3>2. heard'[r] <= looked'[r] + chunks'[r] * Timeout
      <4>1. 0 * Timeout = 0
        BY <1>5
      <4> QED BY <1>5, <1>7, <3>1, <4>1
    <3> QED BY <1>1, <1>5, <1>7, <3>1, <3>2 DEF Timed
  <2>4. CASE NoPoolsView(r)
    <3>1. wire'[r] = "fail" /\ heard'[r] = heard[r]
      BY <2>4 DEF NoPoolsView, IndInv, TypeOK
    <3> QED BY <1>1, <1>7, <3>1 DEF Timed
  <2> QED BY <2>1, <2>2, <2>3, <2>4
<1> QED BY <1>2, <1>3, <1>4, <1>8, <1>9 DEF IndInv

\* A step of a setPools touches no reader; the entry stays only with the pools
\* it was merged from.
LEMMA SetPoolsInv ==
  ASSUME IndInv, NEW w \in Writers, SetPools(w) \/ Written(w) \/ WriteFails(w)
  PROVE  IndInv'
<1>1. w \in Calls /\ w \notin Readers
  BY CallsAreDisjoint DEF Calls
<1>2. /\ UNCHANGED <<now, wire, heard, looked, chunks, result, since>>
      /\ \A s \in Readers : pc'[s] = pc[s]
      /\ configured' \in Nat /\ configured <= configured'
  BY <1>1 DEF SetPools, Written, WriteFails, IndInv, TypeOK, Calls
<1>3. TypeOK'
  <2>1. pc' \in [Calls -> {"idle", "write", "done"} \union Waits]
    BY <1>1 DEF SetPools, Written, WriteFails, IndInv, TypeOK
  <2>2. Missing \in [data : Views, lastFetch : Nat]
    BY DEF Missing, NoView, Views
  <2>3. cache' \in [data : Views, lastFetch : Nat]
    BY <2>2 DEF SetPools, Written, WriteFails, IndInv, TypeOK
  <2> QED BY <1>2, <2>1, <2>3 DEF IndInv, TypeOK
<1>4. Stored'
  BY DEF SetPools, Written, WriteFails, IndInv, Stored, Missing, Complete
<1>5. ASSUME NEW s \in Readers PROVE (Timed(s) /\ Served(s))'
  BY <1>2, OthersKeep
<1> QED BY <1>3, <1>4, <1>5 DEF IndInv

LEMMA TickInv ==
  ASSUME IndInv, Tick
  PROVE  IndInv'
<1> USE TimesAreNat
<1>1. /\ now \in Nat /\ now' = now + 1
      /\ UNCHANGED <<cache, configured, pc, wire, heard, looked, chunks, result, since>>
  BY DEF Tick, IndInv, TypeOK
<1>2. TypeOK'
  BY <1>1 DEF IndInv, TypeOK
<1>3. Stored'
  BY <1>1 DEF IndInv, TypeOK, Stored, Complete
<1>4. ASSUME NEW r \in Readers PROVE (Timed(r) /\ Served(r))'
  <2>1. Timed(r) /\ Served(r) /\ ~Overdue(r) /\ heard[r] \in Nat /\ since[r].at \in Nat
    BY DEF IndInv, TypeOK, Tick
  <2>2. pc[r] \in Waits => heard[r] <= now' /\ now' <= heard[r] + Timeout
    BY <1>1, <2>1 DEF Timed, Overdue
  <2>3. Timed(r)'
    BY <1>1, <2>1, <2>2 DEF Timed
  <2>4. pc[r] \in Waits => since[r].at <= now'
    BY <1>1, <2>1 DEF Served
  <2>5. Complete(result[r])' = Complete(result[r])
    BY <1>1 DEF Complete
  <2>6. Served(r)'
    BY <1>1, <2>1, <2>4, <2>5 DEF Served, Answered
  <2> QED BY <2>3, <2>6
<1> QED BY <1>2, <1>3, <1>4 DEF IndInv

LEMMA StutterInv ==
  ASSUME IndInv, UNCHANGED vars
  PROVE  IndInv'
  BY DEF vars, IndInv, TypeOK, Stored, Timed, Served, Answered, Complete

LEMMA NextInv == IndInv /\ [Next]_vars => IndInv'
<1> SUFFICES ASSUME IndInv, [Next]_vars PROVE IndInv'
  OBVIOUS
<1>1. CASE \E r \in Readers : Fetch(r)
  BY <1>1, FetchInv
<1>2. CASE \E r \in Readers : Received(r)
  BY <1>2, ReceivedInv
<1>3. CASE \E r \in Readers : FallBack(r)
  BY <1>3, FallBackInv
<1>4. CASE \E r \in Readers : ReadFails(r)
  BY <1>4, ReadFailsInv
<1>5. CASE \E r \in Readers : Connected(r) \/ Chunk(r) \/ Answer(r) \/ NoPoolsView(r)
  BY <1>5, SocketInv
<1>6. CASE \E w \in Writers : SetPools(w) \/ Written(w) \/ WriteFails(w)
  BY <1>6, SetPoolsInv
<1>7. CASE Tick
  BY <1>7, TickInv
<1>8. CASE Finished \/ UNCHANGED vars
  BY <1>8, StutterInv DEF Finished
<1> QED
  BY <1>1, <1>2, <1>3, <1>4, <1>5, <1>6, <1>7, <1>8 DEF Next

\* The invariant of the pools cache.
THEOREM Invariance == Spec => []IndInv
  BY InitInv, NextInv, PTL DEF Spec

\* Type correctness: in particular a stored entry is a view with a natural time
\* of storing, 0 only when it was dropped.
THEOREM TypeCorrect == Spec => []TypeOK
<1>1. IndInv => TypeOK
  BY DEF IndInv
<1> QED BY <1>1, Invariance, PTL

----------------------------------------------------------------------------
\* A reader that begins after setPools returned never gets a view of the pools
\* before it, whatever was cached or on its way (USAGE.md, line 21).
THEOREM NotBehind == Spec => []ReadsNotBehindSetPools
<1>1. IndInv => ReadsNotBehindSetPools
  BY DEF IndInv, TypeOK, Served, ReadsNotBehindSetPools, Views
<1> QED BY <1>1, Invariance, PTL

\* The age of a view is bounded by the chunks it came in, although the socket's
\* timer bounds no answer as a whole, and also when the answer of a slow fetch
\* replaces that of a faster one.
THEOREM Aged == Spec => []AgeBound
<1>1. IndInv => AgeBound
  BY DEF IndInv, Served, AgeBound
<1> QED BY <1>1, Invariance, PTL
============================================================================
