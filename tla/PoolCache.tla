------------------------------ MODULE PoolCache ------------------------------
(***************************************************************************)
(* The "pools" telemetry of an API v3 miner: readers that go through the   *)
(* cache of fetchDeviceData to getPools, and setPools, which replaces the  *)
(* configured pools that getPools merges into its answer and drops the     *)
(* cached one.                                                             *)
(*                                                                         *)
(* All of them run concurrently on one event loop and are interrupted only *)
(* where they await the miner.  What the miner answers is reduced to the   *)
(* time at which it looked at its pools; what configuredPools holds, to    *)
(* the number of times setPools replaced it.  The merge itself is in       *)
(* PoolSetup.  Other getters share the cache under keys of their own, and  *)
(* the v2 client shares the code of fetchDeviceData, but setPools drops no *)
(* entry there.                                                            *)
(***************************************************************************)
EXTENDS Integers, FiniteSets

CONSTANTS
  Readers,        \* calls of the pools channel
  Writers,        \* calls of setPools
  CacheTime,      \* fetchDeviceData's cacheTime
  Timeout,        \* the socket's timeout, which everything heard re-arms
  Horizon,        \* bound on the clock
  MaxChunks       \* bound on the chunks of an answer before its last; a frame
                  \* is at most maxFrameSize long, a chunk at least a byte

ASSUME TimesAreNat == {CacheTime, Timeout, Horizon, MaxChunks} \subseteq Nat
ASSUME CallsAreDisjoint == Readers \intersect Writers = {}

VARIABLES
  now,            \* Date.now(), never 0
  cache,          \* deviceDataCache.getPools
  configured,     \* how often configuredPools was replaced
  pc,             \* idle, pools, combined (readers), write (writers), done
  wire,           \* the connection of a reader, its request or its answer
  heard,          \* when the timer of its socket was last armed
  looked,         \* when the miner looked at its pools to answer
  chunks,         \* how many chunks of the answer came, the last one not yet
  result,         \* what a reader was given
  since           \* (history) the clock and "configured" when a reader began

vars ==
  <<now, cache, configured, pc, wire, heard, looked, chunks, result, since>>

Calls == Readers \union Writers
Waits == {"pools", "combined"}

\* A pools view: which configured pools went into it, when the miner looked at
\* its own, and in how many chunks it told.
Views == [cfg : Nat, at : Nat, chunks : Nat]
NoView == [cfg |-> 0, at |-> 0, chunks |-> 0]

\* An entry whose lastFetch is 0 stands for the missing one: lastFetch is
\* tested for truth before it is compared.
Missing == [data |-> NoView, lastFetch |-> 0]

Init ==
  /\ now = 1
  /\ cache = Missing
  /\ configured = 0
  /\ pc = [c \in Calls |-> "idle"]
  /\ wire = [r \in Readers |-> "none"]
  /\ heard = [r \in Readers |-> 0]
  /\ looked = [r \in Readers |-> 0]
  /\ chunks = [r \in Readers |-> 0]
  /\ result = [r \in Readers |-> NoView]
  /\ since = [r \in Readers |-> [cfg |-> 0, at |-> 0]]

----------------------------------------------------------------------------
(* A request has a socket of its own, whose timer is armed before it is      *)
(* connected, and armed anew by the connection and by every chunk.           *)

Send(r, phase) ==
  /\ pc' = [pc EXCEPT ![r] = phase]
  /\ wire' = [wire EXCEPT ![r] = "connecting"]
  /\ heard' = [heard EXCEPT ![r] = now]
  /\ looked' = [looked EXCEPT ![r] = 0]
  /\ chunks' = [chunks EXCEPT ![r] = 0]

\* The request is written as soon as the socket is connected.
Connected(r) ==
  /\ wire[r] = "connecting"
  /\ wire' = [wire EXCEPT ![r] = "request"]
  /\ heard' = [heard EXCEPT ![r] = now]
  /\ UNCHANGED <<now, cache, configured, pc, looked, chunks, result, since>>

\* A chunk that does not complete the frame: the reader waits for the next.
Chunk(r) ==
  /\ wire[r] \in {"data", "fail"}
  /\ chunks[r] < MaxChunks
  /\ heard' = [heard EXCEPT ![r] = now]
  /\ chunks' = [chunks EXCEPT ![r] = @ + 1]
  /\ UNCHANGED <<now, cache, configured, pc, wire, looked, result, since>>

\* A socket on which nothing happened for Timeout is given up.
Overdue(r) == pc[r] \in Waits /\ now - heard[r] >= Timeout

Return(r, view) ==
  /\ pc' = [pc EXCEPT ![r] = "done"]
  /\ result' = [result EXCEPT ![r] = view]
  /\ wire' = [wire EXCEPT ![r] = "none"]
  /\ heard' = [heard EXCEPT ![r] = 0]
  /\ looked' = [looked EXCEPT ![r] = 0]
  /\ chunks' = [chunks EXCEPT ![r] = 0]

\* Mutant: an entry never expires.
MutFreshForever == cache.lastFetch # 0

\* lastFetched && lastFetched >= Date.now() - cacheTime
Fresh == cache.lastFetch # 0 /\ cache.lastFetch >= now - CacheTime

\* The pools channel calls fetchDeviceData(getPools).
Fetch(r) ==
  /\ pc[r] = "idle"
  /\ since' = [since EXCEPT ![r] = [cfg |-> configured, at |-> now]]
  /\ IF Fresh
     THEN Return(r, cache.data)
     ELSE Send(r, "pools") /\ UNCHANGED result
  /\ UNCHANGED <<now, cache, configured>>

\* The last chunk: getPools merges the configured pools of this moment into the
\* answer, and fetchDeviceData stores it in the same turn, over whatever is
\* there.
Received(r) ==
  /\ pc[r] \in {"pools", "combined"}
  /\ wire[r] = "data"
  /\ LET view == [cfg |-> configured, at |-> looked[r], chunks |-> chunks[r] + 1]
     IN  /\ cache' = [data |-> view, lastFetch |-> now]
         /\ Return(r, view)
  /\ UNCHANGED <<now, configured, since>>

\* ERR_FAIL for the pools-only view: the combined status is asked for instead.
FallBack(r) ==
  /\ pc[r] = "pools"
  /\ wire[r] = "fail"
  /\ Send(r, "combined")
  /\ UNCHANGED <<now, cache, configured, result, since>>

\* Any other failure is thrown and leaves the cache alone; the socket may fail
\* at any point, and times out when nothing came for Timeout.
ReadFails(r) ==
  /\ pc[r] \in {"pools", "combined"}
  /\ Return(r, NoView)
  /\ UNCHANGED <<now, cache, configured, since>>

----------------------------------------------------------------------------
(* setPools.  How long a write takes is left open: it may have to ask for a  *)
(* salt first (V3Session).                                                   *)

SetPools(w) ==
  /\ pc[w] = "idle"
  /\ pc' = [pc EXCEPT ![w] = "write"]
  /\ UNCHANGED <<now, cache, configured, wire, heard, looked, chunks, result, since>>

\* Mutant: the cached view outlives the pools that went into it.
MutWrittenKeepsCache(w) ==
  /\ pc[w] = "write"
  /\ pc' = [pc EXCEPT ![w] = "done"]
  /\ configured' = configured + 1
  /\ UNCHANGED <<now, cache, wire, heard, looked, chunks, result, since>>

\* Mutant: the entry is back-dated until it has expired, not dropped.
MutWrittenBackdates(w) ==
  /\ pc[w] = "write"
  /\ pc' = [pc EXCEPT ![w] = "done"]
  /\ configured' = configured + 1
  /\ cache' = [cache EXCEPT !.lastFetch = now - CacheTime - 1]
  /\ UNCHANGED <<now, wire, heard, looked, chunks, result, since>>

Written(w) ==
  /\ pc[w] = "write"
  /\ pc' = [pc EXCEPT ![w] = "done"]
  /\ configured' = configured + 1
  /\ cache' = Missing
  /\ UNCHANGED <<now, wire, heard, looked, chunks, result, since>>

\* Nothing is replaced when the write was refused or its answer lost.
WriteFails(w) ==
  /\ pc[w] = "write"
  /\ pc' = [pc EXCEPT ![w] = "done"]
  /\ UNCHANGED <<now, cache, configured, wire, heard, looked, chunks, result, since>>

----------------------------------------------------------------------------
(* The miner answers a request, looking at its pools as it does so; the    *)
(* answer then arrives in one chunk or in several.                         *)

Answer(r) ==
  /\ wire[r] = "request"
  /\ wire' = [wire EXCEPT ![r] = "data"]
  /\ looked' = [looked EXCEPT ![r] = now]
  /\ UNCHANGED <<now, cache, configured, pc, heard, chunks, result, since>>

\* ERR_FAIL: the firmware has no pools-only view.  (Every other failure or
\* refusal ends the call: it is a ReadFails.)
NoPoolsView(r) ==
  /\ pc[r] = "pools"
  /\ wire[r] = "request"
  /\ wire' = [wire EXCEPT ![r] = "fail"]
  /\ UNCHANGED <<now, cache, configured, pc, heard, looked, chunks, result, since>>

Tick ==
  /\ now < Horizon
  /\ \A r \in Readers : ~Overdue(r)
  /\ now' = now + 1
  /\ UNCHANGED <<cache, configured, pc, wire, heard, looked, chunks, result, since>>

Finished ==
  /\ \A c \in Calls : pc[c] = "done"
  /\ UNCHANGED vars

Next ==
  \/ \E r \in Readers :
       Fetch(r) \/ Connected(r) \/ Chunk(r) \/ Received(r) \/ FallBack(r) \/ ReadFails(r)
  \/ \E w \in Writers : SetPools(w) \/ Written(w) \/ WriteFails(w)
  \/ \E r \in Readers : Answer(r) \/ NoPoolsView(r)
  \/ Tick
  \/ Finished

Spec == Init /\ [][Next]_vars

----------------------------------------------------------------------------
(* Properties.                                                             *)

TypeOK ==
  /\ now \in Nat \ {0}
  /\ cache \in [data : Views, lastFetch : Nat]
  /\ configured \in Nat
  /\ pc \in [Calls -> {"idle", "write", "done"} \union Waits]
  /\ wire \in [Readers -> {"none", "connecting", "request", "data", "fail"}]
  /\ heard \in [Readers -> Nat]
  /\ looked \in [Readers -> Nat]
  /\ chunks \in [Readers -> Nat]
  /\ result \in [Readers -> Views]
  /\ since \in [Readers -> [cfg : Nat, at : Nat]]

Answered(r) == pc[r] = "done" /\ result[r] # NoView

\* USAGE.md, line 21: the view merges the configured pools.  A reader that
\* begins after setPools returned gets a view of those pools or of later ones,
\* although an older view was cached or on its way.
ReadsNotBehindSetPools ==
  \A r \in Readers : Answered(r) => result[r].cfg >= since[r].cfg

\* The chunks of a view came at most Timeout apart, or its call was given up.
Complete(view) == view.at + view.chunks * Timeout

\* "Cached briefly" (mdk-contract.json, line 28).  The socket's timer bounds no
\* answer as a whole, it runs anew after every chunk: what the miner said in k
\* chunks is at most k times Timeout old when it is stored, and is handed out
\* at most CacheTime longer, even when a slow fetch overwrites the entry of a
\* faster one.
AgeBound ==
  \A r \in Readers : Answered(r) => since[r].at <= Complete(result[r]) + CacheTime

=============================================================================
