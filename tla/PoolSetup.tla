------------------------------ MODULE PoolSetup ------------------------------
(***************************************************************************)
(* setPools and setupPools of both clients, run concurrently on one miner. *)
(*                                                                         *)
(* v2 reads the miner's pools, skips the update when they look like the    *)
(* requested ones, and otherwise sends update_pools and, once that was     *)
(* answered, a reboot nobody waits for, whose effect is that the miner     *)
(* mines with the pools it holds.  v3 sends set.miner.pools unconditionally*)
(* and remembers the pools for its telemetry.                              *)
(*                                                                         *)
(* A pool is an address and a user.  Calls ask for at most MaxPools pools; *)
(* the clients pad or cut a request to three.  The retries of a v2 write   *)
(* are those of V2Session: what is left of them here is that a write is    *)
(* carried out at most once, perhaps after the client gave it up.          *)
(***************************************************************************)
EXTENDS Naturals, FiniteSets, Sequences, SequencesExt

CONSTANTS
  Generations,    \* of {"v2", "v3"}
  Setters,        \* calls of setPools
  Setups,         \* calls of setupPools
  Urls, Users,    \* what pools are made of
  MaxPools        \* bound on the length of a list of pools

ASSUME PoolAssumption ==
  /\ Generations \subseteq {"v2", "v3"}
  /\ MaxPools \in 0 .. 3
  /\ Setters \intersect Setups = {}

VARIABLES
  gen,            \* the client's API generation
  wanted,         \* per call: the requested pools, with the id appended
  device,         \* the pools the miner holds
  active,         \* the pools it mines with
  configured,     \* v3: configuredPools
  pc,             \* idle, read, write, done
  wire,           \* a call's request or answer under way
  reboot,         \* the reboot of a call: none, sent, done, lost
  result,         \* what a call resolved to
  had,            \* (history) did the miner hold the pools during the call?
  seen,           \* (history) the pools the call read
  crossed         \* (history) v3: did an update begin before another was over?

vars == <<gen, wanted, device, active, configured, pc, wire, reboot,
          result, had, seen, crossed>>

Calls == Setters \union Setups

Pools == [url : Urls, user : Users]
NoPool == [url |-> "", user |-> ""]
ASSUME NoPoolIsNone == NoPool \notin Pools

Lists == SeqOf(Pools, MaxPools)

\* preProcessPoolData, and the same loop over the old pools
Padded(list) == list \o [i \in 1 .. 3 - Len(list) |-> NoPool]

\* Mutant: the user of a pool is not compared.
MutcheckSamePoolsByUrl(new, old) ==
  /\ Len(new) = Len(old)
  /\ \A pool \in ToSet(new) : \E o \in ToSet(old) : o.url = pool.url

\* Every new pool agrees with the first old one of its address.
checkSamePools(new, old) ==
  /\ Len(new) = Len(old)
  /\ \A pool \in ToSet(new) :
       \E i \in 1 .. Len(old) :
         /\ old[i] = pool
         /\ \A j \in 1 .. i - 1 : old[j].url # pool.url

Init ==
  /\ gen \in Generations
  /\ wanted \in [Calls -> Lists]
  /\ device \in Lists
  /\ active = device
  /\ configured \in IF gen = "v3" THEN {<<>>, device} ELSE {<<>>}
  /\ pc = [c \in Calls |-> "idle"]
  /\ wire = [c \in Calls |-> "none"]
  /\ reboot = [c \in Calls |-> "none"]
  /\ result = [c \in Calls |-> "none"]
  /\ had = [c \in Calls |-> FALSE]
  /\ seen = [c \in Calls |-> <<>>]
  /\ crossed = FALSE

----------------------------------------------------------------------------
(* Steps of a call.                                                        *)

Holds(list, pools) == ToSet(pools) \subseteq ToSet(list)

Send(c, phase, request) ==
  /\ pc' = [pc EXCEPT ![c] = phase]
  /\ wire' = [wire EXCEPT ![c] = request]

\* v2's setupPools awaits setPools, ignores what it resolved to, and reports
\* success unless it threw; v3's passes the result on.
Reported(c, r) ==
  IF gen = "v2" /\ c \in Setups /\ r # "thrown" THEN "success" ELSE r

Finish(c, r) ==
  /\ pc' = [pc EXCEPT ![c] = "done"]
  /\ result' = [result EXCEPT ![c] = Reported(c, r)]

Crossing(c) ==
  crossed \/ (gen = "v3" /\ \E d \in Calls \ {c} : pc[d] = "write" \/ wire[d] = "update")

\* Mutant: the reboot is sent along with the update.
MutBeginRebootsAtOnce(c) ==
  /\ pc[c] = "idle"
  /\ IF gen = "v2" THEN Send(c, "read", "pools") ELSE Send(c, "write", "update")
  /\ reboot' = [reboot EXCEPT ![c] = IF gen = "v2" THEN "sent" ELSE @]
  /\ crossed' = Crossing(c)
  /\ had' = [had EXCEPT ![c] = Holds(device, wanted[c])]
  /\ UNCHANGED <<gen, wanted, device, active, configured, result, seen>>

Begin(c) ==
  /\ pc[c] = "idle"
  /\ IF gen = "v2" THEN Send(c, "read", "pools") ELSE Send(c, "write", "update")
  /\ crossed' = Crossing(c)
  /\ had' = [had EXCEPT ![c] = Holds(device, wanted[c])]
  /\ UNCHANGED <<gen, wanted, device, active, configured, reboot, result, seen>>

\* The old pools arrive: nothing to do, or the update is sent.
Compared(c) ==
  /\ pc[c] = "read"
  /\ wire[c] = "list"
  /\ IF checkSamePools(Padded(wanted[c]), Padded(seen[c]))
     THEN Finish(c, "same") /\ wire' = [wire EXCEPT ![c] = "none"]
     ELSE Send(c, "write", "update") /\ UNCHANGED result
  /\ UNCHANGED <<gen, crossed, wanted, device, active, configured, reboot, had, seen>>

\* getPools rejects outside of the try block: setPools throws.
ReadFails(c) ==
  /\ pc[c] = "read"
  /\ Finish(c, "thrown")
  /\ wire' = [wire EXCEPT ![c] = "none"]
  /\ UNCHANGED <<gen, crossed, wanted, device, active, configured, reboot, had, seen>>

\* Mutant: the padding is remembered, too.
MutWrittenPadded(c) ==
  /\ pc[c] = "write"
  /\ wire[c] \in {"ok", "denied"}
  /\ Finish(c, IF wire[c] = "ok" THEN "success" ELSE "failure")
  /\ wire' = [wire EXCEPT ![c] = "none"]
  /\ reboot' = [reboot EXCEPT ![c] = IF gen = "v2" /\ @ = "none" THEN "sent" ELSE @]
  /\ configured' = IF gen = "v3" /\ wire[c] = "ok" THEN Padded(wanted[c]) ELSE configured
  /\ UNCHANGED <<gen, crossed, wanted, device, active, had, seen>>

\* Mutant: configuredPools is stored before the answer is looked at.
MutWrittenStoresFirst(c) ==
  /\ pc[c] = "write"
  /\ wire[c] \in {"ok", "denied"}
  /\ Finish(c, IF wire[c] = "ok" THEN "success" ELSE "failure")
  /\ wire' = [wire EXCEPT ![c] = "none"]
  /\ reboot' = [reboot EXCEPT ![c] = IF gen = "v2" /\ @ = "none" THEN "sent" ELSE @]
  /\ configured' = IF gen = "v3" THEN wanted[c] ELSE configured
  /\ UNCHANGED <<gen, crossed, wanted, device, active, had, seen>>

\* v2 reboots the miner whatever the answer says; v3 remembers the pools of an
\* update that was accepted.
Written(c) ==
  /\ pc[c] = "write"
  /\ wire[c] \in {"ok", "denied"}
  /\ Finish(c, IF wire[c] = "ok" THEN "success" ELSE "failure")
  /\ wire' = [wire EXCEPT ![c] = "none"]
  /\ reboot' = [reboot EXCEPT ![c] = IF gen = "v2" /\ @ = "none" THEN "sent" ELSE @]
  /\ configured' = IF gen = "v3" /\ wire[c] = "ok" THEN wanted[c] ELSE configured
  /\ UNCHANGED <<gen, crossed, wanted, device, active, had, seen>>

\* The write's socket times out or fails; the request may still arrive.
WriteFails(c) ==
  /\ pc[c] = "write"
  /\ Finish(c, "failure")
  /\ wire' = [wire EXCEPT ![c] = IF @ = "update" THEN @ ELSE "none"]
  /\ UNCHANGED <<gen, crossed, wanted, device, active, configured, reboot, had, seen>>

----------------------------------------------------------------------------
(* Steps of the miner.                                                     *)

AnswersRead(c) ==
  /\ wire[c] = "pools"
  /\ wire' = [wire EXCEPT ![c] = "list"]
  /\ seen' = [seen EXCEPT ![c] = device]
  /\ UNCHANGED <<gen, crossed, wanted, device, active, configured, pc, reboot, result, had>>

Reply(c, answers) ==
  \E a \in answers : wire' = [wire EXCEPT ![c] = IF pc[c] = "write" THEN a ELSE "none"]

Applies(c) ==
  /\ wire[c] = "update"
  /\ device' = wanted[c]
  /\ active' = IF gen = "v3" THEN wanted[c] ELSE active
  /\ had' = [d \in Calls |->
               had[d] \/ (pc[d] \in {"read", "write"} /\ Holds(wanted[c], wanted[d]))]
  /\ Reply(c, {"ok", "none"})
  /\ UNCHANGED <<gen, crossed, wanted, configured, pc, reboot, result, seen>>

Refuses(c) ==
  /\ wire[c] = "update"
  /\ Reply(c, {"denied", "none"})
  /\ UNCHANGED <<gen, crossed, wanted, device, active, configured, pc, reboot, result, had, seen>>

Reboots(c) ==
  /\ reboot[c] = "sent"
  /\ \/ reboot' = [reboot EXCEPT ![c] = "done"] /\ active' = device
     \/ reboot' = [reboot EXCEPT ![c] = "lost"] /\ UNCHANGED active
  /\ UNCHANGED <<gen, crossed, wanted, device, configured, pc, wire, result, had, seen>>

----------------------------------------------------------------------------
Quiet == \A c \in Calls : pc[c] = "done" /\ wire[c] = "none" /\ reboot[c] # "sent"

Finished == Quiet /\ UNCHANGED vars

Next ==
  \/ \E c \in Calls :
       \/ Begin(c) \/ Compared(c) \/ ReadFails(c) \/ Written(c) \/ WriteFails(c)
       \/ AnswersRead(c) \/ Applies(c) \/ Refuses(c) \/ Reboots(c)
  \/ Finished

Spec == Init /\ [][Next]_vars

----------------------------------------------------------------------------
(* The telemetry view of v3: getPools.                                     *)

\* Mutant: a runtime entry may be matched twice.
MutMatchAny(used, runtime, url) == {k \in 1 .. Len(runtime) : runtime[k].url = url}

\* The runtime entries that a configured pool can be matched with.
Match(used, runtime, url) ==
  {k \in 1 .. Len(runtime) : k \notin used /\ runtime[k].url = url}

Entry(pool, status) == [url |-> pool.url, user |-> pool.user, status |-> status]

\* A configured pool takes the first runtime entry of its address that is free.
WithPool(acc, pool, runtime) ==
  LET free == Match(acc.used, runtime, pool.url)
      k == CHOOSE n \in free : \A m \in free : n <= m
  IN  IF free = {}
      THEN [view |-> Append(acc.view, Entry(pool, "unknown")), used |-> acc.used]
      ELSE [view |-> Append(acc.view, Entry(runtime[k], "runtime")), used |-> acc.used \union {k}]

\* The view and the entries used, after i configured pools.
Merging(pools, runtime) ==
  LET merging[i \in 0 .. Len(pools)] ==
        IF i = 0 THEN [view |-> <<>>, used |-> {}]
        ELSE WithPool(merging[i - 1], pools[i], runtime)
  IN  merging

\* The view after the first k runtime entries that were not used are appended.
Others(merged, runtime) ==
  LET others[k \in 0 .. Len(runtime)] ==
        IF k = 0 THEN merged.view
        ELSE IF k \in merged.used THEN others[k - 1]
        ELSE Append(others[k - 1], Entry(runtime[k], "runtime"))
  IN  others

Merged(pools, runtime) == Others(Merging(pools, runtime)[Len(pools)], runtime)[Len(runtime)]

View == Merged(configured, device)

Count(list, Test(_)) == Cardinality({i \in 1 .. Len(list) : Test(list[i])})

----------------------------------------------------------------------------
(* Properties.                                                             *)

TypeOK ==
  /\ gen \in Generations
  /\ wanted \in [Calls -> Lists]
  /\ {device, active, configured} \subseteq Lists
  /\ pc \in [Calls -> {"idle", "read", "write", "done"}]
  /\ wire \in [Calls -> {"none", "pools", "list", "update", "ok", "denied"}]
  /\ reboot \in [Calls -> {"none", "sent", "done", "lost"}]
  /\ result \in [Calls -> {"none", "same", "success", "failure", "thrown"}]
  /\ had \in [Calls -> BOOLEAN]
  /\ seen \in [Calls -> Lists]
  /\ crossed \in BOOLEAN

\* setPools reports a success, or that there is nothing to do, only if the
\* miner held every requested pool at some moment of the call, whatever other
\* calls wrote between its read and its write.
SuccessWasTrue ==
  \A c \in Setters : result[c] \in {"success", "same"} => had[c]

\* The reboot follows the update: when everything has been answered and
\* carried out, the miner mines with the pools it holds.
PoolsAreActive ==
  Quiet /\ (\A c \in Calls : c \in Setters /\ result[c] \in {"success", "same"}
                                            /\ reboot[c] # "lost")
  => active = device

\* configuredPools, which the v3 telemetry lists first, are the pools the miner
\* holds once a setPools succeeded, unless calls crossed each other, or one that
\* was reported as failed was carried out after all.
ConfiguredAgrees ==
  /\ gen = "v3" /\ ~crossed /\ Quiet
  /\ \E c \in Calls : result[c] = "success"
  => configured = device
     \/ \E c \in Calls : result[c] = "failure" /\ device = wanted[c]

\* USAGE.md, line 21: the v3 view keeps the configured pools in their order and
\* calls one unknown just if the miner does not report it; every entry that the
\* miner reports is in the view once, also when addresses repeat.
ViewMergesPools ==
  gen = "v3" =>
    /\ \A i \in 1 .. Len(configured) :
         LET SameUrl(p) == p.url = configured[i].url
         IN  /\ SameUrl(View[i])
             /\ View[i].status = "unknown" <=>
                  Count(SubSeq(configured, 1, i), SameUrl) > Count(device, SameUrl)
    /\ \A p \in Pools :
         LET Reports(e) == e = Entry(p, "runtime")
             Is(q) == q = p
         IN  Count(View, Reports) = Count(device, Is)

\* mdk-contract.json, line 62: a timeout of setupPools has an unknown physical
\* outcome; a success is something else, and says that the pools were set.
SetupSuccessWasTrue ==
  \A c \in Setups : result[c] = "success" => had[c]

\* "Pools are same, skipping": the update is skipped only when the miner holds
\* the requested pools and no others.
SkipMeansSame ==
  \A c \in Calls : result[c] = "same" => ToSet(seen[c]) = ToSet(wanted[c])

=============================================================================
