----------------------------- MODULE Snapshots -----------------------------
(***************************************************************************)
(* Snapshots (getSnap, _prepSnap, _calcNewShares) of a miner that commands *)
(* change at the same time.                                                *)
(*                                                                         *)
(* A snapshot reads the miner several times.  Three of its reads matter    *)
(* here: the pools' counters, reduced to one counter, the error codes and  *)
(* the miner info, which shows the LED; the others only delay it or make it*)
(* fail.  Each read may be answered at any moment of the snapshot, which   *)
(* includes the orders that v2's limit of three at a time allows.  Once all*)
(* have been answered, everything else is one turn of the event loop.      *)
(***************************************************************************)
EXTENDS Commands

CONSTANTS
  Snaps,          \* the calls of getSnap
  ErrorCodes,     \* the miner's error codes
  MaxShares       \* bound: the miner's counter stays below it

ASSUME MaxSharesIsNat == MaxShares \in Nat

VARIABLES
  shares,         \* the miner's counter of shares
  errors,         \* the miner's error codes
  phase,          \* a snapshot is idle, running, ok or failed
  got,            \* the answers a snapshot has
  cachedShares,   \* v2: the counter as last counted
  errorLog,       \* v2: _errorLog, the array that every snapshot shares
  lastSnap,       \* the last snapshot, as telemetry shows it
  mined,          \* (history) all shares since the first start
  counted,        \* (history) the sum of what the snapshots reported
  excuses,        \* (history) why counted may differ from cachedShares
  lit             \* (history) the setLED a snapshot must show

snapVars == <<shares, errors, phase, got, cachedShares, errorLog, lastSnap,
              mined, counted, excuses, lit>>

vars == <<commandVars, snapVars>>

NoPools == 0 - 1                          \* the miner reports no pools
Reads == {"pools", "errors", "info"}

\* raw_errors of a v2 snapshot is _errorLog itself; errs is the array below it.
NoSnap == [ok |-> FALSE, errs |-> {}, led |-> "auto"]

SnapInit ==
  /\ Init
  /\ shares \in 0 .. MaxShares
  /\ errors = {}
  /\ phase = [s \in Snaps |-> "idle"]
  /\ got = [s \in Snaps |-> [r \in Reads |-> {}]]
  /\ cachedShares = 0
  /\ errorLog = {}
  /\ lastSnap = NoSnap
  /\ mined = shares
  /\ counted = 0
  /\ excuses = {}
  /\ lit = [s \in Snaps |-> {}]

----------------------------------------------------------------------------
(* Steps of a snapshot.                                                    *)

Running == {s \in Snaps : phase[s] = "running"}

Confirmed(calls) == {c \in calls : result[c] = "success"}

Take(s) ==
  /\ phase[s] = "idle"
  /\ phase' = [phase EXCEPT ![s] = "running"]
  /\ excuses' = excuses \union IF Running = {} THEN {} ELSE {"overlap"}
  /\ lit' = [lit EXCEPT ![s] = Confirmed(solo["led"])]
  /\ UNCHANGED <<shares, errors, got, cachedShares, errorLog, lastSnap, mined, counted>>

\* What the miner may answer.  v2's miner info may lack its Msg; v3 fails then.
Says(r) ==
  CASE r = "pools" -> {shares, NoPools}
    [] r = "errors" -> {errors}
    [] OTHER -> {miner.led} \union IF gen = "v2" THEN {"noMsg"} ELSE {}

\* An answer is kept as a set of one element, so that a set of none is no answer.
Answered(s, r) ==
  /\ phase[s] = "running"
  /\ got[s][r] = {}
  /\ \E a \in Says(r) : got' = [got EXCEPT ![s][r] = {a}]
  /\ UNCHANGED <<shares, errors, phase, cachedShares, errorLog, lastSnap, mined,
                 counted, excuses, lit>>

\* Mutant: like v3, v2 keeps the last good snapshot.
MutAfterFailureKeeps == lastSnap

\* v2 remembers a failed snapshot, v3 keeps the last good one.
AfterFailure == IF gen = "v2" THEN NoSnap ELSE lastSnap

End(s, p) ==
  /\ phase' = [phase EXCEPT ![s] = p]
  /\ got' = [got EXCEPT ![s] = [r \in Reads |-> {}]]
  /\ UNCHANGED <<shares, errors, mined, lit>>

\* A read fails or times out.
Fails(s) ==
  /\ phase[s] = "running"
  /\ End(s, "failed")
  /\ lastSnap' = AfterFailure
  /\ UNCHANGED <<cachedShares, errorLog, counted, excuses>>

\* Mutant: without pools, the counters start anew.
MutNewSharesForget(n) ==
  IF n = NoPools THEN [added |-> 0, cached |-> 0]
  ELSE [added |-> IF n >= cachedShares THEN n - cachedShares ELSE n, cached |-> n]

\* Mutant: it is forgotten that there may be no pools.
MutNewSharesOfNone(n) ==
  [added |-> IF n >= cachedShares THEN n - cachedShares ELSE n, cached |-> n]

\* A counter that went down was reset: all of it is new.
NewShares(n) ==
  IF n = NoPools THEN [added |-> 0, cached |-> cachedShares]
  ELSE [added |-> IF n >= cachedShares THEN n - cachedShares ELSE n, cached |-> n]

\* v2, the turn in which the last answer arrived: the shared error log and the
\* counters change first; miner info without Msg throws after that, and what was
\* counted is reported to nobody.
CompletesV2(s) ==
  /\ gen = "v2"
  /\ \E n \in got[s]["pools"], errs \in got[s]["errors"], led \in got[s]["info"] :
       LET new == NewShares(n)
       IN  /\ errorLog' = errs
           /\ cachedShares' = new.cached
           /\ IF led = "noMsg"
              THEN /\ End(s, "failed")
                   /\ lastSnap' = AfterFailure
                   /\ excuses' = excuses \union {"lost"}
                   /\ UNCHANGED counted
              ELSE /\ End(s, "ok")
                   /\ lastSnap' = [ok |-> TRUE, errs |-> errs, led |-> led]
                   /\ counted' = counted + new.added
                   /\ UNCHANGED excuses

\* v3 counts no shares.
CompletesV3(s) ==
  /\ gen = "v3"
  /\ \E n \in got[s]["pools"], errs \in got[s]["errors"], led \in got[s]["info"] :
       /\ End(s, "ok")
       /\ lastSnap' = [ok |-> TRUE, errs |-> errs, led |-> led]
  /\ UNCHANGED <<cachedShares, errorLog, counted, excuses>>

----------------------------------------------------------------------------
(* Steps of the miner.                                                     *)

MinerMines ==
  /\ shares < MaxShares /\ mined < MaxShares
  /\ shares' = shares + 1
  /\ mined' = mined + 1
  /\ UNCHANGED <<errors, phase, got, cachedShares, errorLog, lastSnap, counted,
                 excuses, lit>>

\* Its counters begin at zero again.
MinerResets ==
  /\ shares > 0
  /\ shares' = 0
  /\ excuses' = excuses \union {"reset"}
  /\ UNCHANGED <<errors, phase, got, cachedShares, errorLog, lastSnap, mined,
                 counted, lit>>

MinerErrs ==
  /\ \E e \in SUBSET ErrorCodes : e # errors /\ errors' = e
  /\ UNCHANGED <<shares, phase, got, cachedShares, errorLog, lastSnap, mined,
                 counted, excuses, lit>>

SnapNext ==
  \/ \E s \in Snaps :
       \/ Take(s) \/ Fails(s) \/ CompletesV2(s) \/ CompletesV3(s)
       \/ \E r \in Reads : Answered(s, r)
  \/ MinerMines \/ MinerResets \/ MinerErrs

Next ==
  \/ CommandNext /\ UNCHANGED snapVars
  \/ SnapNext /\ UNCHANGED commandVars

Spec == SnapInit /\ [][Next]_vars /\ CommandFairness

----------------------------------------------------------------------------
(* Properties.                                                             *)

SnapTypeOK ==
  /\ {shares, cachedShares} \subseteq 0 .. MaxShares
  /\ mined \in 0 .. MaxShares
  /\ counted \in Nat
  /\ {errors, errorLog, lastSnap.errs} \subseteq SUBSET ErrorCodes
  /\ lastSnap.led \in {"auto", "manual"}
  /\ phase \in [Snaps -> {"idle", "running", "ok", "failed"}]
  /\ excuses \subseteq {"overlap", "lost", "reset"}
  /\ lit \in [Snaps -> SUBSET Calls]

\* all_pools_shares of the v2 snapshots, summed up, is never more than the miner
\* counted, also across resets of its counter, answers without pools and failed
\* snapshots; it is exactly what was counted last, unless shares went with a
\* reset or with a snapshot that failed after counting.  Snapshots that overlap
\* are excused: of two, the older counter may come last and look like a reset.
SharesAddUp ==
  /\ "overlap" \notin excuses => counted <= mined
  /\ excuses = {} => counted = IF gen = "v2" THEN cachedShares ELSE 0

\* raw_errors of the last good v2 snapshot is the array that every snapshot
\* overwrites: it still says what that snapshot's own list of errors says.
LastSnapAgrees == gen = "v2" /\ lastSnap.ok => errorLog = lastSnap.errs

\* README.md, line 88: a snapshot taken after setLED succeeded confirms the
\* changed state, unless another command or a timer came in between.
SnapShowsLed ==
  [][\A s \in Snaps :
       phase[s] = "running" /\ phase'[s] = "ok" /\ lit[s] = solo["led"] =>
         \A c \in lit[s] :
           lastSnap'.led = IF cmd[c] = "ledOn" THEN "manual" ELSE "auto"]_vars
============================================================================
