----------------------------- MODULE V3Session -----------------------------
(***************************************************************************)
(* The API v3 session of one miner: the salt that every write shares       *)
(* (WMApiV3.salt) and the writes that run concurrently.  No write is sent  *)
(* twice; an answer -4 makes the next one fetch a salt.                    *)
(*                                                                         *)
(* Most commands are one write.  setPowerMode to a mode other than sleep   *)
(* is two: the mining service is started, then the mode is set.            *)
(*                                                                         *)
(* As in V2Session an action is what the code does between two awaits of   *)
(* network I/O, and the miner may change its salt, refuse, answer nonsense *)
(* or nothing, and carry a write out after the worker gave it up.          *)
(***************************************************************************)
EXTENDS Naturals, FiniteSets

CONSTANTS
  Commands,       \* calls of one write
  PowerModes,     \* setPowerMode calls of two writes
  MaxSalt         \* bound: salts the miner uses, one after the other

Calls == Commands \union PowerModes

ASSUME MaxSaltIsPositive == MaxSalt \in Nat \ {0}
ASSUME KindsAreDisjoint == Commands \intersect PowerModes = {}

VARIABLES
  salt,           \* WMApiV3.salt: a number, or NoSalt
  minerSalt,      \* the salt the miner computes its tokens with
  pc,             \* idle, auth, write, done
  step,           \* which of its writes a call is at
  used,           \* the salt in the token of a call's last write
  wire,           \* the request or answer of a call that is in flight
  offer,          \* the salt in an answer "salt"
  applied,        \* per call: how often each of its writes was carried out
  outcome,        \* what the call resolved to
  stale           \* (history) salts that a refusal showed to be out of date

vars == <<salt, minerSalt, pc, step, used, wire, offer, applied, outcome, stale>>

NoSalt == 0
Steps(c) == IF c \in PowerModes THEN 1 .. 2 ELSE 1 .. 1
LastStep(c) == IF c \in PowerModes THEN 2 ELSE 1

AuthAnswers == {"salt", "denied", "error", "noSalt", "garbled"}
WriteAnswers == {"ok", "denied", "error", "garbled"}
Requests == {"getSalt", "command"}

\* Where the outcome leaves the write the call was at.
NeverSent == {"ERR_TOKEN_FETCH_IP_LIMIT", "ERR_AUTH_FAILED", "ERR_INVALID_AUTH_RESPONSE",
              "AUTH_UNREACHABLE"}
Refused == {"ERR_NO_PERMISSION", "ERR_CODE"}
Unclear == {"ERR_IO", "ERR_API_RESPONSE_INVALID"}
Outcomes == {"none", "success"} \union NeverSent \union Refused \union Unclear

Waiting(c) == pc[c] \in {"auth", "write"}

Init ==
  /\ salt = NoSalt
  /\ minerSalt = 1
  /\ pc = [c \in Calls |-> "idle"]
  /\ step = [c \in Calls |-> 1]
  /\ used = [c \in Calls |-> NoSalt]
  /\ wire = [c \in Calls |-> "none"]
  /\ offer = [c \in Calls |-> NoSalt]
  /\ applied = [c \in Calls |-> [s \in Steps(c) |-> 0]]
  /\ outcome = [c \in Calls |-> "none"]
  /\ stale = {}

----------------------------------------------------------------------------
(* Steps of a call.                                                        *)

Send(c, s) ==
  /\ pc' = [pc EXCEPT ![c] = "write"]
  /\ wire' = [wire EXCEPT ![c] = "command"]
  /\ used' = [used EXCEPT ![c] = s]

Authenticate(c) ==
  /\ pc' = [pc EXCEPT ![c] = "auth"]
  /\ wire' = [wire EXCEPT ![c] = "getSalt"]
  /\ UNCHANGED used

\* requestWrite: if (this.salt === undefined) await this.refreshToken()
Write(c) == IF salt = NoSalt THEN Authenticate(c) ELSE Send(c, salt)

Finish(c, o) ==
  /\ pc' = [pc EXCEPT ![c] = "done"]
  /\ outcome' = [outcome EXCEPT ![c] = o]

Start(c) ==
  /\ pc[c] = "idle"
  /\ Write(c)
  /\ UNCHANGED <<salt, minerSalt, step, offer, applied, outcome, stale>>

SaltArrives(c) ==
  /\ pc[c] = "auth"
  /\ wire[c] = "salt"
  /\ salt' = offer[c]
  /\ Send(c, offer[c])
  /\ offer' = [offer EXCEPT ![c] = NoSalt]
  /\ UNCHANGED <<minerSalt, step, applied, outcome, stale>>

\* Mutant: the refusal is read with the table of the writes' codes.
MutAuthOutcomeOfWrite(r) == IF r = "error" THEN "ERR_FAIL" ELSE "AUTH_UNREACHABLE"

AuthOutcome(r) ==
  CASE r = "denied" -> "ERR_TOKEN_FETCH_IP_LIMIT"
    [] r = "error" -> "ERR_AUTH_FAILED"
    [] r = "noSalt" -> "ERR_INVALID_AUTH_RESPONSE"
    [] OTHER -> "AUTH_UNREACHABLE"

AuthFails(c) ==
  /\ pc[c] = "auth"
  /\ wire[c] \in AuthAnswers \ {"salt"}
  /\ Finish(c, AuthOutcome(wire[c]))
  /\ wire' = [wire EXCEPT ![c] = "none"]
  /\ UNCHANGED <<salt, minerSalt, step, used, offer, applied, stale>>

\* A write was accepted: the call ends, or goes on to its next write.
Accepted(c) ==
  /\ pc[c] = "write"
  /\ wire[c] = "ok"
  /\ IF step[c] = LastStep(c)
     THEN Finish(c, "success") /\ wire' = [wire EXCEPT ![c] = "none"] /\ UNCHANGED <<step, used>>
     ELSE Write(c) /\ step' = [step EXCEPT ![c] = @ + 1] /\ UNCHANGED outcome
  /\ UNCHANGED <<salt, minerSalt, offer, applied, stale>>

WriteOutcome(r) ==
  CASE r = "denied" -> "ERR_NO_PERMISSION"
    [] r = "error" -> "ERR_CODE"
    [] OTHER -> "ERR_API_RESPONSE_INVALID"

\* Mutant: the salt is kept when it was refused.
MutSaltAfterKeeps(r) == salt

\* -4 forgets the salt, whichever it is by now.
SaltAfter(r) == IF r = "denied" THEN NoSalt ELSE salt

Rejected(c) ==
  /\ pc[c] = "write"
  /\ wire[c] \in {"denied", "error", "garbled"}
  /\ salt' = SaltAfter(wire[c])
  /\ stale' = IF wire[c] = "denied" /\ used[c] # minerSalt THEN stale \union {used[c]} ELSE stale
  /\ Finish(c, WriteOutcome(wire[c]))
  /\ wire' = [wire EXCEPT ![c] = "none"]
  /\ UNCHANGED <<minerSalt, step, used, offer, applied>>

\* Mutant: a write that timed out is sent once more.
MutSocketFailsResends(c) ==
  /\ Waiting(c)
  /\ \/ /\ pc[c] = "write" /\ Send(c, used[c]) /\ UNCHANGED <<outcome, offer>>
     \/ /\ Finish(c, IF pc[c] = "auth" THEN "AUTH_UNREACHABLE" ELSE "ERR_IO")
        /\ wire' = [wire EXCEPT ![c] = IF @ \in Requests THEN @ ELSE "none"]
        /\ offer' = [offer EXCEPT ![c] = NoSalt]
        /\ UNCHANGED used
  /\ UNCHANGED <<salt, minerSalt, step, applied, stale>>

\* Mutant: only a write has a timeout.
MutSocketFailsInWrite(c) ==
  /\ pc[c] = "write"
  /\ Finish(c, "ERR_IO")
  /\ wire' = [wire EXCEPT ![c] = IF @ \in Requests THEN @ ELSE "none"]
  /\ UNCHANGED <<salt, minerSalt, step, used, offer, applied, stale>>

\* The socket times out, fails, or ends within a frame; nothing is sent again.
SocketFails(c) ==
  /\ Waiting(c)
  /\ Finish(c, IF pc[c] = "auth" THEN "AUTH_UNREACHABLE" ELSE "ERR_IO")
  /\ wire' = [wire EXCEPT ![c] = IF @ \in Requests THEN @ ELSE "none"]
  /\ offer' = [offer EXCEPT ![c] = NoSalt]
  /\ UNCHANGED <<salt, minerSalt, step, used, applied, stale>>

Settle(c) ==
  SaltArrives(c) \/ AuthFails(c) \/ Accepted(c) \/ Rejected(c) \/ SocketFails(c)

----------------------------------------------------------------------------
(* Steps of the miner and the network.                                     *)

\* An answer, or the loss of the request or of the answer, reaches a call that
\* still waits.
Reply(c, answers) ==
  \E r \in answers \union {"none"} : wire' = [wire EXCEPT ![c] = IF Waiting(c) THEN r ELSE "none"]

MinerOffersSalt(c) ==
  /\ wire[c] = "getSalt"
  /\ wire' = [wire EXCEPT ![c] = IF Waiting(c) THEN "salt" ELSE "none"]
  /\ offer' = [offer EXCEPT ![c] = IF Waiting(c) THEN minerSalt ELSE NoSalt]
  /\ UNCHANGED <<salt, minerSalt, pc, step, used, applied, outcome, stale>>

MinerOffersNone(c) ==
  /\ wire[c] = "getSalt"
  /\ Reply(c, AuthAnswers \ {"salt"})
  /\ UNCHANGED <<salt, minerSalt, pc, step, used, offer, applied, outcome, stale>>

MinerApplies(c) ==
  /\ wire[c] = "command"
  /\ used[c] = minerSalt
  /\ applied' = [applied EXCEPT ![c][step[c]] = @ + 1]
  /\ Reply(c, {"ok", "garbled"})
  /\ UNCHANGED <<salt, minerSalt, pc, step, used, offer, outcome, stale>>

\* A token made with another salt is refused with -4; so is any, while write
\* access is switched off.
MinerRefuses(c) ==
  /\ wire[c] = "command"
  /\ Reply(c, IF used[c] = minerSalt THEN {"denied", "error", "garbled"} ELSE {"denied", "garbled"})
  /\ UNCHANGED <<salt, minerSalt, pc, step, used, offer, applied, outcome, stale>>

MinerChangesSalt ==
  /\ minerSalt < MaxSalt
  /\ minerSalt' = minerSalt + 1
  /\ UNCHANGED <<salt, pc, step, used, wire, offer, applied, outcome, stale>>

Miner(c) == MinerOffersSalt(c) \/ MinerOffersNone(c) \/ MinerApplies(c) \/ MinerRefuses(c)

----------------------------------------------------------------------------
Finished ==
  /\ \A c \in Calls : pc[c] = "done" /\ wire[c] = "none"
  /\ UNCHANGED vars

Next ==
  \/ \E c \in Calls : Start(c) \/ Settle(c) \/ Miner(c)
  \/ MinerChangesSalt
  \/ Finished

\* Every socket has a timeout.
Fairness == \A c \in Calls : WF_vars(Settle(c))

Spec == Init /\ [][Next]_vars /\ Fairness

----------------------------------------------------------------------------
(* Properties.                                                             *)

TypeOK ==
  /\ salt \in 0 .. minerSalt
  /\ minerSalt \in 1 .. MaxSalt
  /\ pc \in [Calls -> {"idle", "auth", "write", "done"}]
  /\ step \in [Calls -> 1 .. 2]
  /\ used \in [Calls -> 0 .. minerSalt]
  /\ wire \in [Calls -> {"none"} \union Requests \union AuthAnswers \union WriteAnswers]
  /\ offer \in [Calls -> 0 .. minerSalt]
  /\ \A c \in Calls : applied[c] \in [Steps(c) -> Nat]
  /\ outcome \in [Calls -> Outcomes]
  /\ stale \subseteq 1 .. minerSalt

\* What the caller of a call may conclude about each of its writes.
Verdict(c, s) ==
  CASE s < step[c] \/ outcome[c] = "success" -> "applied"
    [] s = step[c] /\ outcome[c] \in Unclear -> "unknown"
    [] s = step[c] /\ outcome[c] \in NeverSent \union Refused -> "notApplied"
    [] OTHER -> "none"

Writes == UNION {{c} \X Steps(c) : c \in Calls}

Contract == INSTANCE WriteContract WITH
  Calls <- Writes,
  issued <- {w \in Writes : pc[w[1]] # "idle" /\ w[2] <= step[w[1]]},
  applied <- [w \in Writes |-> applied[w[1]][w[2]]],
  verdict <- [w \in Writes |-> Verdict(w[1], w[2])]

\* README.md, line 92, and api-v3-auth.test.js, line 121: no write is repeated.
\* Each write is carried out at most once, also when the worker gave it up
\* before; success means that all the writes of the call were carried out, and
\* a mode is not set after the start of the service was refused or lost.
KeepsContract == Contract!Spec

\* A salt that the miner replaced costs the calls that are under way, not the
\* later ones: once they have all been given an answer they could read, a salt
\* that a refusal showed to be out of date is stored no more, whatever the order
\* of the answers.
RefusedSaltIsGone ==
  (\A c \in Calls : pc[c] \in {"idle", "done"} /\ outcome[c] \notin Unclear)
    => salt \notin stale

\* A call ends.
Termination == \A c \in Calls : pc[c] # "idle" ~> pc[c] = "done"
============================================================================
