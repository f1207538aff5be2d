----------------------------- MODULE V2Session -----------------------------
(***************************************************************************)
(* The API v2 session of one miner: the token that every authenticated     *)
(* call shares (WMApiV2.token) and the calls that run concurrently on the  *)
(* event loop of the worker.                                               *)
(*                                                                         *)
(* A call runs without interruption from one socket completion to the      *)
(* next, so each action below is what the code does between two awaits of  *)
(* network I/O.  The device and the network are the environment: the       *)
(* device may forget any token at any time, answer or not, and carry a     *)
(* command out after the worker stopped waiting for it.  The device is     *)
(* trusted on one point: it carries a command out at most once per         *)
(* request and answers "expired" or with an error code only when it did    *)
(* not carry the command out.                                              *)
(***************************************************************************)
EXTENDS Naturals, FiniteSets

CONSTANTS
  Commands,       \* writes through requestWrite: up to MaxAttempts requests
  Reboots,        \* requestWrite with json = false: the answer is not decoded
  NetworkCalls,   \* net_config and set_hostname, through requestWriteOnce
  Downloads,      \* downloadLogs
  MaxTokens       \* bound: the device answers get_token only below it

Calls == Commands \union Reboots \union NetworkCalls \union Downloads

ASSUME MaxTokensIsNat == MaxTokens \in Nat

ASSUME KindsAreDisjoint ==
  /\ Commands \intersect Reboots = {}
  /\ Commands \intersect NetworkCalls = {}
  /\ Commands \intersect Downloads = {}
  /\ Reboots \intersect NetworkCalls = {}
  /\ Reboots \intersect Downloads = {}
  /\ NetworkCalls \intersect Downloads = {}

VARIABLES
  token,          \* WMApiV2.token: the number of the stored token, or NoToken
  minted,         \* tokens ever made, numbered 1 .. minted
  valid,          \* the tokens the device still accepts
  pc,             \* where each call is: idle, auth, write, done
  attempt,        \* the iteration of requestWrite's loop a call is in
  used,           \* the token a call captured for its last request
  wire,           \* the request or answer of a call that is in flight
  grant,          \* the token carried by a "granted" answer
  applied,        \* how often the device carried a call's command out
  outcome,        \* what a call returned or threw
  spent           \* (history) the tokens a call was told had expired

vars == <<token, minted, valid, pc, attempt, used, wire, grant,
          applied, outcome, spent>>

NoToken == 0
MaxAttempts == 3

Expired == {"expired", "encExpired"}
AuthAnswers == {"granted", "refusal", "limit", "malformed", "garbled"}
WriteAnswers == {"ok", "denied", "plainError", "empty", "garbled"} \union Expired
Requests == {"getToken", "command"}
Wires == {"none"} \union Requests \union AuthAnswers \union WriteAnswers

(***************************************************************************)
(* What a call returns or throws.                                          *)
(*   success    a decoded answer with Code 131                             *)
(*   notOK      a decoded answer with another Code: {success: false}       *)
(*   ERR_CODE   the code of an answer, mapped by _getAPICodeMsg            *)
(*   ERR_IO     ERR_API_V2_TIMEOUT, ERR_API_V2_CONNECTION and the          *)
(*              download's own timeout and connection codes                *)
(*   garbled    JSON.parse or the decryption failed                        *)
(*   malformed  get_token was answered without a Msg: a TypeError          *)
(*   null       a reboot whose connection closed without an answer         *)
(***************************************************************************)
NeverSent == {"ERR_READ_FAILED", "ERR_TOKEN_FETCH_IP_LIMIT", "malformed"}
Refused == {"notOK", "ERR_CODE", "ERR_TOKEN_EXPIRED"}
Unclear == {"ERR_IO", "garbled", "null", "ERR_UNKNOWN_CODE"}
Outcomes == {"none", "success"} \union NeverSent \union Refused \union Unclear

Waiting(c) == pc[c] \in {"auth", "write"}

Init ==
  /\ token = NoToken
  /\ minted = 0
  /\ valid = {}
  /\ pc = [c \in Calls |-> "idle"]
  /\ attempt = [c \in Calls |-> 0]
  /\ used = [c \in Calls |-> NoToken]
  /\ wire = [c \in Calls |-> "none"]
  /\ grant = [c \in Calls |-> NoToken]
  /\ applied = [c \in Calls |-> 0]
  /\ outcome = [c \in Calls |-> "none"]
  /\ spent = [c \in Calls |-> {}]

----------------------------------------------------------------------------
(* Steps of a call.                                                        *)

\* authenticate sends get_token and awaits the answer.
Authenticate(c) ==
  /\ pc' = [pc EXCEPT ![c] = "auth"]
  /\ wire' = [wire EXCEPT ![c] = "getToken"]
  /\ UNCHANGED used

\* The request is encrypted with the key of token t and sent.
Send(c, t) ==
  /\ pc' = [pc EXCEPT ![c] = "write"]
  /\ wire' = [wire EXCEPT ![c] = "command"]
  /\ used' = [used EXCEPT ![c] = t]

Finish(c, o) ==
  /\ pc' = [pc EXCEPT ![c] = "done"]
  /\ outcome' = [outcome EXCEPT ![c] = o]

\* if (this.token === undefined) await this.refreshToken()
Attempt(c, t) == IF t = NoToken THEN Authenticate(c) ELSE Send(c, t)

Start(c) ==
  /\ pc[c] = "idle"
  /\ attempt' = [attempt EXCEPT ![c] = 1]
  /\ Attempt(c, token)
  /\ UNCHANGED <<token, minted, valid, grant, applied, outcome, spent>>

\* Mutant: a token obtained earlier by the call wins over the new one.
MutTokenGrantedKeepsOld(c) ==
  LET t == IF used[c] = NoToken THEN grant[c] ELSE used[c]
  IN  /\ pc[c] = "auth"
      /\ wire[c] = "granted"
      /\ token' = t
      /\ Send(c, t)
      /\ grant' = [grant EXCEPT ![c] = NoToken]
      /\ UNCHANGED <<minted, valid, attempt, applied, outcome, spent>>

\* get_token was granted: the token is stored and this call's request follows
\* in the same turn of the event loop.
TokenGranted(c) ==
  /\ pc[c] = "auth"
  /\ wire[c] = "granted"
  /\ token' = grant[c]
  /\ Send(c, grant[c])
  /\ grant' = [grant EXCEPT ![c] = NoToken]
  /\ UNCHANGED <<minted, valid, attempt, applied, outcome, spent>>

\* get_token was refused with an error code other than 136.  authenticate
\* looks at no other code: with Msg a text, the salts are undefined, md5.crypt
\* draws random ones, and a token the device never issued is stored and used.
TokenRefused(c) ==
  /\ pc[c] = "auth"
  /\ wire[c] = "refusal"
  /\ minted' = minted + 1
  /\ token' = minted + 1
  /\ Send(c, minted + 1)
  /\ UNCHANGED <<valid, attempt, grant, applied, outcome, spent>>

AuthOutcome(r) ==
  CASE r = "limit" -> "ERR_TOKEN_FETCH_IP_LIMIT"
    [] r = "malformed" -> "malformed"
    [] OTHER -> "ERR_READ_FAILED"

TokenFailed(c) ==
  /\ pc[c] = "auth"
  /\ wire[c] \in {"limit", "malformed", "garbled"}
  /\ Finish(c, AuthOutcome(wire[c]))
  /\ wire' = [wire EXCEPT ![c] = "none"]
  /\ UNCHANGED <<token, minted, valid, attempt, used, grant, applied, spent>>

\* The outcome of an answer that ends the call (expiry is treated below).
AnswerOutcome(c, r) ==
  CASE c \in Reboots -> IF r = "empty" THEN "null" ELSE "ERR_UNKNOWN_CODE"
    [] c \notin Reboots /\ r = "ok" -> "success"
    [] c \notin Reboots /\ r = "denied" ->
         IF c \in Downloads THEN "ERR_CODE" ELSE "notOK"
    [] c \notin Reboots /\ r = "plainError" -> "ERR_CODE"
    [] OTHER -> "garbled"

\* Mutant: requestWrite, too, overlooks the answer that is not encrypted.
MutTokenAfterOverlooksPlain(c, r) == IF r = "expired" THEN token ELSE NoToken

\* The stored token after an "expired" answer, which makes the code forget the
\* token whichever it is by now.  requestWriteOnce does so only for a decoded
\* answer, and keeps a token that a plain answer called expired.
TokenAfter(c, r) ==
  IF c \in NetworkCalls /\ r = "expired" THEN token ELSE NoToken

Answered(c) ==
  /\ pc[c] = "write"
  /\ wire[c] \in WriteAnswers
  /\ wire[c] \notin Expired \/ c \in Reboots
  /\ Finish(c, AnswerOutcome(c, wire[c]))
  /\ wire' = [wire EXCEPT ![c] = "none"]
  /\ UNCHANGED <<token, minted, valid, attempt, used, grant, applied, spent>>

\* Mutant: attempt <= 3 instead of attempt < 3.
MutExpiredRetryOffByOne(c) ==
  /\ pc[c] = "write"
  /\ wire[c] \in Expired
  /\ c \in Commands
  /\ token' = TokenAfter(c, wire[c])
  /\ attempt' = [attempt EXCEPT ![c] = @ + 1]
  /\ spent' = [spent EXCEPT ![c] = @ \union {used[c]}]
  /\ Attempt(c, TokenAfter(c, wire[c]))
  /\ UNCHANGED <<minted, valid, grant, applied, outcome>>

\* requestWrite forgets the token and goes round its loop.
ExpiredRetry(c) ==
  /\ pc[c] = "write"
  /\ wire[c] \in Expired
  /\ c \in Commands
  /\ attempt[c] < MaxAttempts
  /\ token' = TokenAfter(c, wire[c])
  /\ attempt' = [attempt EXCEPT ![c] = @ + 1]
  /\ spent' = [spent EXCEPT ![c] = @ \union {used[c]}]
  /\ Attempt(c, TokenAfter(c, wire[c]))
  /\ UNCHANGED <<minted, valid, grant, applied, outcome>>

ExpiredLast(c) ==
  /\ pc[c] = "write"
  /\ wire[c] \in Expired
  /\ \/ c \in NetworkCalls \union Downloads
     \/ c \in Commands /\ attempt[c] = MaxAttempts
  /\ token' = TokenAfter(c, wire[c])
  /\ spent' = [spent EXCEPT ![c] = @ \union {used[c]}]
  /\ Finish(c, "ERR_TOKEN_EXPIRED")
  /\ wire' = [wire EXCEPT ![c] = "none"]
  /\ UNCHANGED <<minted, valid, attempt, used, grant, applied>>

\* Mutant: a transport error is retried like an expired token.
MutSocketFailsRetries(c) ==
  /\ Waiting(c)
  /\ IF pc[c] = "write" /\ attempt[c] < MaxAttempts
     THEN Attempt(c, token) /\ attempt' = [attempt EXCEPT ![c] = @ + 1]
          /\ UNCHANGED outcome
     ELSE Finish(c, "ERR_IO") /\ wire' = [wire EXCEPT ![c] = "none"]
          /\ UNCHANGED <<attempt, used>>
  /\ grant' = [grant EXCEPT ![c] = NoToken]
  /\ UNCHANGED <<token, minted, valid, applied, spent>>

\* Mutant: the socket that asks for a token has no timeout.
MutSocketFailsOnlyInWrite(c) ==
  /\ pc[c] = "write"
  /\ Finish(c, "ERR_IO")
  /\ wire' = [wire EXCEPT ![c] = IF @ \in Requests THEN @ ELSE "none"]
  /\ grant' = [grant EXCEPT ![c] = NoToken]
  /\ UNCHANGED <<token, minted, valid, attempt, used, applied, spent>>

\* The socket times out or fails while the call waits; the promise rejects and
\* nothing is sent again.  A request on its way may still reach the device.
SocketFails(c) ==
  /\ Waiting(c)
  /\ Finish(c, IF pc[c] = "auth" THEN "ERR_READ_FAILED" ELSE "ERR_IO")
  /\ wire' = [wire EXCEPT ![c] = IF @ \in Requests THEN @ ELSE "none"]
  /\ grant' = [grant EXCEPT ![c] = NoToken]
  /\ UNCHANGED <<token, minted, valid, attempt, used, applied, spent>>

Settle(c) ==
  \/ TokenGranted(c) \/ TokenRefused(c) \/ TokenFailed(c)
  \/ Answered(c) \/ ExpiredRetry(c) \/ ExpiredLast(c) \/ SocketFails(c)

----------------------------------------------------------------------------
(* Steps of the device and the network.                                    *)

\* An answer reaches only a call that still waits for it.
Reply(c, answers) ==
  \E r \in answers : wire' = [wire EXCEPT ![c] = IF Waiting(c) THEN r ELSE "none"]

DeviceGrantsToken(c) ==
  /\ wire[c] = "getToken"
  /\ minted < MaxTokens
  /\ minted' = minted + 1
  /\ valid' = valid \union {minted + 1}
  /\ grant' = [grant EXCEPT ![c] = IF Waiting(c) THEN minted + 1 ELSE NoToken]
  /\ Reply(c, {"granted"})
  /\ UNCHANGED <<token, pc, attempt, used, applied, outcome, spent>>

DeviceDeniesToken(c) ==
  /\ wire[c] = "getToken"
  /\ Reply(c, AuthAnswers \ IF minted < MaxTokens THEN {"granted"}
                              ELSE {"granted", "refusal"})
  /\ UNCHANGED <<token, minted, valid, pc, attempt, used, grant, applied,
                 outcome, spent>>

\* The connection closes without an answer: what JSON.parse makes of it is
\* "garbled", so it is told apart only where the answer is not decoded.
NoAnswer(c) == IF c \in Reboots THEN {"empty"} ELSE {}

DeviceApplies(c) ==
  /\ wire[c] = "command"
  /\ used[c] \in valid
  /\ applied' = [applied EXCEPT ![c] = @ + 1]
  /\ Reply(c, {"none", "ok", "garbled"} \union NoAnswer(c))
  /\ UNCHANGED <<token, minted, valid, pc, attempt, used, grant, outcome, spent>>

DeviceRejects(c) ==
  /\ wire[c] = "command"
  /\ Reply(c, IF used[c] \in valid
              THEN {"none", "denied", "plainError", "garbled"} \union NoAnswer(c)
              ELSE {"none", "plainError", "garbled"} \union Expired \union NoAnswer(c))
  /\ UNCHANGED <<token, minted, valid, pc, attempt, used, grant, applied,
                 outcome, spent>>

DeviceForgets(t) ==
  /\ valid' = valid \ {t}
  /\ UNCHANGED <<token, minted, pc, attempt, used, wire, grant, applied,
                 outcome, spent>>

Device(c) ==
  DeviceGrantsToken(c) \/ DeviceDeniesToken(c) \/ DeviceApplies(c) \/ DeviceRejects(c)

----------------------------------------------------------------------------
Finished ==
  /\ \A c \in Calls : pc[c] = "done" /\ wire[c] = "none"
  /\ UNCHANGED vars

Next ==
  \/ \E c \in Calls : Start(c) \/ Settle(c) \/ Device(c)
  \/ \E t \in valid : DeviceForgets(t)
  \/ Finished

\* Every socket has a timeout: a waiting call is settled sooner or later,
\* whatever the device does.
Fairness == \A c \in Calls : WF_vars(Settle(c))

Spec == Init /\ [][Next]_vars /\ Fairness

----------------------------------------------------------------------------
(* Properties.                                                             *)

TypeOK ==
  /\ minted \in Nat
  /\ token \in 0 .. minted
  /\ valid \subseteq 1 .. minted
  /\ pc \in [Calls -> {"idle", "auth", "write", "done"}]
  /\ attempt \in [Calls -> 0 .. MaxAttempts]
  /\ used \in [Calls -> 0 .. minted]
  /\ wire \in [Calls -> Wires]
  /\ grant \in [Calls -> 0 .. minted]
  /\ applied \in [Calls -> Nat]
  /\ outcome \in [Calls -> Outcomes]
  /\ spent \in [Calls -> SUBSET (1 .. minted)]

\* What the caller may conclude from an outcome.
Verdict(c) ==
  CASE outcome[c] = "none" -> "none"
    [] outcome[c] = "success" -> "applied"
    [] outcome[c] \in NeverSent \union Refused -> "notApplied"
    [] OTHER -> "unknown"

Contract == INSTANCE WriteContract WITH
  issued <- {c \in Calls : pc[c] # "idle"},
  verdict <- [c \in Calls |-> Verdict(c)]

\* A command is carried out at most once, over all the requests of the retry
\* loop and the late arrival of an abandoned one; success is reported only for
\* a command that was carried out, and an error other than a transport or
\* decoding error only for one that was not and never will be.
KeepsContract == Contract!Spec

\* requestWrite gives up with ERR_TOKEN_EXPIRED only after the device refused
\* MaxAttempts different tokens: no attempt is wasted on a token that this call
\* knows to be dead, however the other calls store and clear the shared token.
ExpiredOnlyAfterThreeTokens ==
  \A c \in Commands :
    outcome[c] = "ERR_TOKEN_EXPIRED" => Cardinality(spent[c]) = MaxAttempts

\* A token that some call was told is dead is never stored again: an answer to
\* get_token that arrives late cannot bring it back.
DeadTokenNotRestored ==
  [][\A c \in Calls : token' \in spent[c] => token' = token]_vars

\* A call ends: it is answered, refused or times out, after MaxAttempts
\* requests at most.
Termination == \A c \in Calls : pc[c] # "idle" ~> pc[c] = "done"

\* mdk-contract.json: ERR_NETWORK_OUTCOME_UNKNOWN says that the connection
\* failed after the network settings were transmitted.
NetworkReport(c) ==
  IF outcome[c] \in {"garbled", "malformed"}
  THEN "ERR_NETWORK_OUTCOME_UNKNOWN" ELSE outcome[c]

UnknownOutcomeMeansTransmitted ==
  \A c \in NetworkCalls :
    NetworkReport(c) = "ERR_NETWORK_OUTCOME_UNKNOWN" => used[c] # NoToken
============================================================================
