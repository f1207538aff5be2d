-------------------------- MODULE V2SessionProofs --------------------------
(***************************************************************************)
(* Proofs about the API v2 session, for any number of concurrent calls of  *)
(* each kind.  The inductive invariant says, for one call at a time, which *)
(* messages can be in flight in each phase and what they say about the     *)
(* device; the only fact about two calls is that a token on its way to one *)
(* of them is unknown to every other.                                      *)
(***************************************************************************)
EXTENDS V2Session, FiniteSetTheorems, TLAPS

\* What may be in flight for a call in each phase.
Shape(c) ==
  /\ pc[c] = "idle" => /\ wire[c] = "none"
                       /\ spent[c] = {}
  /\ pc[c] = "auth" => wire[c] \in {"none", "getToken"} \union AuthAnswers
  /\ pc[c] = "write" => /\ wire[c] \in {"none", "command"} \union WriteAnswers
                        /\ used[c] # NoToken
  /\ pc[c] = "done" => wire[c] \in {"none"} \union Requests
  /\ pc[c] = "done" <=> outcome[c] # "none"

\* What the phase, the message in flight and the outcome say about the device.
Effect(c) ==
  /\ applied[c] \in {0, 1}
  /\ pc[c] \in {"idle", "auth"} => applied[c] = 0
  /\ wire[c] \in {"command", "denied", "plainError"} \union Expired => applied[c] = 0
  /\ wire[c] = "ok" => applied[c] = 1
  /\ outcome[c] = "success" => applied[c] = 1
  /\ outcome[c] \in NeverSent \union Refused => applied[c] = 0 /\ wire[c] # "command"

\* The tokens a retried command has used up.
Budget(c) ==
  c \in Commands =>
    /\ pc[c] \in {"auth", "write"} => attempt[c] = Cardinality(spent[c]) + 1
    /\ pc[c] = "write" => used[c] \notin spent[c]
    /\ outcome[c] = "ERR_TOKEN_EXPIRED" => Cardinality(spent[c]) = MaxAttempts

\* A token on its way to a call has not been stored, used or spent by any.
Fresh(c) ==
  /\ wire[c] = "granted" => grant[c] # NoToken
  /\ grant[c] # NoToken =>
       /\ grant[c] # token
       /\ \A d \in Calls : /\ grant[c] # used[d]
                           /\ grant[c] \notin spent[d]
                           /\ d # c => grant[c] # grant[d]

IndInv ==
  /\ TypeOK
  /\ \A c \in Calls : Shape(c) /\ Effect(c) /\ Budget(c) /\ Fresh(c)

----------------------------------------------------------------------------
(* Every step keeps the invariant: one lemma per action.                   *)

\* The tokens a call has spent are finitely many, so that one more token adds
\* one to their number.
LEMMA SpentGrows ==
  ASSUME TypeOK, NEW c \in Calls, NEW t, t \notin spent[c]
  PROVE  /\ Cardinality(spent[c]) \in Nat
         /\ Cardinality(spent[c] \union {t}) = Cardinality(spent[c]) + 1
<1>1. spent[c] \subseteq 1 .. minted /\ minted \in Nat
  BY DEF TypeOK
<1>2. IsFiniteSet(spent[c])
  <2>1. IsFiniteSet(1 .. minted)
    BY <1>1, FS_Interval
  <2> QED
    BY <1>1, <2>1, FS_Subset
<1>3. Cardinality(spent[c]) \in Nat
  BY <1>2, FS_CardinalityType
<1>4. Cardinality(spent[c] \union {t}) = Cardinality(spent[c]) + 1
  BY <1>2, FS_AddElement
<1> QED
  BY <1>3, <1>4

LEMMA StartStep ==
  ASSUME IndInv, NEW c \in Calls, Start(c)
  PROVE  IndInv'
<1> USE DEF NoToken, Expired, AuthAnswers, WriteAnswers, Requests, Wires, NeverSent, Refused, Unclear, Outcomes, MaxAttempts
<1>1. TypeOK'
  BY DEF IndInv, TypeOK, Start, Attempt, Authenticate, Send
<1>2. ASSUME NEW d \in Calls PROVE Shape(d)'
  BY DEF IndInv, TypeOK, Shape, Start, Attempt, Authenticate, Send
<1>3. ASSUME NEW d \in Calls PROVE Effect(d)'
  BY DEF IndInv, TypeOK, Shape, Effect, Start, Attempt, Authenticate, Send
<1>4. ASSUME NEW d \in Calls PROVE Budget(d)'
  <2>1. Cardinality({}) = 0
    BY FS_EmptySet
  <2>2. spent'[c] = {} /\ attempt'[c] = 1 /\ outcome'[c] = "none"
    BY DEF IndInv, TypeOK, Shape, Start
  <2>3. CASE d = c
    BY <2>1, <2>2, <2>3 DEF Budget
  <2>4. CASE d # c
    BY <2>4 DEF IndInv, TypeOK, Budget, Start, Attempt, Authenticate, Send
  <2> QED
    BY <2>3, <2>4
<1>5. ASSUME NEW d \in Calls PROVE Fresh(d)'
  BY DEF IndInv, TypeOK, Shape, Fresh, Start, Attempt, Authenticate, Send
<1> QED
  BY <1>1, <1>2, <1>3, <1>4, <1>5 DEF IndInv

LEMMA TokenGrantedStep ==
  ASSUME IndInv, NEW c \in Calls, TokenGranted(c)
  PROVE  IndInv'
<1> USE DEF NoToken, Expired, AuthAnswers, WriteAnswers, Requests, Wires, NeverSent, Refused, Unclear, Outcomes, MaxAttempts
<1>1. TypeOK'
  BY DEF IndInv, TypeOK, TokenGranted, Send
<1>2. ASSUME NEW d \in Calls PROVE Shape(d)'
  BY DEF IndInv, TypeOK, Shape, Fresh, TokenGranted, Send
<1>3. ASSUME NEW d \in Calls PROVE Effect(d)'
  BY DEF IndInv, TypeOK, Shape, Effect, TokenGranted, Send
<1>4. ASSUME NEW d \in Calls PROVE Budget(d)'
  BY DEF IndInv, TypeOK, Shape, Budget, Fresh, TokenGranted, Send
<1>5. ASSUME NEW d \in Calls PROVE Fresh(d)'
  BY DEF IndInv, TypeOK, Shape, Fresh, TokenGranted, Send
<1> QED
  BY <1>1, <1>2, <1>3, <1>4, <1>5 DEF IndInv

LEMMA TokenRefusedStep ==
  ASSUME IndInv, NEW c \in Calls, TokenRefused(c)
  PROVE  IndInv'
<1> USE DEF NoToken, Expired, AuthAnswers, WriteAnswers, Requests, Wires, NeverSent, Refused, Unclear, Outcomes, MaxAttempts
<1>1. TypeOK'
  BY DEF IndInv, TypeOK, TokenRefused, Send
<1>2. ASSUME NEW d \in Calls PROVE Shape(d)'
  BY DEF IndInv, TypeOK, Shape, TokenRefused, Send
<1>3. ASSUME NEW d \in Calls PROVE Effect(d)'
  BY DEF IndInv, TypeOK, Shape, Effect, TokenRefused, Send
<1>4. ASSUME NEW d \in Calls PROVE Budget(d)'
  BY DEF IndInv, TypeOK, Shape, Budget, Fresh, TokenRefused, Send
<1>5. ASSUME NEW d \in Calls PROVE Fresh(d)'
  BY DEF IndInv, TypeOK, Shape, Fresh, TokenRefused, Send
<1> QED
  BY <1>1, <1>2, <1>3, <1>4, <1>5 DEF IndInv

LEMMA TokenFailedStep ==
  ASSUME IndInv, NEW c \in Calls, TokenFailed(c)
  PROVE  IndInv'
<1> USE DEF NoToken, Expired, AuthAnswers, WriteAnswers, Requests, Wires, NeverSent, Refused, Unclear, Outcomes, MaxAttempts
<1>1. TypeOK'
  BY DEF IndInv, TypeOK, TokenFailed, Finish, AuthOutcome
<1>2. ASSUME NEW d \in Calls PROVE Shape(d)'
  BY DEF IndInv, TypeOK, Shape, TokenFailed, Finish, AuthOutcome
<1>3. ASSUME NEW d \in Calls PROVE Effect(d)'
  BY DEF IndInv, TypeOK, Shape, Effect, TokenFailed, Finish, AuthOutcome
<1>4. ASSUME NEW d \in Calls PROVE Budget(d)'
  BY DEF IndInv, TypeOK, Shape, Budget, Fresh, TokenFailed, Finish, AuthOutcome
<1>5. ASSUME NEW d \in Calls PROVE Fresh(d)'
  BY DEF IndInv, TypeOK, Shape, Fresh, TokenFailed, Finish, AuthOutcome
<1> QED
  BY <1>1, <1>2, <1>3, <1>4, <1>5 DEF IndInv

LEMMA AnsweredStep ==
  ASSUME IndInv, NEW c \in Calls, Answered(c)
  PROVE  IndInv'
<1> USE DEF NoToken, Expired, AuthAnswers, WriteAnswers, Requests, Wires, NeverSent, Refused, Unclear, Outcomes, MaxAttempts
<1>1. TypeOK'
  BY DEF IndInv, TypeOK, Answered, Finish, AnswerOutcome
<1>2. ASSUME NEW d \in Calls PROVE Shape(d)'
  BY DEF IndInv, TypeOK, Shape, Answered, Finish, AnswerOutcome
<1>3. ASSUME NEW d \in Calls PROVE Effect(d)'
  BY DEF IndInv, TypeOK, Shape, Effect, Answered, Finish, AnswerOutcome
<1>4. ASSUME NEW d \in Calls PROVE Budget(d)'
  BY DEF IndInv, TypeOK, Shape, Budget, Fresh, Answered, Finish, AnswerOutcome
<1>5. ASSUME NEW d \in Calls PROVE Fresh(d)'
  BY DEF IndInv, TypeOK, Shape, Fresh, Answered, Finish, AnswerOutcome
<1> QED
  BY <1>1, <1>2, <1>3, <1>4, <1>5 DEF IndInv

LEMMA ExpiredRetryStep ==
  ASSUME IndInv, NEW c \in Calls, ExpiredRetry(c)
  PROVE  IndInv'
<1> USE DEF NoToken, Expired, AuthAnswers, WriteAnswers, Requests, Wires, NeverSent, Refused, Unclear, Outcomes, MaxAttempts
<1>1. TypeOK'
  BY DEF IndInv, TypeOK, Shape, ExpiredRetry, Attempt, Authenticate, Send, TokenAfter
<1>2. ASSUME NEW d \in Calls PROVE Shape(d)'
  BY DEF IndInv, TypeOK, Shape, ExpiredRetry, Attempt, Authenticate, Send, TokenAfter
<1>3. ASSUME NEW d \in Calls PROVE Effect(d)'
  BY DEF IndInv, TypeOK, Shape, Effect, ExpiredRetry, Attempt, Authenticate, Send, TokenAfter
<1>4. ASSUME NEW d \in Calls PROVE Budget(d)'
  <2>1. CASE d = c
    <3>1. c \in Commands /\ c \notin NetworkCalls
      BY KindsAreDisjoint DEF ExpiredRetry
    <3>2. Cardinality(spent'[c]) = Cardinality(spent[c]) + 1
      BY <3>1, SpentGrows DEF IndInv, TypeOK, Budget, ExpiredRetry
    <3>3. pc'[c] = "auth" /\ attempt'[c] = attempt[c] + 1 /\ outcome'[c] = "none"
      BY <3>1 DEF IndInv, TypeOK, Shape, ExpiredRetry, Attempt, Authenticate, TokenAfter
    <3> QED
      BY <2>1, <3>1, <3>2, <3>3 DEF IndInv, TypeOK, Budget, ExpiredRetry
  <2>2. CASE d # c
    BY <2>2 DEF IndInv, TypeOK, Budget, ExpiredRetry, Attempt, Authenticate, Send, TokenAfter
  <2> QED
    BY <2>1, <2>2
<1>5. ASSUME NEW d \in Calls PROVE Fresh(d)'
  BY DEF IndInv, TypeOK, Shape, Fresh, ExpiredRetry, Attempt, Authenticate, Send, TokenAfter
<1> QED
  BY <1>1, <1>2, <1>3, <1>4, <1>5 DEF IndInv

LEMMA ExpiredLastStep ==
  ASSUME IndInv, NEW c \in Calls, ExpiredLast(c)
  PROVE  IndInv'
<1> USE DEF NoToken, Expired, AuthAnswers, WriteAnswers, Requests, Wires, NeverSent, Refused, Unclear, Outcomes, MaxAttempts
<1>1. TypeOK'
  BY DEF IndInv, TypeOK, Shape, ExpiredLast, Finish, TokenAfter
<1>2. ASSUME NEW d \in Calls PROVE Shape(d)'
  BY DEF IndInv, TypeOK, Shape, ExpiredLast, Finish, TokenAfter
<1>3. ASSUME NEW d \in Calls PROVE Effect(d)'
  BY DEF IndInv, TypeOK, Shape, Effect, ExpiredLast, Finish, TokenAfter
<1>4. ASSUME NEW d \in Calls PROVE Budget(d)'
  <2>1. CASE d = c /\ c \in Commands
    <3>1. Cardinality(spent'[c]) = Cardinality(spent[c]) + 1
      BY <2>1, SpentGrows DEF IndInv, TypeOK, Budget, ExpiredLast
    <3>2. attempt[c] = MaxAttempts /\ pc'[c] = "done"
      BY <2>1, KindsAreDisjoint DEF IndInv, TypeOK, ExpiredLast, Finish
    <3> QED
      BY <2>1, <3>1, <3>2 DEF IndInv, TypeOK, Budget, ExpiredLast
  <2>2. CASE d # c
    BY <2>2 DEF IndInv, TypeOK, Budget, ExpiredLast, Finish, TokenAfter
  <2> QED
    BY <2>1, <2>2 DEF Budget
<1>5. ASSUME NEW d \in Calls PROVE Fresh(d)'
  BY DEF IndInv, TypeOK, Shape, Fresh, ExpiredLast, Finish, TokenAfter
<1> QED
  BY <1>1, <1>2, <1>3, <1>4, <1>5 DEF IndInv

LEMMA SocketFailsStep ==
  ASSUME IndInv, NEW c \in Calls, SocketFails(c)
  PROVE  IndInv'
<1> USE DEF NoToken, Expired, AuthAnswers, WriteAnswers, Requests, Wires, NeverSent, Refused, Unclear, Outcomes, MaxAttempts
<1>1. TypeOK'
  BY DEF IndInv, TypeOK, SocketFails, Finish, Waiting
<1>2. ASSUME NEW d \in Calls PROVE Shape(d)'
  BY DEF IndInv, TypeOK, Shape, SocketFails, Finish, Waiting
<1>3. ASSUME NEW d \in Calls PROVE Effect(d)'
  BY DEF IndInv, TypeOK, Shape, Effect, SocketFails, Finish, Waiting
<1>4. ASSUME NEW d \in Calls PROVE Budget(d)'
  BY DEF IndInv, TypeOK, Shape, Budget, Fresh, SocketFails, Finish, Waiting
<1>5. ASSUME NEW d \in Calls PROVE Fresh(d)'
  BY DEF IndInv, TypeOK, Shape, Fresh, SocketFails, Finish, Waiting
<1> QED
  BY <1>1, <1>2, <1>3, <1>4, <1>5 DEF IndInv

LEMMA DeviceGrantsTokenStep ==
  ASSUME IndInv, NEW c \in Calls, DeviceGrantsToken(c)
  PROVE  IndInv'
<1> USE DEF NoToken, Expired, AuthAnswers, WriteAnswers, Requests, Wires, NeverSent, Refused, Unclear, Outcomes, MaxAttempts
<1>1. TypeOK'
  BY DEF IndInv, TypeOK, DeviceGrantsToken, Reply, Waiting
<1>2. ASSUME NEW d \in Calls PROVE Shape(d)'
  BY DEF IndInv, TypeOK, Shape, DeviceGrantsToken, Reply, Waiting
<1>3. ASSUME NEW d \in Calls PROVE Effect(d)'
  BY DEF IndInv, TypeOK, Shape, Effect, DeviceGrantsToken, Reply, Waiting
<1>4. ASSUME NEW d \in Calls PROVE Budget(d)'
  BY DEF IndInv, TypeOK, Shape, Budget, Fresh, DeviceGrantsToken, Reply, Waiting
<1>5. ASSUME NEW d \in Calls PROVE Fresh(d)'
  BY DEF IndInv, TypeOK, Shape, Fresh, DeviceGrantsToken, Reply, Waiting
<1> QED
  BY <1>1, <1>2, <1>3, <1>4, <1>5 DEF IndInv

LEMMA DeviceDeniesTokenStep ==
  ASSUME IndInv, NEW c \in Calls, DeviceDeniesToken(c)
  PROVE  IndInv'
<1> USE DEF NoToken, Expired, AuthAnswers, WriteAnswers, Requests, Wires, NeverSent, Refused, Unclear, Outcomes, MaxAttempts
<1>1. TypeOK'
  BY DEF IndInv, TypeOK, DeviceDeniesToken, Reply, Waiting
<1>2. ASSUME NEW d \in Calls PROVE Shape(d)'
  BY DEF IndInv, TypeOK, Shape, DeviceDeniesToken, Reply, Waiting
<1>3. ASSUME NEW d \in Calls PROVE Effect(d)'
  BY DEF IndInv, TypeOK, Shape, Effect, DeviceDeniesToken, Reply, Waiting
<1>4. ASSUME NEW d \in Calls PROVE Budget(d)'
  BY DEF IndInv, TypeOK, Shape, Budget, Fresh, DeviceDeniesToken, Reply, Waiting
<1>5. ASSUME NEW d \in Calls PROVE Fresh(d)'
  BY DEF IndInv, TypeOK, Shape, Fresh, DeviceDeniesToken, Reply, Waiting
<1> QED
  BY <1>1, <1>2, <1>3, <1>4, <1>5 DEF IndInv

LEMMA DeviceAppliesStep ==
  ASSUME IndInv, NEW c \in Calls, DeviceApplies(c)
  PROVE  IndInv'
<1> USE DEF NoToken, Expired, AuthAnswers, WriteAnswers, Requests, Wires, NeverSent, Refused, Unclear, Outcomes, MaxAttempts
<1>1. TypeOK'
  BY DEF IndInv, TypeOK, DeviceApplies, Reply, Waiting, NoAnswer
<1>2. ASSUME NEW d \in Calls PROVE Shape(d)'
  BY DEF IndInv, TypeOK, Shape, DeviceApplies, Reply, Waiting, NoAnswer
<1>3. ASSUME NEW d \in Calls PROVE Effect(d)'
  BY DEF IndInv, TypeOK, Shape, Effect, DeviceApplies, Reply, Waiting, NoAnswer
<1>4. ASSUME NEW d \in Calls PROVE Budget(d)'
  BY DEF IndInv, TypeOK, Shape, Budget, Fresh, DeviceApplies, Reply, Waiting, NoAnswer
<1>5. ASSUME NEW d \in Calls PROVE Fresh(d)'
  BY DEF IndInv, TypeOK, Shape, Fresh, DeviceApplies, Reply, Waiting, NoAnswer
<1> QED
  BY <1>1, <1>2, <1>3, <1>4, <1>5 DEF IndInv

LEMMA DeviceRejectsStep ==
  ASSUME IndInv, NEW c \in Calls, DeviceRejects(c)
  PROVE  IndInv'
<1> USE DEF NoToken, Expired, AuthAnswers, WriteAnswers, Requests, Wires, NeverSent, Refused, Unclear, Outcomes, MaxAttempts
<1>1. TypeOK'
  BY DEF IndInv, TypeOK, DeviceRejects, Reply, Waiting, NoAnswer
<1>2. ASSUME NEW d \in Calls PROVE Shape(d)'
  BY DEF IndInv, TypeOK, Shape, DeviceRejects, Reply, Waiting, NoAnswer
<1>3. ASSUME NEW d \in Calls PROVE Effect(d)'
  BY DEF IndInv, TypeOK, Shape, Effect, DeviceRejects, Reply, Waiting, NoAnswer
<1>4. ASSUME NEW d \in Calls PROVE Budget(d)'
  BY DEF IndInv, TypeOK, Shape, Budget, Fresh, DeviceRejects, Reply, Waiting, NoAnswer
<1>5. ASSUME NEW d \in Calls PROVE Fresh(d)'
  BY DEF IndInv, TypeOK, Shape, Fresh, DeviceRejects, Reply, Waiting, NoAnswer
<1> QED
  BY <1>1, <1>2, <1>3, <1>4, <1>5 DEF IndInv

LEMMA DeviceForgetsStep ==
  ASSUME IndInv, NEW t, DeviceForgets(t)
  PROVE  IndInv'
<1>1. /\ UNCHANGED <<token, minted, pc, attempt, used, wire, grant, applied,
                      outcome, spent>>
      /\ valid' \subseteq valid
  BY DEF DeviceForgets
<1>2. TypeOK'
  BY <1>1 DEF IndInv, TypeOK
<1>3. ASSUME NEW c \in Calls PROVE (Shape(c) /\ Effect(c) /\ Budget(c))'
  BY <1>1 DEF IndInv, Shape, Effect, Budget
<1>4. ASSUME NEW c \in Calls PROVE Fresh(c)'
  BY <1>1 DEF IndInv, Fresh
<1> QED BY <1>2, <1>3, <1>4 DEF IndInv

LEMMA InitInv == Init => IndInv
<1> SUFFICES ASSUME Init PROVE IndInv
  OBVIOUS
<1> USE DEF NoToken, Expired, AuthAnswers, WriteAnswers, Requests, Wires, NeverSent,
            Refused, Unclear, Outcomes, MaxAttempts
<1>1. TypeOK
  BY DEF Init, TypeOK
<1>2. ASSUME NEW c \in Calls PROVE Shape(c) /\ Effect(c) /\ Budget(c) /\ Fresh(c)
  BY DEF Init, Shape, Effect, Budget, Fresh
<1> QED
  BY <1>1, <1>2 DEF IndInv

LEMMA NextInv == IndInv /\ [Next]_vars => IndInv'
<1> SUFFICES ASSUME IndInv, [Next]_vars PROVE IndInv'
  OBVIOUS
<1>1. ASSUME NEW c \in Calls, Start(c) PROVE IndInv'
  BY <1>1, StartStep
<1>2. ASSUME NEW c \in Calls, Settle(c) PROVE IndInv'
  BY <1>2, TokenGrantedStep, TokenRefusedStep, TokenFailedStep, AnsweredStep,
     ExpiredRetryStep, ExpiredLastStep, SocketFailsStep DEF Settle
<1>3. ASSUME NEW c \in Calls, Device(c) PROVE IndInv'
  BY <1>3, DeviceGrantsTokenStep, DeviceDeniesTokenStep, DeviceAppliesStep,
     DeviceRejectsStep DEF Device
<1>4. ASSUME NEW t \in valid, DeviceForgets(t) PROVE IndInv'
  BY <1>4, DeviceForgetsStep
<1>5. CASE UNCHANGED vars
  BY <1>5 DEF vars, IndInv, TypeOK, Shape, Effect, Budget, Fresh
<1> QED
  BY <1>1, <1>2, <1>3, <1>4, <1>5 DEF Next, Finished

\* The invariant holds in every reachable state, for any number of calls.
THEOREM Invariance == Spec => []IndInv
  BY InitInv, NextInv, PTL DEF Spec

----------------------------------------------------------------------------
(* The properties.                                                         *)

\* Type correctness of the session.
THEOREM TypeCorrect == Spec => []TypeOK
  BY Invariance, PTL DEF IndInv

\* requestWrite reports an expired token only when three different tokens were
\* refused, whatever the concurrent calls do with the shared one.
THEOREM ThreeTokens == Spec => []ExpiredOnlyAfterThreeTokens
<1>1. IndInv => ExpiredOnlyAfterThreeTokens
  BY DEF IndInv, Budget, ExpiredOnlyAfterThreeTokens, Calls
<1> QED
  BY <1>1, Invariance, PTL

\* A dead token never comes back: whatever a step stores in the session, no
\* call has been told that it expired.
THEOREM NotRestored == Spec => DeadTokenNotRestored
<1> DEFINE Keeps == \A c \in Calls : token' \in spent[c] => token' = token
<1>1. IndInv /\ [Next]_vars => [Keeps]_vars
  <2> SUFFICES ASSUME IndInv, Next, NEW d \in Calls, token' \in spent[d]
               PROVE  token' = token
    BY DEF vars
  <2>1. spent[d] \subseteq 1 .. minted /\ minted \in Nat
    BY DEF IndInv, TypeOK
  <2>2. ASSUME NEW c \in Calls, Settle(c) PROVE token' = token
    <3>1. CASE TokenGranted(c)
      BY <3>1 DEF IndInv, Fresh, TokenGranted
    <3>2. CASE TokenRefused(c)
      BY <3>2, <2>1 DEF TokenRefused
    <3>3. CASE ExpiredRetry(c) \/ ExpiredLast(c)
      BY <3>3, <2>1 DEF ExpiredRetry, ExpiredLast, TokenAfter, NoToken
    <3> QED
      BY <2>2, <3>1, <3>2, <3>3 DEF Settle, TokenFailed, Answered, SocketFails
  <2> QED
    BY <2>2 DEF Next, Start, Device, DeviceGrantsToken, DeviceDeniesToken,
                DeviceApplies, DeviceRejects, DeviceForgets, Finished, vars
<1> QED
  BY <1>1, Invariance, PTL DEF Spec, DeadTokenNotRestored

----------------------------------------------------------------------------
(* The session keeps the contract: every step of the session is a step of  *)
(* WriteContract or leaves its variables unchanged.                        *)

\* A step that leaves applied and outcome alone, and starts no call, is hidden.
LEMMA HiddenStep ==
  ASSUME UNCHANGED <<applied, outcome>>,
         \A c \in Calls : pc'[c] = "idle" <=> pc[c] = "idle"
  PROVE  UNCHANGED Contract!vars
BY DEF Contract!vars, Verdict

LEMMA IssueStep ==
  ASSUME IndInv, NEW c \in Calls, Start(c)
  PROVE  Contract!Issue(c)
<1>1. \A d \in Calls : pc'[d] = "idle" <=> pc[d] = "idle" /\ d # c
  BY DEF IndInv, TypeOK, Start, Attempt, Authenticate, Send
<1> QED
  BY <1>1 DEF Start, Contract!Issue, Verdict

LEMMA ApplyStep ==
  ASSUME IndInv, NEW c \in Calls, DeviceApplies(c)
  PROVE  Contract!Apply(c)
<1>1. applied[c] = 0 /\ pc[c] # "idle" /\ Verdict(c) \in {"none", "unknown"}
  BY DEF IndInv, TypeOK, Shape, Effect, DeviceApplies, Verdict,
         NeverSent, Refused, Unclear, Outcomes
<1>2. UNCHANGED <<pc, outcome>> /\ applied' = [applied EXCEPT ![c] = 1]
  BY <1>1 DEF DeviceApplies
<1> QED
  BY <1>1, <1>2 DEF Contract!Apply, Verdict

\* A step that ends a call reports the verdict of its outcome.
LEMMA ReportStep ==
  ASSUME IndInv, IndInv', NEW c \in Calls, pc[c] \in {"auth", "write"},
         NEW o, Finish(c, o), applied' = applied
  PROVE  Contract!Report(c)
<1>1. /\ pc'[c] = "done" /\ outcome[c] = "none" /\ outcome'[c] = o
      /\ \A d \in Calls : d # c => outcome'[d] = outcome[d]
      /\ \A d \in Calls : pc'[d] = "idle" <=> pc[d] = "idle"
  BY DEF IndInv, TypeOK, Shape, Finish
<1>2. o \in Outcomes \ {"none"}
  BY <1>1 DEF IndInv, TypeOK, Shape
<1> DEFINE v == Verdict(c)'
<1>3. v \in {"applied", "notApplied", "unknown"}
  BY <1>1, <1>2 DEF Verdict, Outcomes
<1>4. (v = "applied" => applied[c] = 1) /\ (v = "notApplied" => applied[c] = 0)
  BY <1>1, <1>2 DEF IndInv, Effect, Verdict, Outcomes, NeverSent, Refused, Unclear
<1>5. Verdict(c) = "none"
  BY <1>1 DEF Verdict, NeverSent, Refused
<1>6. [d \in Calls |-> Verdict(d)]' = [[d \in Calls |-> Verdict(d)] EXCEPT ![c] = v]
  <2>1. \A d \in Calls : d # c => Verdict(d)' = Verdict(d)
    BY <1>1 DEF Verdict
  <2> QED
    BY <2>1
<1> QED
  BY <1>1, <1>3, <1>4, <1>5, <1>6 DEF Contract!Report, Contract!Truthful, Contract!Verdicts

LEMMA ContractStep ==
  ASSUME IndInv, IndInv', Next
  PROVE  [Contract!Next]_Contract!vars
<1>1. ASSUME NEW c \in Calls, Start(c) PROVE Contract!Next
  BY <1>1, IssueStep DEF Contract!Next
<1>2. ASSUME NEW c \in Calls, Settle(c) PROVE [Contract!Next]_Contract!vars
  <2>1. CASE TokenGranted(c) \/ TokenRefused(c)
    BY <2>1, HiddenStep DEF IndInv, TypeOK, TokenGranted, TokenRefused, Send
  <2>2. CASE ExpiredRetry(c)
    BY <2>2, HiddenStep DEF IndInv, TypeOK, ExpiredRetry, Attempt, Authenticate, Send
  <2>3. CASE TokenFailed(c)
    BY <2>3, ReportStep DEF TokenFailed, Contract!Next
  <2>4. CASE Answered(c)
    BY <2>4, ReportStep DEF Answered, Contract!Next
  <2>5. CASE ExpiredLast(c)
    BY <2>5, ReportStep DEF ExpiredLast, Contract!Next
  <2>6. CASE SocketFails(c)
    BY <2>6, ReportStep DEF SocketFails, Waiting, Contract!Next
  <2> QED
    BY <1>2, <2>1, <2>2, <2>3, <2>4, <2>5, <2>6 DEF Settle
<1>3. ASSUME NEW c \in Calls, Device(c) PROVE [Contract!Next]_Contract!vars
  <2>1. CASE DeviceApplies(c)
    BY <2>1, ApplyStep DEF Contract!Next
  <2>2. CASE ~DeviceApplies(c)
    BY <1>3, <2>2, HiddenStep DEF Device, DeviceGrantsToken, DeviceDeniesToken, DeviceRejects
  <2> QED
    BY <2>1, <2>2
<1>4. ASSUME NEW t \in valid, DeviceForgets(t) PROVE UNCHANGED Contract!vars
  BY <1>4, HiddenStep DEF DeviceForgets
<1>5. CASE Finished
  BY <1>5, HiddenStep DEF Finished, vars
<1> QED
  BY <1>1, <1>2, <1>3, <1>4, <1>5 DEF Next

\* Every behaviour of the session is one the contract allows: a command is
\* carried out at most once over retries and late arrivals, and no definite
\* outcome is ever wrong.
THEOREM Contracted == Spec => KeepsContract
<1>1. Init => Contract!Init
  BY DEF Init, Contract!Init, Verdict, NeverSent, Refused
<1>2. IndInv /\ IndInv' /\ [Next]_vars => [Contract!Next]_Contract!vars
  <2>1. CASE Next
    BY <2>1, ContractStep
  <2>2. CASE UNCHANGED vars
    BY <2>2, HiddenStep DEF vars
  <2> QED
    BY <2>1, <2>2
<1> QED
  BY <1>1, <1>2, Invariance, PTL DEF Spec, KeepsContract, Contract!Spec
============================================================================
