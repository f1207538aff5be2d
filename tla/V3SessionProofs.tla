-------------------------- MODULE V3SessionProofs --------------------------
(***************************************************************************)
(* Proofs about the API v3 session, for any number of concurrent calls and *)
(* of salts: it implements WriteContract, and a salt that was refused as   *)
(* out of date does not survive.                                           *)
(***************************************************************************)
EXTENDS V3Session, TLAPS

\* What may be in flight for a call in each phase.
Shape(c) ==
  /\ pc[c] = "idle" => wire[c] = "none" /\ step[c] = 1
  /\ pc[c] = "auth" => wire[c] \in {"none", "getSalt"} \union AuthAnswers
  /\ pc[c] = "write" => /\ wire[c] \in {"none", "command"} \union WriteAnswers
                        /\ used[c] # NoSalt
  /\ pc[c] = "done" => wire[c] \in {"none"} \union Requests
  /\ wire[c] = "salt" => offer[c] # NoSalt
  /\ pc[c] = "done" <=> outcome[c] # "none"
  /\ step[c] \in Steps(c)
  /\ outcome[c] = "success" => step[c] = LastStep(c)

\* What the phase, the message in flight and the outcome say about the miner:
\* the writes before the current one were carried out, those after it were not.
Effect(c) ==
  /\ \A s \in Steps(c) : /\ applied[c][s] \in {0, 1}
                         /\ s < step[c] => applied[c][s] = 1
                         /\ s > step[c] => applied[c][s] = 0
  /\ pc[c] \in {"idle", "auth"} => applied[c][step[c]] = 0
  /\ wire[c] = "command" => applied[c][step[c]] = 0
  /\ wire[c] \in {"denied", "error"} => applied[c][step[c]] = 0
  /\ wire[c] = "ok" => applied[c][step[c]] = 1
  /\ outcome[c] = "success" => applied[c][step[c]] = 1
  /\ outcome[c] \in NeverSent \union Refused =>
       applied[c][step[c]] = 0 /\ wire[c] # "command"

\* A call is about to learn that the stored salt is out of date, or was told
\* nothing it could read: the miner can only refuse its write.
Refutes(c) ==
  \/ outcome[c] \in Unclear
  \/ pc[c] = "write" /\ used[c] = salt /\ wire[c] \in {"none", "command", "denied", "garbled"}

Doubted ==
  /\ minerSalt \notin stale
  /\ salt \in stale => \E c \in Calls : Refutes(c)

\* TypeOK speaks of the values of applied; this makes it a function on the calls.
Counts == applied = [c \in Calls |-> applied[c]]

IndInv ==
  /\ TypeOK /\ Counts
  /\ \A c \in Calls : Shape(c) /\ Effect(c)
  /\ Doubted

----------------------------------------------------------------------------
(* Every step keeps the invariant: one lemma per action.                   *)

LEMMA StepsOf ==
  ASSUME NEW c \in Calls
  PROVE  /\ 1 \in Steps(c) /\ LastStep(c) \in Steps(c) /\ Steps(c) \subseteq 1 .. 2
         /\ \A s \in Steps(c) : s # LastStep(c) => s = 1 /\ LastStep(c) = 2
BY DEF Steps, LastStep

LEMMA InitInv == ASSUME Init PROVE IndInv
<1> USE DEF NoSalt, AuthAnswers, WriteAnswers, Requests, NeverSent, Refused, Unclear, Outcomes
<1>1. TypeOK
  BY MaxSaltIsPositive DEF Init, TypeOK
<1>2. ASSUME NEW c \in Calls PROVE Shape(c) /\ Effect(c)
  BY StepsOf DEF Init, Shape, Effect
<1>3. Doubted
  BY DEF Init, Doubted
<1>4. Counts
  BY DEF Init, Counts
<1> QED BY <1>1, <1>2, <1>3, <1>4 DEF IndInv

LEMMA StartStep ==
  ASSUME IndInv, NEW c \in Calls, Start(c)
  PROVE  IndInv'
<1> USE DEF NoSalt, AuthAnswers, WriteAnswers, Requests, NeverSent, Refused, Unclear, Outcomes
<1>1. TypeOK'
  BY DEF IndInv, TypeOK, Start, Write, Authenticate, Send
<1>2. ASSUME NEW d \in Calls PROVE Shape(d)'
  BY DEF IndInv, TypeOK, Shape, Start, Write, Authenticate, Send
<1>3. ASSUME NEW d \in Calls PROVE Effect(d)'
  BY DEF IndInv, TypeOK, Shape, Effect, Start, Write, Authenticate, Send
<1>4. Doubted'
  BY DEF IndInv, TypeOK, Shape, Effect, Doubted, Refutes, Start, Write, Authenticate, Send
<1>5. Counts'
  BY DEF IndInv, Counts, Start
<1> QED BY <1>1, <1>2, <1>3, <1>4, <1>5 DEF IndInv

LEMMA SaltArrivesStep ==
  ASSUME IndInv, NEW c \in Calls, SaltArrives(c)
  PROVE  IndInv'
<1> USE DEF NoSalt, AuthAnswers, WriteAnswers, Requests, NeverSent, Refused, Unclear, Outcomes
<1>1. TypeOK'
  BY DEF IndInv, TypeOK, SaltArrives, Send
<1>2. ASSUME NEW d \in Calls PROVE Shape(d)'
  BY DEF IndInv, TypeOK, Shape, SaltArrives, Send
<1>3. ASSUME NEW d \in Calls PROVE Effect(d)'
  BY DEF IndInv, TypeOK, Shape, Effect, SaltArrives, Send
<1>4. Doubted'
  BY DEF IndInv, TypeOK, Shape, Effect, Doubted, Refutes, SaltArrives, Send
<1>5. Counts'
  BY DEF IndInv, Counts, SaltArrives
<1> QED BY <1>1, <1>2, <1>3, <1>4, <1>5 DEF IndInv

LEMMA AuthFailsStep ==
  ASSUME IndInv, NEW c \in Calls, AuthFails(c)
  PROVE  IndInv'
<1> USE DEF NoSalt, AuthAnswers, WriteAnswers, Requests, NeverSent, Refused, Unclear, Outcomes
<1>1. TypeOK'
  BY DEF IndInv, TypeOK, AuthFails, Finish, AuthOutcome
<1>2. ASSUME NEW d \in Calls PROVE Shape(d)'
  BY DEF IndInv, TypeOK, Shape, AuthFails, Finish, AuthOutcome
<1>3. ASSUME NEW d \in Calls PROVE Effect(d)'
  BY DEF IndInv, TypeOK, Shape, Effect, AuthFails, Finish, AuthOutcome
<1>4. Doubted'
  BY DEF IndInv, TypeOK, Shape, Effect, Doubted, Refutes, AuthFails, Finish, AuthOutcome
<1>5. Counts'
  BY DEF IndInv, Counts, AuthFails
<1> QED BY <1>1, <1>2, <1>3, <1>4, <1>5 DEF IndInv

LEMMA AcceptedStep ==
  ASSUME IndInv, NEW c \in Calls, Accepted(c)
  PROVE  IndInv'
<1> USE DEF NoSalt, AuthAnswers, WriteAnswers, Requests, NeverSent, Refused, Unclear, Outcomes
<1>1. TypeOK'
  BY StepsOf DEF IndInv, TypeOK, Shape, Accepted, Finish, Write, Authenticate, Send
<1>2. ASSUME NEW d \in Calls PROVE Shape(d)'
  BY StepsOf DEF IndInv, TypeOK, Shape, Accepted, Finish, Write, Authenticate, Send
<1>3. ASSUME NEW d \in Calls PROVE Effect(d)'
  BY StepsOf DEF IndInv, TypeOK, Shape, Effect, Accepted, Finish, Write, Authenticate, Send
<1>4. Doubted'
  BY StepsOf DEF IndInv, TypeOK, Shape, Effect, Doubted, Refutes, Accepted, Finish, Write, Authenticate, Send
<1>5. Counts'
  BY DEF IndInv, Counts, Accepted
<1> QED BY <1>1, <1>2, <1>3, <1>4, <1>5 DEF IndInv

LEMMA RejectedStep ==
  ASSUME IndInv, NEW c \in Calls, Rejected(c)
  PROVE  IndInv'
<1> USE DEF NoSalt, AuthAnswers, WriteAnswers, Requests, NeverSent, Refused, Unclear, Outcomes
<1>1. TypeOK'
  BY DEF IndInv, TypeOK, Shape, Rejected, Finish, WriteOutcome, SaltAfter
<1>2. ASSUME NEW d \in Calls PROVE Shape(d)'
  BY DEF IndInv, TypeOK, Shape, Rejected, Finish, WriteOutcome, SaltAfter
<1>3. ASSUME NEW d \in Calls PROVE Effect(d)'
  BY DEF IndInv, TypeOK, Shape, Effect, Rejected, Finish, WriteOutcome, SaltAfter
<1>4. Doubted'
  BY DEF IndInv, TypeOK, Shape, Effect, Doubted, Refutes, Rejected, Finish, WriteOutcome, SaltAfter
<1>5. Counts'
  BY DEF IndInv, Counts, Rejected
<1> QED BY <1>1, <1>2, <1>3, <1>4, <1>5 DEF IndInv

LEMMA SocketFailsStep ==
  ASSUME IndInv, NEW c \in Calls, SocketFails(c)
  PROVE  IndInv'
<1> USE DEF NoSalt, AuthAnswers, WriteAnswers, Requests, NeverSent, Refused, Unclear, Outcomes
<1>1. TypeOK'
  BY DEF IndInv, TypeOK, SocketFails, Finish, Waiting
<1>2. ASSUME NEW d \in Calls PROVE Shape(d)'
  BY DEF IndInv, TypeOK, Shape, SocketFails, Finish, Waiting
<1>3. ASSUME NEW d \in Calls PROVE Effect(d)'
  BY DEF IndInv, TypeOK, Shape, Effect, SocketFails, Finish, Waiting
<1>4. Doubted'
  BY DEF IndInv, TypeOK, Shape, Effect, Doubted, Refutes, SocketFails, Finish, Waiting
<1>5. Counts'
  BY DEF IndInv, Counts, SocketFails
<1> QED BY <1>1, <1>2, <1>3, <1>4, <1>5 DEF IndInv

LEMMA OffersSaltStep ==
  ASSUME IndInv, NEW c \in Calls, MinerOffersSalt(c)
  PROVE  IndInv'
<1> USE DEF NoSalt, AuthAnswers, WriteAnswers, Requests, NeverSent, Refused, Unclear, Outcomes
<1>1. TypeOK'
  BY DEF IndInv, TypeOK, MinerOffersSalt, Waiting
<1>2. ASSUME NEW d \in Calls PROVE Shape(d)'
  BY DEF IndInv, TypeOK, Shape, MinerOffersSalt, Waiting
<1>3. ASSUME NEW d \in Calls PROVE Effect(d)'
  BY DEF IndInv, TypeOK, Shape, Effect, MinerOffersSalt, Waiting
<1>4. Doubted'
  BY DEF IndInv, TypeOK, Shape, Effect, Doubted, Refutes, MinerOffersSalt, Waiting
<1>5. Counts'
  BY DEF IndInv, Counts, MinerOffersSalt
<1> QED BY <1>1, <1>2, <1>3, <1>4, <1>5 DEF IndInv

LEMMA OffersNoneStep ==
  ASSUME IndInv, NEW c \in Calls, MinerOffersNone(c)
  PROVE  IndInv'
<1> USE DEF NoSalt, AuthAnswers, WriteAnswers, Requests, NeverSent, Refused, Unclear, Outcomes
<1>1. TypeOK'
  BY DEF IndInv, TypeOK, MinerOffersNone, Reply, Waiting
<1>2. ASSUME NEW d \in Calls PROVE Shape(d)'
  BY DEF IndInv, TypeOK, Shape, MinerOffersNone, Reply, Waiting
<1>3. ASSUME NEW d \in Calls PROVE Effect(d)'
  BY DEF IndInv, TypeOK, Shape, Effect, MinerOffersNone, Reply, Waiting
<1>4. Doubted'
  BY DEF IndInv, TypeOK, Shape, Effect, Doubted, Refutes, MinerOffersNone, Reply, Waiting
<1>5. Counts'
  BY DEF IndInv, Counts, MinerOffersNone
<1> QED BY <1>1, <1>2, <1>3, <1>4, <1>5 DEF IndInv

LEMMA AppliesStep ==
  ASSUME IndInv, NEW c \in Calls, MinerApplies(c)
  PROVE  IndInv'
<1> USE DEF NoSalt, AuthAnswers, WriteAnswers, Requests, NeverSent, Refused, Unclear, Outcomes
<1>1. /\ step[c] \in Steps(c) /\ applied[c] \in [Steps(c) -> Nat]
      /\ applied[c][step[c]] = 0 /\ pc[c] \in {"write", "done"}
  BY DEF IndInv, TypeOK, Shape, Effect, MinerApplies
<1>2. /\ applied'[c] = [applied[c] EXCEPT ![step[c]] = 1]
      /\ \A d \in Calls \ {c} : applied'[d] = applied[d]
  <2>1. applied[c][step[c]] + 1 = 1
    BY <1>1
  <2>2. \A d \in Calls : applied'[d] =
          IF d = c THEN [applied[c] EXCEPT ![step[c]] = applied[c][step[c]] + 1] ELSE applied[d]
    BY DEF MinerApplies, IndInv, Counts
  <2> QED BY <2>1, <2>2
<1>3. /\ wire' \in [Calls -> {"none", "ok", "garbled"} \union {wire[d] : d \in Calls}]
      /\ \A d \in Calls \ {c} : wire'[d] = wire[d]
      /\ wire'[c] \in IF pc[c] = "write" THEN {"none", "ok", "garbled"} ELSE {"none"}
  BY <1>1 DEF MinerApplies, Reply, Waiting, IndInv, TypeOK
<1>4. UNCHANGED <<salt, minerSalt, pc, step, used, offer, outcome, stale>>
  BY DEF MinerApplies
<1>5. TypeOK'
  BY <1>1, <1>2, <1>3, <1>4 DEF IndInv, TypeOK
<1>6. ASSUME NEW d \in Calls PROVE Shape(d)'
  BY <1>1, <1>3, <1>4 DEF IndInv, TypeOK, Shape, Steps, LastStep
<1>7. ASSUME NEW d \in Calls PROVE Effect(d)'
  <2>1. CASE d = c
    BY <1>1, <1>2, <1>3, <1>4, <2>1, StepsOf DEF IndInv, TypeOK, Shape, Effect, MinerApplies
  <2>2. CASE d # c
    BY <1>2, <1>3, <1>4, <2>2 DEF IndInv, Effect, Steps
  <2> QED BY <2>1, <2>2
<1>8. Doubted'
  BY <1>1, <1>3, <1>4 DEF IndInv, TypeOK, Shape, Doubted, Refutes, MinerApplies
<1>9. Counts'
  <2>1. applied'[c] \in [Steps(c) -> Nat]
    BY <1>1, <1>2
  <2>2. \A d \in Calls : applied'[d] \in [Steps(d) -> Nat]
    BY <1>2, <2>1 DEF IndInv, TypeOK
  <2>3. applied' = [d \in Calls |-> applied'[d]]
    BY DEF MinerApplies, IndInv, Counts
  <2> QED BY <2>2, <2>3 DEF Counts, Steps
<1> QED BY <1>5, <1>6, <1>7, <1>8, <1>9 DEF IndInv

LEMMA RefusesStep ==
  ASSUME IndInv, NEW c \in Calls, MinerRefuses(c)
  PROVE  IndInv'
<1> USE DEF NoSalt, AuthAnswers, WriteAnswers, Requests, NeverSent, Refused, Unclear, Outcomes
<1>1. TypeOK'
  BY DEF IndInv, TypeOK, MinerRefuses, Reply, Waiting
<1>2. ASSUME NEW d \in Calls PROVE Shape(d)'
  BY DEF IndInv, TypeOK, Shape, MinerRefuses, Reply, Waiting
<1>3. ASSUME NEW d \in Calls PROVE Effect(d)'
  BY DEF IndInv, TypeOK, Shape, Effect, MinerRefuses, Reply, Waiting
<1>4. Doubted'
  BY DEF IndInv, TypeOK, Shape, Effect, Doubted, Refutes, MinerRefuses, Reply, Waiting
<1>5. Counts'
  BY DEF IndInv, Counts, MinerRefuses
<1> QED BY <1>1, <1>2, <1>3, <1>4, <1>5 DEF IndInv

LEMMA ChangesSaltStep == ASSUME IndInv, MinerChangesSalt PROVE IndInv'
<1>1. TypeOK'
  BY MaxSaltIsPositive DEF IndInv, TypeOK, MinerChangesSalt
<1>2. ASSUME NEW d \in Calls PROVE Shape(d)' /\ Effect(d)'
  BY DEF IndInv, Shape, Effect, MinerChangesSalt
<1>3. Doubted'
  BY MaxSaltIsPositive DEF IndInv, TypeOK, Doubted, Refutes, MinerChangesSalt
<1>4. Counts'
  BY DEF IndInv, Counts, MinerChangesSalt
<1> QED BY <1>1, <1>2, <1>3, <1>4 DEF IndInv

LEMMA StutterStep == ASSUME IndInv, UNCHANGED vars PROVE IndInv'
<1>1. TypeOK'
  BY DEF IndInv, TypeOK, vars
<1>2. ASSUME NEW d \in Calls PROVE Shape(d)' /\ Effect(d)'
  BY DEF IndInv, Shape, Effect, vars
<1>3. Doubted'
  BY DEF IndInv, Doubted, Refutes, vars
<1>4. Counts'
  BY DEF IndInv, Counts, vars
<1> QED BY <1>1, <1>2, <1>3, <1>4 DEF IndInv

LEMMA NextInv == ASSUME IndInv, [Next]_vars PROVE IndInv'
<1>1. CASE UNCHANGED vars \/ Finished \/ MinerChangesSalt
  BY <1>1, StutterStep, ChangesSaltStep DEF Finished
<1>2. ASSUME NEW c \in Calls, Start(c) \/ Settle(c) PROVE IndInv'
  BY <1>2, StartStep, SaltArrivesStep, AuthFailsStep, AcceptedStep, RejectedStep,
     SocketFailsStep DEF Settle
<1>3. ASSUME NEW c \in Calls, Miner(c) PROVE IndInv'
  BY <1>3, OffersSaltStep, OffersNoneStep, AppliesStep, RefusesStep DEF Miner
<1> QED BY <1>1, <1>2, <1>3 DEF Next

THEOREM Invariance == Spec => []IndInv
<1>1. Init => IndInv
  BY InitInv
<1>2. IndInv /\ [Next]_vars => IndInv'
  BY NextInv
<1> QED BY <1>1, <1>2, PTL DEF Spec

\* Type correctness of the v3 session, for any calls and any number of salts.
THEOREM TypeCorrect == Spec => []TypeOK
<1>1. IndInv => TypeOK
  BY DEF IndInv
<1> QED BY <1>1, Invariance, PTL

\* Once all calls that were under way have been answered, a salt that was
\* refused as out of date is stored no more.
THEOREM SaltGone == Spec => []RefusedSaltIsGone
<1>1. IndInv => RefusedSaltIsGone
  BY DEF IndInv, Doubted, Refutes, RefusedSaltIsGone
<1> QED BY <1>1, Invariance, PTL

----------------------------------------------------------------------------
(* The session implements the contract.                                    *)

LEMMA WritesOf ==
  /\ \A c \in Calls : \A s \in Steps(c) : <<c, s>> \in Writes
  /\ \A w \in Writes : w[1] \in Calls /\ w[2] \in Steps(w[1]) /\ w = <<w[1], w[2]>>
<1>1. \A c \in Calls : \A s \in Steps(c) : <<c, s>> \in Writes
  BY DEF Writes
<1>2. ASSUME NEW w \in Writes
      PROVE  w[1] \in Calls /\ w[2] \in Steps(w[1]) /\ w = <<w[1], w[2]>>
  <2>1. PICK c \in Calls : w \in {c} \X Steps(c)
    BY DEF Writes
  <2> QED BY <2>1
<1> QED BY <1>1, <1>2

Issued == {w \in Writes : pc[w[1]] # "idle" /\ w[2] <= step[w[1]]}
Applied == [w \in Writes |-> applied[w[1]][w[2]]]
Told == [w \in Writes |-> Verdict(w[1], w[2])]

\* A step that begins or ends no write and is not seen by the miner is hidden.
LEMMA HiddenStep ==
  ASSUME IndInv, applied' = applied, step' = step, outcome' = outcome,
         \A c \in Calls : pc'[c] = "idle" <=> pc[c] = "idle"
  PROVE  UNCHANGED Contract!vars
<1>1. Issued' = Issued
  BY WritesOf DEF Issued, Writes, Steps
<1>2. Applied' = Applied
  BY WritesOf DEF Applied, Writes, Steps
<1>3. Told' = Told
  BY WritesOf DEF Told, Verdict, Writes, Steps
<1> QED BY <1>1, <1>2, <1>3 DEF Contract!vars, Issued, Applied, Told

LEMMA IssueStep ==
  ASSUME IndInv, NEW c \in Calls, Start(c)
  PROVE  Contract!Issue(<<c, 1>>)
<1>1. /\ pc[c] = "idle" /\ step[c] = 1 /\ pc'[c] # "idle"
      /\ \A d \in Calls \ {c} : pc'[d] = pc[d]
  BY DEF IndInv, TypeOK, Shape, Start, Write, Authenticate, Send
<1>2. UNCHANGED <<step, applied, outcome>>
  BY DEF Start
<1>3. <<c, 1>> \notin Issued /\ Issued' = Issued \union {<<c, 1>>}
  BY <1>1, <1>2, WritesOf, StepsOf DEF Issued, Writes, Steps
<1>4. Applied' = Applied /\ Told' = Told
  BY <1>2 DEF Applied, Told, Verdict, Writes, Steps
<1> QED BY <1>3, <1>4 DEF Contract!Issue, Issued, Applied, Told

LEMMA ApplyStep ==
  ASSUME IndInv, IndInv', NEW c \in Calls, MinerApplies(c)
  PROVE  Contract!Apply(<<c, step[c]>>)
<1> DEFINE w == <<c, step[c]>>
<1>1. /\ step[c] \in Steps(c) /\ w \in Writes /\ w[1] = c /\ w[2] = step[c]
      /\ pc[c] # "idle" /\ applied[c][step[c]] = 0
  BY WritesOf DEF IndInv, TypeOK, Shape, Effect, MinerApplies
<1>2. UNCHANGED <<pc, step, outcome>>
  BY DEF MinerApplies
<1>3. \A d \in Calls : \A s \in Steps(d) :
        applied'[d][s] = IF d = c /\ s = step[c] THEN 1 ELSE applied[d][s]
  BY <1>1 DEF MinerApplies, IndInv, TypeOK, Counts
<1>4. w \in Issued /\ Issued' = Issued
  BY <1>1, <1>2, StepsOf DEF Issued, Writes, Steps
<1>5. Applied[w] = 0 /\ Applied' = [Applied EXCEPT ![w] = 1]
  <2>1. \A v \in Writes : Applied'[v] = IF v = w THEN 1 ELSE Applied[v]
    BY <1>1, <1>3, WritesOf DEF Applied, Writes, Steps
  <2>2. DOMAIN Applied = Writes /\ DOMAIN Applied' = Writes /\ Writes' = Writes
    BY DEF Applied, Writes, Steps
  <2> QED BY <1>1, <2>1, <2>2 DEF Applied
<1>6. Told[w] \in {"none", "unknown"} /\ Told' = Told
  <2>1. Told' = Told
    BY <1>2 DEF Told, Verdict, Writes, Steps
  <2>2. outcome[c] \notin {"success"} \union NeverSent \union Refused
    BY <1>1 DEF IndInv, TypeOK, Shape, Effect, MinerApplies
  <2> QED BY <1>1, <2>1, <2>2, StepsOf DEF Told, Verdict, Unclear
<1> QED BY <1>4, <1>5, <1>6 DEF Contract!Apply, Issued, Applied, Told

\* A step that ends a call reports the verdict of its outcome on the write the
\* call is at.
LEMMA ReportStep ==
  ASSUME IndInv, IndInv', NEW c \in Calls, pc[c] \in {"auth", "write"},
         NEW o, Finish(c, o), applied' = applied, step' = step
  PROVE  Contract!Report(<<c, step[c]>>)
<1> DEFINE w == <<c, step[c]>>
<1>1. /\ step[c] \in Steps(c) /\ w \in Writes /\ w[1] = c /\ w[2] = step[c]
      /\ pc'[c] = "done" /\ outcome[c] = "none" /\ outcome'[c] = o
      /\ o \in Outcomes \ {"none"} /\ (o = "success" => step[c] = LastStep(c))
      /\ \A d \in Calls \ {c} : outcome'[d] = outcome[d] /\ pc'[d] = pc[d]
  BY WritesOf DEF IndInv, TypeOK, Shape, Finish
<1>2. w \in Issued /\ Issued' = Issued
  BY <1>1, WritesOf, StepsOf DEF Issued, Writes, Steps
<1>3. Applied' = Applied
  BY DEF Applied, Writes, Steps
<1> DEFINE v == Verdict(c, step[c])'
<1>4. v \in {"applied", "notApplied", "unknown"}
  BY <1>1, StepsOf DEF Verdict, Outcomes
<1>5. (v = "applied" => applied[c][step[c]] = 1)
      /\ (v = "notApplied" => applied[c][step[c]] = 0)
  BY <1>1, StepsOf DEF IndInv, Effect, Verdict, Outcomes, NeverSent, Refused, Unclear
<1>6. Told[w] = "none" /\ Told' = [Told EXCEPT ![w] = v]
  <2>1. \A d \in Calls : \A s \in Steps(d) :
          d # c \/ s # step[c] => Verdict(d, s)' = Verdict(d, s)
    <3> SUFFICES ASSUME NEW d \in Calls, NEW s \in Steps(d), d # c \/ s # step[c]
                 PROVE  Verdict(d, s)' = Verdict(d, s)
      OBVIOUS
    <3>1. CASE d # c
      BY <1>1, <3>1 DEF Verdict
    <3>2. CASE d = c /\ s # step[c]
      BY <1>1, <3>2, StepsOf DEF Verdict, NeverSent, Refused
    <3> QED BY <3>1, <3>2
  <2>2. \A x \in Writes : Told'[x] = IF x = w THEN v ELSE Told[x]
    BY <1>1, <2>1, WritesOf DEF Told, Writes, Steps
  <2>3. DOMAIN Told = Writes /\ DOMAIN Told' = Writes
    BY DEF Told, Writes, Steps
  <2>4. Told[w] = "none"
    BY <1>1, StepsOf DEF Told, Verdict, NeverSent, Refused, Unclear
  <2> QED BY <1>1, <2>2, <2>3, <2>4 DEF Told
<1>7. Applied[w] = applied[c][step[c]]
  BY <1>1 DEF Applied
<1> QED BY <1>2, <1>3, <1>4, <1>5, <1>6, <1>7
     DEF Contract!Report, Contract!Truthful, Contract!Verdicts, Issued, Applied, Told

\* The service was started, the mode is sent.
LEMMA ProceedStep ==
  ASSUME IndInv, IndInv', NEW c \in Calls, Accepted(c), step[c] # LastStep(c)
  PROVE  Contract!Proceed(<<c, 1>>, <<c, 2>>)
<1>1. /\ step[c] = 1 /\ 1 \in Steps(c) /\ 2 \in Steps(c) /\ step'[c] = 2
      /\ pc[c] = "write" /\ pc'[c] # "idle" /\ applied[c][1] = 1 /\ outcome[c] = "none"
      /\ <<c, 1>> \in Writes /\ <<c, 2>> \in Writes
  BY StepsOf, WritesOf
     DEF IndInv, TypeOK, Shape, Effect, Accepted, Write, Authenticate, Send
<1>2. /\ UNCHANGED <<applied, outcome>>
      /\ \A d \in Calls \ {c} : step'[d] = step[d] /\ pc'[d] = pc[d]
  BY DEF IndInv, TypeOK, Accepted, Write, Authenticate, Send
<1>3. /\ <<c, 1>> \in Issued /\ <<c, 2>> \notin Issued
      /\ Issued' = Issued \union {<<c, 2>>}
  BY <1>1, <1>2, WritesOf, StepsOf DEF Issued, Writes, Steps
<1>4. Applied[<<c, 1>>] = 1 /\ Applied' = Applied
  BY <1>1, <1>2 DEF Applied, Writes, Steps
<1>5. Told[<<c, 1>>] = "none" /\ Told' = [Told EXCEPT ![<<c, 1>>] = "applied"]
  <2>1. /\ Verdict(c, 1) = "none" /\ Verdict(c, 1)' = "applied"
        /\ Verdict(c, 2) = "none" /\ Verdict(c, 2)' = "none"
    BY <1>1, <1>2 DEF Verdict, NeverSent, Refused, Unclear
  <2>2. \A d \in Calls \ {c} : \A s \in Steps(d) : Verdict(d, s)' = Verdict(d, s)
    BY <1>2 DEF Verdict
  <2>3. \A x \in Writes : Told'[x] = IF x = <<c, 1>> THEN "applied" ELSE Told[x]
    BY <1>1, <2>1, <2>2, WritesOf, StepsOf DEF Told, Writes, Steps
  <2>4. DOMAIN Told = Writes /\ DOMAIN Told' = Writes
    BY DEF Told, Writes, Steps
  <2> QED BY <1>1, <2>1, <2>3, <2>4 DEF Told
<1> QED BY <1>3, <1>4, <1>5 DEF Contract!Proceed, Issued, Applied, Told

LEMMA ContractStep ==
  ASSUME IndInv, IndInv', Next
  PROVE  [Contract!Next]_Contract!vars
<1>1. ASSUME NEW c \in Calls, Start(c) PROVE Contract!Next
  BY <1>1, IssueStep, WritesOf, StepsOf DEF Contract!Next
<1>2. ASSUME NEW c \in Calls, Settle(c) PROVE [Contract!Next]_Contract!vars
  <2> USE WritesOf, StepsOf
  <2>1. <<c, step[c]>> \in Writes
    BY DEF IndInv, Shape
  <2>2. CASE SaltArrives(c)
    BY <2>2, HiddenStep DEF IndInv, TypeOK, SaltArrives, Send
  <2>3. CASE AuthFails(c)
    BY <2>1, <2>3, ReportStep DEF AuthFails, Contract!Next
  <2>4. CASE Accepted(c) /\ step[c] = LastStep(c)
    BY <2>1, <2>4, ReportStep DEF Accepted, Contract!Next
  <2>5. CASE Accepted(c) /\ step[c] # LastStep(c)
    <3>1. <<c, 1>> \in Writes /\ <<c, 2>> \in Writes
      BY <2>5 DEF IndInv, Shape
    <3> QED BY <2>5, <3>1, ProceedStep DEF Contract!Next
  <2>6. CASE Rejected(c)
    BY <2>1, <2>6, ReportStep DEF Rejected, Contract!Next
  <2>7. CASE SocketFails(c)
    BY <2>1, <2>7, ReportStep DEF SocketFails, Waiting, Contract!Next
  <2> QED BY <1>2, <2>2, <2>3, <2>4, <2>5, <2>6, <2>7 DEF Settle
<1>3. ASSUME NEW c \in Calls, Miner(c) PROVE [Contract!Next]_Contract!vars
  <2>1. CASE MinerApplies(c)
    <3>1. <<c, step[c]>> \in Writes
      BY WritesOf DEF IndInv, Shape
    <3>2. Contract!Apply(<<c, step[c]>>)
      BY <2>1, ApplyStep
    <3>3. Contract!Next
      BY <3>1, <3>2 DEF Contract!Next, Contract!Apply
    <3> QED BY <3>3
  <2>2. CASE ~MinerApplies(c)
    BY <1>3, <2>2, HiddenStep DEF Miner, MinerOffersSalt, MinerOffersNone, MinerRefuses
  <2> QED BY <2>1, <2>2
<1>4. CASE MinerChangesSalt \/ Finished
  BY <1>4, HiddenStep DEF MinerChangesSalt, Finished, vars
<1> QED BY <1>1, <1>2, <1>3, <1>4 DEF Next

\* Every behaviour of the session is one the contract allows: each write of a
\* call is carried out at most once, a mode is sent only after its start of the
\* service was confirmed, and no definite outcome is ever wrong.
THEOREM Contracted == Spec => KeepsContract
<1>1. Init => Contract!Init
  BY WritesOf, StepsOf DEF Init, Contract!Init, Verdict, NeverSent, Refused, Unclear
<1>2. IndInv /\ IndInv' /\ [Next]_vars => [Contract!Next]_Contract!vars
  <2>1. CASE Next
    BY <2>1, ContractStep
  <2>2. CASE UNCHANGED vars
    BY <2>2, HiddenStep DEF vars
  <2> QED BY <2>1, <2>2
<1> QED BY <1>1, <1>2, Invariance, PTL DEF Spec, KeepsContract, Contract!Spec
============================================================================
