---------------------------- MODULE ClientProofs ----------------------------
(***************************************************************************)
(* Proofs about Commands and Snapshots, for any calls, snapshots, power    *)
(* modes and bounds.                                                       *)
(* The commands: types, what a reported success means, the order of a mode *)
(* change, and that a lit LED is attended.                                 *)
(* The snapshots: the shares add up, the shared error log agrees with the  *)
(* last snapshot, and a snapshot shows the LED as an undisturbed setLED    *)
(* left it.  Of the commands they need the inductive invariant only.       *)
(***************************************************************************)
EXTENDS Snapshots, TLAPS

----------------------------------------------------------------------------
(* Commands: the inductive invariant.                                      *)

\* Where a call is says which of its writes were sent.
Shape ==
  \A c \in Calls :
    /\ pc[c] = "idle" => /\ cmd[c] = "none" /\ result[c] = "none"
                         /\ \A s \in Steps : <<c, s>> \notin issued
    /\ \A s \in {"first", "second"} : pc[c] = s =>
         /\ cmd[c] \in Kinds /\ result[c] = "none"
         /\ <<c, s>> \in issued /\ verdict[<<c, s>>] = "none"
    /\ pc[c] = "first" => <<c, "second">> \notin issued
    /\ c \in timers => <<c, "timer">> \notin issued
    /\ c \in timers \/ <<c, "timer">> \in issued => cmd[c] = "ledOn" /\ pc[c] = "done"
    /\ \A s \in Steps : <<c, s>> \in issued => cmd[c] \in Kinds

\* A write that was not sent has no effect and no answer; answers are truthful.
Honest ==
  \A c \in Calls, s \in Steps :
    /\ applied[<<c, s>>] = 1 \/ verdict[<<c, s>>] # "none" => <<c, s>> \in issued
    /\ verdict[<<c, s>>] = "applied" => applied[<<c, s>>] = 1
    /\ verdict[<<c, s>>] = "notApplied" => applied[<<c, s>>] = 0

\* A second write is sent after a definite answer to the first; a mode, after a
\* confirmation.
Ordered ==
  \A c \in Calls : <<c, "second">> \in issued =>
    /\ HasSecond(cmd[c])
    /\ verdict[<<c, "first">>] \in {"applied", "notApplied"}
    /\ cmd[c] \in Modes => verdict[<<c, "first">>] = "applied"

\* The writes that light the LED are waited for, and one whose outcome is not
\* known ends the call with an exception.
Watched ==
  \A c \in Calls, s \in {"first", "second"} :
    cmd[c] = "ledOn" /\ <<c, s>> \in issued =>
      /\ verdict[<<c, s>>] = "none" => pc[c] = s
      /\ verdict[<<c, s>>] = "unknown" => result[c] = "failed"

\* A success that is not unchecked was confirmed write by write.
Confirms ==
  \A c \in Calls : result[c] = "success" /\ ~Unchecked(c) =>
    /\ verdict[<<c, "first">>] = "applied"
    /\ HasSecond(cmd[c]) => verdict[<<c, "second">>] = "applied"

\* What a call has changed so far is still there.
Holds(c) ==
  /\ cmd[c] = "ledOn" => \A s \in {"first", "second"} :
                           applied[<<c, s>>] = 1 => miner.led = "manual"
  /\ cmd[c] = "ledOff" /\ applied[<<c, "first">>] = 1 => miner.led = "auto"
  /\ cmd[c] = "sleep" /\ applied[<<c, "first">>] = 1 => miner.service = "stopped"
  /\ cmd[c] \in Modes =>
       /\ applied[<<c, "first">>] = 1 => miner.service = "started"
       /\ applied[<<c, "second">>] = 1 => miner.mode = cmd[c]

\* Nothing of a call is under way.
Over(c) == pc[c] \in {"idle", "done"} /\ \A s \in Steps : ~InDoubt(<<c, s>>)

\* While a call is undisturbed, no other write to its attribute is under way.
Undisturbed ==
  \A attr \in Attributes, c \in Calls : c \in solo[attr] =>
    /\ Attribute(cmd[c]) = attr
    /\ ~InDoubt(<<c, "timer">>)
    /\ \A d \in Calls \ {c} : Attribute(cmd[d]) = attr => Over(d)
    /\ Holds(c)

IndInv ==
  /\ TypeOK /\ Shape /\ Honest /\ Ordered /\ Watched /\ Confirms
  /\ LedAttended /\ Undisturbed

----------------------------------------------------------------------------
LEMMA InitInv == ASSUME Init PROVE IndInv
<1> USE DEF Init, W!Init, Writes, Steps
<1>1. TypeOK
  BY CommandsAssumption DEF TypeOK, Attributes
<1>2. Shape /\ Honest /\ Ordered /\ Watched /\ Confirms
  BY DEF Shape, Honest, Ordered, Watched, Confirms
<1>3. LedAttended /\ Undisturbed
  BY DEF LedAttended, Undisturbed, Attributes
<1> QED BY <1>1, <1>2, <1>3 DEF IndInv

\* Writes are told apart by their call and their step.
LEMMA Pairs ==
  /\ \A c \in Calls, s \in Steps : <<c, s>> \in Writes
  /\ \A c, d, s, t : <<c, s>> = <<d, t>> => c = d /\ s = t
  /\ "first" \in Steps /\ "second" \in Steps /\ "timer" \in Steps
BY DEF Writes, Steps

\* A step that lights no LED keeps it attended if every call that attends to it
\* still does, or has failed now, and no failure is forgotten.
LEMMA LedKept ==
  ASSUME LedAttended,
         miner'.led = "manual" => miner.led = "manual",
         \A d \in Calls : Forsakes(d) => Forsakes(d)',
         \A d \in Calls : Attends(d) => Attends(d)' \/ Forsakes(d)'
  PROVE  LedAttended'
BY DEF LedAttended, LedForsaken

\* A call begins: all its writes are new.
LEMMA BeginInv ==
  ASSUME IndInv, NEW c \in Calls, NEW k \in Kinds, Begin(c, k)
  PROVE  IndInv'
<1>1. /\ pc[c] = "idle" /\ cmd[c] = "none" /\ result[c] = "none"
      /\ \A s \in Steps : /\ <<c, s>> \notin issued
                          /\ applied[<<c, s>>] # 1 /\ verdict[<<c, s>>] = "none"
  <2>1. pc[c] = "idle"
    BY DEF Begin
  <2>2. cmd[c] = "none" /\ result[c] = "none" /\ \A s \in Steps : <<c, s>> \notin issued
    BY <2>1 DEF IndInv, Shape
  <2> QED BY <2>1, <2>2 DEF IndInv, Honest
<1>2. \A d \in Calls, t \in Steps :
        <<d, t>> \in issued' <=> <<d, t>> \in issued \/ (d = c /\ t = "first")
  BY Pairs DEF Begin, Send
<1>3. \A d \in Calls \ {c} : pc'[d] = pc[d] /\ result'[d] = result[d] /\ cmd'[d] = cmd[d]
  BY DEF Begin, Send, Finish, IndInv, TypeOK
<1>4. /\ cmd'[c] = k
      /\ \/ pc'[c] = "first" /\ result'[c] = "none" /\ Awaited(k, "first")
         \/ pc'[c] = "done" /\ result'[c] = "success" /\ ~Awaited(k, "first")
  BY <1>1 DEF Begin, Send, Finish, IndInv, TypeOK
<1>5. /\ gen' = gen /\ miner' = miner /\ timers' = timers
      /\ applied' = applied /\ verdict' = verdict /\ solo' = Alone(c, k)
  BY DEF Begin
<1>6. TypeOK'
  BY Pairs DEF Alone, Attributes, Begin, Send, Finish, IndInv, TypeOK
<1>7. Shape'
  <2> SUFFICES ASSUME NEW d \in Calls PROVE Shape!(d)'
    BY DEF Shape
  <2>1. CASE d = c
    BY <1>1, <1>2, <1>4, <1>5, <2>1, Pairs DEF IndInv, Shape
  <2>2. CASE d # c
    BY <1>2, <1>3, <1>5, <2>2, Pairs DEF IndInv, Shape
  <2> QED BY <2>1, <2>2
<1>8. Honest'
  <2> SUFFICES ASSUME NEW d \in Calls, NEW s \in Steps PROVE Honest!(d, s)'
    BY DEF Honest
  <2> QED
    BY <1>1, <1>2, <1>5 DEF IndInv, Honest
<1>9. Ordered'
  BY <1>1, <1>2, <1>3, <1>5, Pairs DEF IndInv, Ordered, HasSecond
<1>10. Watched'
  <2> SUFFICES ASSUME NEW d \in Calls, NEW s \in {"first", "second"}
               PROVE  Watched!(d, s)'
    BY DEF Watched
  <2>1. CASE d = c
    BY <1>1, <1>2, <1>4, <1>5, <2>1, Pairs, CommandsAssumption DEF Awaited
  <2>2. CASE d # c
    BY <1>2, <1>3, <1>5, <2>2, Pairs DEF IndInv, Watched
  <2> QED BY <2>1, <2>2
<1>11. Confirms'
  BY <1>3, <1>4, <1>5 DEF IndInv, Confirms, Unchecked, Awaited, HasSecond
<1>12. LedAttended'
  <2>1. \A d \in Calls : Forsakes(d) => Forsakes(d)'
    BY <1>1, <1>3, <1>5 DEF Forsakes
  <2>2. \A d \in Calls : Attends(d) => Attends(d)'
    BY <1>1, <1>2, <1>3, <1>5, Pairs DEF Attends, InDoubt
  <2> QED BY <1>5, <2>1, <2>2, LedKept DEF IndInv
<1>13. Undisturbed'
  <2> SUFFICES ASSUME NEW attr \in Attributes, NEW d \in Calls, d \in solo'[attr]
               PROVE  Undisturbed!(attr, d)!2'
    BY DEF Undisturbed
  <2>1. CASE attr = Attribute(k)
    <3>1. d = c /\ Quiet(attr)
      BY <1>5, <2>1 DEF Alone
    <3>2. \A e \in Calls \ {c} : Attribute(cmd'[e]) = attr => Over(e)'
      BY <1>2, <1>3, <1>5, <3>1 DEF Quiet, Over, InDoubt
    <3>3. Holds(c)'
      BY <1>1, <1>4, <1>5, Pairs DEF Holds
    <3> QED BY <1>1, <1>2, <1>4, <1>5, <2>1, <3>1, <3>2, <3>3, Pairs DEF InDoubt
  <2>2. CASE attr # Attribute(k)
    <3>1. d \in solo[attr] /\ d # c
      BY <1>1, <1>5, <2>2, CommandsAssumption
         DEF Alone, IndInv, Undisturbed, Attribute, Attributes
    <3>2. ASSUME NEW e \in Calls \ {d}, Attribute(cmd'[e]) = attr PROVE Over(e)'
      <4>1. e # c
        BY <1>4, <2>2, <3>2
      <4>2. Over(e)
        BY <1>3, <3>1, <3>2, <4>1 DEF IndInv, Undisturbed
      <4> QED BY <1>2, <1>3, <1>5, <4>1, <4>2 DEF Over, InDoubt
    <3>3. Holds(d)'
      BY <1>3, <1>5, <3>1 DEF IndInv, Undisturbed, Holds
    <3> QED BY <1>2, <1>3, <1>5, <3>1, <3>2, <3>3, Pairs DEF IndInv, Undisturbed, InDoubt
  <2> QED BY <2>1, <2>2
<1> QED BY <1>6, <1>7, <1>8, <1>9, <1>10, <1>11, <1>12, <1>13 DEF IndInv

LEMMA RefuseInv ==
  ASSUME IndInv, NEW c \in Calls, Refuse(c)
  PROVE  IndInv'
<1>1. /\ pc[c] = "idle" /\ cmd[c] = "none" /\ pc'[c] = "done" /\ result'[c] = "failed"
      /\ \A s \in Steps : <<c, s>> \notin issued
  BY DEF Refuse, Finish, IndInv, TypeOK, Shape
<1>2. \A d \in Calls \ {c} : pc'[d] = pc[d] /\ result'[d] = result[d]
  BY DEF Refuse, Finish, IndInv, TypeOK
<1>3. /\ gen' = gen /\ miner' = miner /\ cmd' = cmd /\ timers' = timers
      /\ issued' = issued /\ applied' = applied /\ verdict' = verdict /\ solo' = solo
  BY DEF Refuse
<1>4. TypeOK'
  BY DEF Refuse, Finish, IndInv, TypeOK
<1>5. Shape' /\ Honest' /\ Ordered'
  BY <1>1, <1>2, <1>3, Pairs DEF IndInv, Shape, Honest, Ordered, HasSecond
<1>6. Watched' /\ Confirms'
  BY <1>1, <1>2, <1>3, Pairs DEF IndInv, Watched, Confirms, Unchecked, HasSecond
<1>7. LedAttended'
  BY <1>1, <1>2, <1>3, LedKept DEF IndInv, Forsakes, Attends, InDoubt
<1>8. Undisturbed'
  BY <1>1, <1>2, <1>3 DEF IndInv, Undisturbed, Over, InDoubt, Holds
<1> QED BY <1>4, <1>5, <1>6, <1>7, <1>8 DEF IndInv

\* What an answer changes, and what it may say.
LEMMA Heard ==
  ASSUME TypeOK, NEW c \in Calls, NEW s \in Steps, NEW a \in AnswersOf(gen),
         Hear(<<c, s>>, a)
  PROVE  /\ <<c, s>> \in issued /\ verdict[<<c, s>>] = "none"
         /\ \A d \in Calls, t \in Steps :
              d # c \/ t # s => verdict'[<<d, t>>] = verdict[<<d, t>>]
         /\ a = "ok" => verdict'[<<c, s>>] = "applied"
         /\ a = "denied" => verdict'[<<c, s>>] = "notApplied"
         /\ a = "failed" => verdict'[<<c, s>>] \in {"notApplied", "unknown"}
         /\ a \in {"ok", "denied", "failed"}
         /\ verdict'[<<c, s>>] = "applied" => applied[<<c, s>>] = 1
         /\ verdict'[<<c, s>>] = "notApplied" => applied[<<c, s>>] # 1
         /\ verdict' \in [Writes -> {"none"} \union W!Verdicts]
<1>1. a \in {"ok", "denied", "failed"}
  BY DEF AnswersOf
<1>2. PICK v \in Answers[a] : /\ W!Truthful(<<c, s>>, v)
                              /\ verdict' = [verdict EXCEPT ![<<c, s>>] = v]
  BY DEF Hear
<1>3. /\ a = "ok" => v = "applied"
      /\ a = "denied" => v = "notApplied"
      /\ a = "failed" => v \in {"notApplied", "unknown"}
  BY <1>1, <1>2 DEF Answers
<1>4. verdict'[<<c, s>>] = v /\ v \in W!Verdicts
  BY <1>1, <1>2, <1>3, Pairs DEF TypeOK, W!Verdicts
<1>5. \A d \in Calls, t \in Steps :
        d # c \/ t # s => verdict'[<<d, t>>] = verdict[<<d, t>>]
  BY <1>2, Pairs DEF TypeOK
<1>6. /\ v = "applied" => applied[<<c, s>>] = 1
      /\ v = "notApplied" => applied[<<c, s>>] # 1
  BY <1>2 DEF W!Truthful
<1>7. verdict' \in [Writes -> {"none"} \union W!Verdicts]
  BY <1>2, <1>4, Pairs DEF TypeOK
<1> QED BY <1>1, <1>3, <1>4, <1>5, <1>6, <1>7 DEF Hear

\* An answer to a write that nobody waits for.
LEMMA UnheardInv ==
  ASSUME IndInv, NEW c \in Calls, NEW s \in Steps, Unheard(c, s)
  PROVE  IndInv'
<1>1. PICK a \in AnswersOf(gen) : Hear(<<c, s>>, a)
  BY DEF Unheard
<1>2. /\ <<c, s>> \in issued /\ verdict[<<c, s>>] = "none"
      /\ \A d \in Calls, t \in Steps :
           d # c \/ t # s => verdict'[<<d, t>>] = verdict[<<d, t>>]
      /\ verdict'[<<c, s>>] \in {"applied", "notApplied", "unknown"}
      /\ verdict'[<<c, s>>] = "applied" => applied[<<c, s>>] = 1
      /\ verdict'[<<c, s>>] = "notApplied" => applied[<<c, s>>] # 1
      /\ verdict' \in [Writes -> {"none"} \union W!Verdicts]
  BY <1>1, Heard DEF IndInv
<1>3. /\ gen' = gen /\ miner' = miner /\ cmd' = cmd /\ pc' = pc /\ result' = result
      /\ timers' = timers /\ issued' = issued /\ applied' = applied /\ solo' = solo
      /\ s # pc[c]
  BY DEF Unheard
<1>4. TypeOK'
  BY <1>2, <1>3 DEF IndInv, TypeOK
<1>5. Shape'
  <2> SUFFICES ASSUME NEW d \in Calls PROVE Shape!(d)'
    BY DEF Shape
  <2>1. \A t \in {"first", "second"} : pc[d] = t => verdict'[<<d, t>>] = verdict[<<d, t>>]
    BY <1>2, <1>3, Pairs
  <2> QED BY <1>3, <2>1, Pairs DEF IndInv, Shape
<1>6. Honest'
  <2> SUFFICES ASSUME NEW d \in Calls, NEW t \in Steps PROVE Honest!(d, t)'
    BY DEF Honest
  <2>1. applied[<<d, t>>] \in {0, 1}
    BY Pairs DEF IndInv, TypeOK
  <2>2. CASE d = c /\ t = s
    BY <1>2, <1>3, <2>1, <2>2
  <2>3. CASE d # c \/ t # s
    BY <1>2, <1>3, <2>3 DEF IndInv, Honest
  <2> QED BY <2>2, <2>3
<1>7. Ordered'
  BY <1>2, <1>3, Pairs DEF IndInv, Ordered, HasSecond
<1>8. Watched'
  <2> SUFFICES ASSUME NEW d \in Calls, NEW t \in {"first", "second"}
               PROVE  Watched!(d, t)'
    BY DEF Watched
  <2>1. CASE d = c /\ t = s
    BY <1>2, <1>3, <2>1 DEF IndInv, Watched
  <2>2. CASE d # c \/ t # s
    BY <1>2, <1>3, <2>2, Pairs DEF IndInv, Watched
  <2> QED BY <2>1, <2>2
<1>9. Confirms'
  BY <1>2, <1>3, Pairs DEF IndInv, Confirms, Unchecked, HasSecond
<1>10. LedAttended'
  <2>1. \A d \in Calls : Forsakes(d) => Forsakes(d)'
    BY <1>2, <1>3, Pairs DEF Forsakes
  <2>2. \A d \in Calls : Attends(d) => Attends(d)' \/ Forsakes(d)'
    BY <1>2, <1>3, Pairs DEF Attends, Forsakes, InDoubt
  <2> QED BY <1>3, <2>1, <2>2, LedKept DEF IndInv
<1>11. Undisturbed'
  <2>1. \A d \in Calls, t \in Steps : InDoubt(<<d, t>>)' => InDoubt(<<d, t>>)
    BY <1>2, <1>3 DEF InDoubt
  <2> QED BY <1>3, <2>1, Pairs DEF IndInv, Undisturbed, Over, Holds
<1> QED BY <1>4, <1>5, <1>6, <1>7, <1>8, <1>9, <1>10, <1>11 DEF IndInv

\* The second write follows the answer to the first in the same turn.
LEMMA GoOnInv ==
  ASSUME IndInv, NEW c \in Calls, GoOn(c)
  PROVE  IndInv'
<1>1. PICK a \in AnswersOf(gen) : GoesOn(cmd[c], a) /\ Hear(<<c, "first">>, a)
  BY DEF GoOn
<1>2. /\ pc[c] = "first" /\ cmd[c] \in Kinds /\ result[c] = "none"
      /\ HasSecond(cmd[c]) /\ cmd[c] \in Modes \union {"ledOn"}
      /\ <<c, "second">> \notin issued /\ <<c, "timer">> \notin issued /\ c \notin timers
      /\ verdict[<<c, "second">>] = "none"
  BY <1>1, Pairs DEF GoOn, GoesOn, HasSecond, IndInv, Shape, Honest
<1>3. /\ <<c, "first">> \in issued /\ verdict[<<c, "first">>] = "none"
      /\ \A d \in Calls, t \in Steps :
           d # c \/ t # "first" => verdict'[<<d, t>>] = verdict[<<d, t>>]
      /\ verdict'[<<c, "first">>] \in {"applied", "notApplied"}
      /\ cmd[c] \in Modes => verdict'[<<c, "first">>] = "applied"
      /\ verdict'[<<c, "first">>] = "applied" => applied[<<c, "first">>] = 1
      /\ verdict'[<<c, "first">>] = "notApplied" => applied[<<c, "first">>] # 1
      /\ verdict' \in [Writes -> {"none"} \union W!Verdicts]
  BY <1>1, Heard, Pairs, CommandsAssumption DEF IndInv, GoesOn
<1>4. /\ gen' = gen /\ miner' = miner /\ cmd' = cmd /\ timers' = timers
      /\ applied' = applied /\ solo' = solo
  BY DEF GoOn
<1>5. \A d \in Calls, t \in Steps :
        <<d, t>> \in issued' <=> <<d, t>> \in issued \/ (d = c /\ t = "second")
  BY Pairs DEF GoOn, Send
<1>6. \A d \in Calls \ {c} : pc'[d] = pc[d] /\ result'[d] = result[d]
  BY DEF GoOn, Send, Finish, IndInv, TypeOK
<1>7. \/ pc'[c] = "second" /\ result'[c] = "none"
      \/ pc'[c] = "done" /\ result'[c] = "success" /\ Unchecked(c) /\ cmd[c] # "ledOn"
  BY <1>2, CommandsAssumption DEF GoOn, Send, Finish, Awaited, Unchecked, IndInv, TypeOK
<1>8. TypeOK'
  BY <1>3, <1>4, Pairs DEF GoOn, Send, Finish, IndInv, TypeOK
<1>9. Shape'
  <2> SUFFICES ASSUME NEW d \in Calls PROVE Shape!(d)'
    BY DEF Shape
  <2>1. CASE d = c
    BY <1>2, <1>3, <1>4, <1>5, <1>7, <2>1, Pairs
  <2>2. CASE d # c
    BY <1>3, <1>4, <1>5, <1>6, <2>2, Pairs DEF IndInv, Shape
  <2> QED BY <2>1, <2>2
<1>10. Honest'
  <2> SUFFICES ASSUME NEW d \in Calls, NEW t \in Steps PROVE Honest!(d, t)'
    BY DEF Honest
  <2>1. applied[<<d, t>>] \in {0, 1}
    BY Pairs DEF IndInv, TypeOK
  <2>2. CASE d = c /\ t = "first"
    BY <1>3, <1>4, <1>5, <2>1, <2>2
  <2>3. CASE d # c \/ t # "first"
    BY <1>3, <1>4, <1>5, <2>3 DEF IndInv, Honest
  <2> QED BY <2>2, <2>3
<1>11. Ordered'
  <2> SUFFICES ASSUME NEW d \in Calls PROVE Ordered!(d)'
    BY DEF Ordered
  <2>1. CASE d = c
    BY <1>2, <1>3, <1>4, <2>1 DEF HasSecond
  <2>2. CASE d # c
    BY <1>3, <1>4, <1>5, <2>2, Pairs DEF IndInv, Ordered, HasSecond
  <2> QED BY <2>1, <2>2
<1>12. Watched'
  <2> SUFFICES ASSUME NEW d \in Calls, NEW t \in {"first", "second"}
               PROVE  Watched!(d, t)'
    BY DEF Watched
  <2>1. CASE d = c
    BY <1>2, <1>3, <1>4, <1>7, <2>1, Pairs
  <2>2. CASE d # c
    <3>1. /\ <<d, t>> \in issued' <=> <<d, t>> \in issued
          /\ verdict'[<<d, t>>] = verdict[<<d, t>>]
      BY <1>3, <1>5, <2>2, Pairs
    <3> QED BY <1>4, <1>6, <2>2, <3>1 DEF IndInv, Watched
  <2> QED BY <2>1, <2>2
<1>13. Confirms'
  <2> SUFFICES ASSUME NEW d \in Calls PROVE Confirms!(d)'
    BY DEF Confirms
  <2>1. CASE d = c
    BY <1>4, <1>7, <2>1 DEF Unchecked
  <2>2. CASE d # c
    BY <1>3, <1>4, <1>6, <2>2, Pairs DEF IndInv, Confirms, Unchecked, HasSecond
  <2> QED BY <2>1, <2>2
<1>14. LedAttended'
  <2>1. \A d \in Calls : Forsakes(d) => Forsakes(d)'
    BY <1>2, <1>3, <1>4, <1>6, Pairs DEF Forsakes
  <2>2. \A d \in Calls : Attends(d) => Attends(d)'
    BY <1>2, <1>3, <1>4, <1>5, <1>6, <1>7, Pairs DEF Attends, InDoubt
  <2> QED BY <1>4, <2>1, <2>2, LedKept DEF IndInv
<1>15. Undisturbed'
  <2> SUFFICES ASSUME NEW attr \in Attributes, NEW d \in Calls, d \in solo[attr]
               PROVE  Undisturbed!(attr, d)!2'
    BY <1>4 DEF Undisturbed
  <2>1. Undisturbed!(attr, d)!2
    BY DEF IndInv, Undisturbed
  <2>2. d # c => Attribute(cmd[c]) # attr
    BY <1>2, <2>1 DEF Over
  <2>3. \A e \in Calls, t \in Steps :
          e # c \/ t # "second" => (InDoubt(<<e, t>>)' => InDoubt(<<e, t>>))
    BY <1>3, <1>4, <1>5, Pairs DEF InDoubt
  <2>4. \A e \in Calls \ {d} : Attribute(cmd'[e]) = attr => Over(e)'
    BY <1>4, <1>6, <2>1, <2>2, <2>3 DEF Over
  <2>5. Holds(d)'
    BY <1>4, <2>1 DEF Holds
  <2> QED BY <1>4, <2>1, <2>3, <2>4, <2>5, Pairs
<1> QED BY <1>8, <1>9, <1>10, <1>11, <1>12, <1>13, <1>14, <1>15 DEF IndInv

\* The last answer that a call waits for.
LEMMA ReturnInv ==
  ASSUME IndInv, NEW c \in Calls, Return(c)
  PROVE  IndInv'
<1> DEFINE s == pc[c]
<1>1. s \in {"first", "second"} /\ s \in Steps
  BY Pairs DEF Return
<1>2. PICK a \in AnswersOf(gen) :
        LET r == ResultOf(cmd[c], FirstAnswer(c), a)
        IN  /\ s = "first" => ~GoesOn(cmd[c], a)
            /\ Hear(<<c, s>>, a)
            /\ Finish(c, r)
            /\ timers' = TimersAfter(c, a, r)
  BY DEF Return
<1> DEFINE r == ResultOf(cmd[c], FirstAnswer(c), a)
<1>3. /\ <<c, s>> \in issued /\ verdict[<<c, s>>] = "none"
      /\ \A d \in Calls, t \in Steps :
           d # c \/ t # s => verdict'[<<d, t>>] = verdict[<<d, t>>]
      /\ a = "ok" => verdict'[<<c, s>>] = "applied"
      /\ a = "denied" => verdict'[<<c, s>>] = "notApplied"
      /\ a = "failed" => verdict'[<<c, s>>] \in {"notApplied", "unknown"}
      /\ a \in {"ok", "denied", "failed"}
      /\ verdict'[<<c, s>>] = "applied" => applied[<<c, s>>] = 1
      /\ verdict'[<<c, s>>] = "notApplied" => applied[<<c, s>>] # 1
      /\ verdict' \in [Writes -> {"none"} \union W!Verdicts]
  <2> HIDE DEF s
  <2> QED BY <1>1, <1>2, Heard DEF IndInv
<1>4. /\ cmd[c] \in Kinds /\ result[c] = "none"
      /\ <<c, "timer">> \notin issued /\ c \notin timers
      /\ s = "first" => <<c, "second">> \notin issued /\ verdict[<<c, "second">>] = "none"
  BY <1>1, Pairs DEF IndInv, Shape, Honest
<1>5. /\ gen' = gen /\ miner' = miner /\ cmd' = cmd
      /\ issued' = issued /\ applied' = applied /\ solo' = solo
  BY DEF Return
<1>6. /\ pc'[c] = "done" /\ result'[c] = r
      /\ \A d \in Calls \ {c} : pc'[d] = pc[d] /\ result'[d] = result[d]
  BY <1>2 DEF Finish, IndInv, TypeOK
<1>7. /\ cmd[c] = "ledOn" /\ a # "failed" => c \in timers'
      /\ cmd[c] # "ledOn" => c \notin timers'
      /\ \A d \in Calls \ {c} : d \in timers' <=> d \in timers
      /\ timers' \subseteq Calls
  BY <1>2, <1>4 DEF TimersAfter, IndInv, TypeOK
<1>8. /\ r \in {"success", "denied", "failed"}
      /\ cmd[c] = "ledOn" /\ a = "failed" => r = "failed"
      /\ r = "success" /\ ~Unchecked(c) => a = "ok" /\ FirstAnswer(c) # "denied"
  BY <1>3, CommandsAssumption DEF ResultOf, Unchecked
<1> HIDE DEF s, r
<1>9. TypeOK'
  BY <1>2, <1>3, <1>5, <1>7, <1>8 DEF Finish, IndInv, TypeOK, r
<1>10. Shape'
  <2> SUFFICES ASSUME NEW d \in Calls PROVE Shape!(d)'
    BY DEF Shape
  <2>1. CASE d = c
    BY <1>4, <1>5, <1>6, <1>7, <2>1, Pairs
  <2>2. CASE d # c
    BY <1>3, <1>5, <1>6, <1>7, <2>2, Pairs DEF IndInv, Shape
  <2> QED BY <2>1, <2>2
<1>11. Honest'
  <2> SUFFICES ASSUME NEW d \in Calls, NEW t \in Steps PROVE Honest!(d, t)'
    BY DEF Honest
  <2>1. applied[<<d, t>>] \in {0, 1}
    BY Pairs DEF IndInv, TypeOK
  <2>2. CASE d = c /\ t = s
    BY <1>3, <1>5, <2>1, <2>2
  <2>3. CASE d # c \/ t # s
    BY <1>3, <1>5, <2>3 DEF IndInv, Honest
  <2> QED BY <2>2, <2>3
<1>12. Ordered'
  <2> SUFFICES ASSUME NEW d \in Calls, <<d, "second">> \in issued PROVE Ordered!(d)!2'
    BY <1>5 DEF Ordered
  <2>1. d = c => s # "first"
    BY <1>4
  <2>2. verdict'[<<d, "first">>] = verdict[<<d, "first">>]
    BY <1>3, <2>1, Pairs
  <2> QED BY <1>5, <2>2 DEF IndInv, Ordered, HasSecond
<1>13. Watched'
  <2> SUFFICES ASSUME NEW d \in Calls, NEW t \in {"first", "second"},
                      cmd[d] = "ledOn", <<d, t>> \in issued
               PROVE  Watched!(d, t)!2'
    BY <1>5 DEF Watched
  <2>1. CASE d = c /\ t = s
    BY <1>3, <1>6, <1>8, <2>1
  <2>2. CASE d = c /\ t # s
    <3>1. s = "second" /\ t = "first"
      BY <1>1, <1>4, <2>2
    <3>2. verdict[<<d, t>>] \in {"applied", "notApplied"}
      BY <1>3, <2>2, <3>1 DEF IndInv, Ordered
    <3> QED BY <1>3, <2>2, <3>1, <3>2, Pairs
  <2>3. CASE d # c
    <3>1. verdict'[<<d, t>>] = verdict[<<d, t>>]
      BY <1>3, <2>3, Pairs
    <3> QED BY <1>6, <2>3, <3>1 DEF IndInv, Watched
  <2> QED BY <2>1, <2>2, <2>3
<1>14. Confirms'
  <2> SUFFICES ASSUME NEW d \in Calls, result'[d] = "success", ~Unchecked(d)
               PROVE  Confirms!(d)!2'
    BY <1>5 DEF Confirms, Unchecked
  <2>1. CASE d = c
    <3>1. a = "ok" /\ FirstAnswer(c) # "denied" /\ verdict'[<<c, s>>] = "applied"
      BY <1>3, <1>6, <1>8, <2>1
    <3>2. CASE s = "first"
      <4>1. ~HasSecond(cmd[c])
        BY <1>2, <3>1, <3>2 DEF GoesOn
      <4> QED BY <1>5, <2>1, <3>1, <3>2, <4>1 DEF HasSecond
    <3>3. CASE s = "second"
      <4>1. verdict[<<c, "first">>] = "applied"
        BY <1>3, <3>1, <3>3 DEF FirstAnswer, IndInv, Ordered, s
      <4> QED BY <1>3, <2>1, <3>1, <3>3, <4>1, Pairs
    <3> QED BY <1>1, <3>2, <3>3
  <2>2. CASE d # c
    BY <1>3, <1>5, <1>6, <2>2, Pairs DEF IndInv, Confirms, HasSecond
  <2> QED BY <2>1, <2>2
<1>15. LedAttended'
  <2>1. \A d \in Calls : Forsakes(d) => Forsakes(d)'
    BY <1>1, <1>3, <1>4, <1>5, <1>6, Pairs DEF Forsakes
  <2>2. \A d \in Calls : Attends(d) => Attends(d)' \/ Forsakes(d)'
    <3> SUFFICES ASSUME NEW d \in Calls, Attends(d) PROVE Attends(d)' \/ Forsakes(d)'
      OBVIOUS
    <3>1. CASE d = c
      BY <1>3, <1>5, <1>6, <1>7, <1>8, <3>1 DEF Attends, Forsakes
    <3>2. CASE d # c
      BY <1>3, <1>5, <1>6, <1>7, <3>2, Pairs DEF Attends, InDoubt
    <3> QED BY <3>1, <3>2
  <2> QED BY <1>5, <2>1, <2>2, LedKept DEF IndInv
<1>16. Undisturbed'
  <2>1. \A d \in Calls, t \in Steps : InDoubt(<<d, t>>)' => InDoubt(<<d, t>>)
    BY <1>3, <1>5 DEF InDoubt
  <2>2. \A d \in Calls : Over(d) => Over(d)'
    BY <1>6, <2>1 DEF Over
  <2> QED BY <1>5, <2>1, <2>2, Pairs DEF IndInv, Undisturbed, Holds
<1> QED BY <1>9, <1>10, <1>11, <1>12, <1>13, <1>14, <1>15, <1>16 DEF IndInv

\* The timer's write is new, and it ends what was undisturbed about the LED.
LEMMA TimerInv ==
  ASSUME IndInv, NEW c \in Calls, TimerFires(c)
  PROVE  IndInv'
<1>1. /\ cmd[c] = "ledOn" /\ pc[c] = "done" /\ cmd[c] \in Kinds
      /\ <<c, "timer">> \notin issued
      /\ applied[<<c, "timer">>] = 0 /\ verdict[<<c, "timer">>] = "none"
  <2>1. cmd[c] = "ledOn" /\ pc[c] = "done" /\ <<c, "timer">> \notin issued
    BY DEF TimerFires, IndInv, Shape
  <2>2. applied[<<c, "timer">>] \in {0, 1} /\ cmd[c] \in Kinds
    BY <2>1, Pairs DEF IndInv, TypeOK
  <2> QED BY <2>1, <2>2, Pairs DEF IndInv, Honest
<1>2. /\ gen' = gen /\ miner' = miner /\ cmd' = cmd /\ pc' = pc /\ result' = result
      /\ applied' = applied /\ verdict' = verdict
      /\ timers' = timers \ {c}
  BY DEF TimerFires
<1>3. \A d \in Calls, t \in Steps :
        <<d, t>> \in issued' <=> <<d, t>> \in issued \/ (d = c /\ t = "timer")
  BY Pairs DEF TimerFires
<1>4. TypeOK'
  BY <1>2, Pairs DEF TimerFires, IndInv, TypeOK, Attributes
<1>5. Shape'
  <2> SUFFICES ASSUME NEW d \in Calls PROVE Shape!(d)'
    BY DEF Shape
  <2>1. CASE d = c
    BY <1>1, <1>2, <1>3, <2>1, Pairs
  <2>2. CASE d # c
    BY <1>2, <1>3, <2>2, Pairs DEF IndInv, Shape
  <2> QED BY <2>1, <2>2
<1>6. Honest' /\ Ordered'
  BY <1>2, <1>3, Pairs DEF IndInv, Honest, Ordered, HasSecond
<1>7. Watched' /\ Confirms'
  BY <1>2, <1>3, Pairs DEF IndInv, Watched, Confirms, Unchecked, HasSecond
<1>8. LedAttended'
  <2>1. \A d \in Calls : Forsakes(d) => Forsakes(d)'
    BY <1>2 DEF Forsakes
  <2>2. \A d \in Calls : Attends(d) => Attends(d)'
    BY <1>1, <1>2, <1>3, Pairs DEF Attends, InDoubt
  <2> QED BY <1>2, <2>1, <2>2, LedKept DEF IndInv
<1>9. Undisturbed'
  <2> SUFFICES ASSUME NEW attr \in Attributes, NEW d \in Calls, d \in solo'[attr]
               PROVE  Undisturbed!(attr, d)!2'
    BY DEF Undisturbed
  <2>1. attr # "led" /\ d \in solo[attr]
    BY DEF TimerFires, IndInv, TypeOK, Attributes
  <2>2. Undisturbed!(attr, d)!2
    BY <2>1 DEF IndInv, Undisturbed
  <2>3. Attribute(cmd[c]) # attr /\ d # c
    BY <1>1, <2>1, <2>2, CommandsAssumption DEF Attribute
  <2>4. \A e \in Calls, t \in Steps : e # c => (InDoubt(<<e, t>>)' => InDoubt(<<e, t>>))
    BY <1>2, <1>3 DEF InDoubt
  <2>5. \A e \in Calls \ {d} : Attribute(cmd'[e]) = attr => Over(e)'
    BY <1>2, <2>2, <2>3, <2>4 DEF Over
  <2>6. Holds(d)'
    BY <1>2, <2>2 DEF Holds
  <2> QED BY <1>2, <2>2, <2>3, <2>4, <2>5, <2>6, Pairs
<1> QED BY <1>4, <1>5, <1>6, <1>7, <1>8, <1>9 DEF IndInv

\* What a write changes of the miner.
LEMMA EffectOf ==
  ASSUME TypeOK, NEW c \in Calls, NEW s \in Steps, cmd[c] \in Kinds,
         s = "timer" => cmd[c] = "ledOn"
  PROVE  /\ Effect(c, s) \in [led : {"auto", "manual"}, service : {"started", "stopped"},
                             mode : Modes \union {"normal"}]
         /\ Attribute(cmd[c]) # "led" => Effect(c, s).led = miner.led
         /\ Attribute(cmd[c]) # "power" =>
              Effect(c, s).service = miner.service /\ Effect(c, s).mode = miner.mode
         /\ s = "timer" \/ cmd[c] = "ledOff" => Effect(c, s).led = "auto"
         /\ s # "timer" /\ cmd[c] = "ledOn" => Effect(c, s).led = "manual"
         /\ cmd[c] = "sleep" => Effect(c, s).service = "stopped"
         /\ cmd[c] \in Modes /\ s = "first" =>
              Effect(c, s).service = "started" /\ Effect(c, s).mode = miner.mode
         /\ cmd[c] \in Modes /\ s = "second" =>
              Effect(c, s).mode = cmd[c] /\ Effect(c, s).service = miner.service
<1>1. CASE s = "timer" \/ cmd[c] = "ledOff"
  BY <1>1, CommandsAssumption DEF Effect, TypeOK, Attribute
<1>2. CASE s # "timer" /\ cmd[c] = "ledOn"
  BY <1>2, CommandsAssumption DEF Effect, TypeOK, Attribute
<1>3. CASE s # "timer" /\ cmd[c] = "sleep"
  BY <1>3, CommandsAssumption DEF Effect, TypeOK, Attribute
<1>4. CASE cmd[c] \in Modes /\ s # "timer"
  BY <1>4, CommandsAssumption DEF Effect, TypeOK, Attribute, Steps
<1>5. CASE s # "timer" /\ cmd[c] \in {"plain", "setZone"}
  BY <1>5, CommandsAssumption DEF Effect, TypeOK, Attribute
<1> QED BY <1>1, <1>2, <1>3, <1>4, <1>5, CommandsAssumption

\* The miner carries a write out: it was in doubt until now.
LEMMA MinerInv ==
  ASSUME IndInv, NEW c \in Calls, NEW s \in Steps, MinerApplies(c, s)
  PROVE  IndInv'
<1>1. /\ <<c, s>> \in issued /\ applied[<<c, s>>] = 0
      /\ verdict[<<c, s>>] \in {"none", "unknown"} /\ InDoubt(<<c, s>>)
      /\ cmd[c] \in Kinds /\ (s = "timer" => cmd[c] = "ledOn")
  BY Pairs DEF MinerApplies, W!Apply, InDoubt, IndInv, Shape
<1>2. /\ gen' = gen /\ cmd' = cmd /\ pc' = pc /\ result' = result
      /\ timers' = timers /\ issued' = issued /\ verdict' = verdict /\ solo' = solo
      /\ miner' = Effect(c, s)
  BY DEF MinerApplies, W!Apply
<1>3. /\ applied'[<<c, s>>] = 1 /\ applied' \in [Writes -> {0, 1}]
      /\ \A d \in Calls, t \in Steps :
           d # c \/ t # s => applied'[<<d, t>>] = applied[<<d, t>>]
  BY Pairs DEF MinerApplies, W!Apply, IndInv, TypeOK
<1>4. TypeOK'
  BY <1>1, <1>2, <1>3, EffectOf DEF IndInv, TypeOK
<1>5. Shape'
  <2> SUFFICES ASSUME NEW d \in Calls PROVE Shape!(d)'
    BY DEF Shape
  <2>1. Shape!(d)
    BY DEF IndInv, Shape
  <2> QED BY <1>2, <2>1
<1>6. Honest'
  <2> SUFFICES ASSUME NEW d \in Calls, NEW t \in Steps PROVE Honest!(d, t)'
    BY DEF Honest
  <2>1. CASE d = c /\ t = s
    BY <1>1, <1>2, <1>3, <2>1
  <2>2. CASE d # c \/ t # s
    BY <1>2, <1>3, <2>2 DEF IndInv, Honest
  <2> QED BY <2>1, <2>2
<1>7. Ordered' /\ Watched' /\ Confirms'
  BY <1>2 DEF IndInv, Ordered, Watched, Confirms, Unchecked, HasSecond
<1>8. LedAttended'
  <2>1. CASE s = "timer" \/ cmd[c] = "ledOff"
    BY <1>1, <1>2, <2>1, EffectOf DEF LedAttended, IndInv
  <2>2. CASE s # "timer" /\ cmd[c] = "ledOn"
    <3>1. s \in {"first", "second"}
      BY <2>2 DEF Steps
    <3>2. Attends(c)' \/ Forsakes(c)'
      BY <1>1, <1>2, <2>2, <3>1 DEF IndInv, Watched, Attends, Forsakes
    <3> QED BY <3>2 DEF LedAttended, LedForsaken
  <2>3. CASE s # "timer" /\ cmd[c] \notin {"ledOn", "ledOff"}
    <3>1. miner'.led = miner.led
      BY <1>1, <1>2, <2>3, EffectOf DEF Attribute, IndInv
    <3>2. \A d \in Calls : Forsakes(d) => Forsakes(d)'
      BY <1>2 DEF Forsakes
    <3>3. \A d \in Calls : Attends(d) => Attends(d)'
      BY <1>2, <1>3, <2>3, Pairs DEF Attends, InDoubt
    <3> QED BY <3>1, <3>2, <3>3, LedKept DEF IndInv
  <2> QED BY <2>1, <2>2, <2>3
<1>9. Undisturbed'
  <2> SUFFICES ASSUME NEW attr \in Attributes, NEW d \in Calls, d \in solo[attr]
               PROVE  Undisturbed!(attr, d)!2'
    BY <1>2 DEF Undisturbed
  <2>1. Undisturbed!(attr, d)!2
    BY DEF IndInv, Undisturbed
  <2>2. \A e \in Calls, t \in Steps : InDoubt(<<e, t>>)' => InDoubt(<<e, t>>)
    BY <1>2, <1>3 DEF InDoubt
  <2>3. \A e \in Calls : Over(e) => Over(e)'
    BY <1>2, <2>2 DEF Over
  <2>4. CASE d = c
    <3>1. s \in {"first", "second"}
      BY <1>1, <2>1, <2>4 DEF Steps
    <3>2. /\ Attribute(cmd[c]) # "none"
          /\ cmd[c] = "ledOff" => s = "first"
          /\ cmd[c] = "sleep" => s = "first"
      BY <1>1, <2>1, <2>4, <3>1, CommandsAssumption
         DEF Attributes, IndInv, Ordered, HasSecond
    <3>3. Holds(c)'
      BY <1>1, <1>2, <1>3, <2>1, <2>4, <3>1, <3>2, EffectOf, Pairs, CommandsAssumption
         DEF Holds, IndInv
    <3> QED BY <1>2, <2>1, <2>2, <2>3, <2>4, <3>3, Pairs
  <2>5. CASE d # c
    <3>1. Attribute(cmd[c]) # attr
      BY <1>1, <2>1, <2>5 DEF Over
    <3>2. Holds(d)'
      BY <1>1, <1>2, <1>3, <2>1, <2>5, <3>1, EffectOf, Pairs, CommandsAssumption
         DEF Holds, Attribute, Attributes, IndInv
    <3> QED BY <1>2, <2>1, <2>2, <2>3, <3>2, Pairs
  <2> QED BY <2>4, <2>5
<1> QED BY <1>4, <1>5, <1>6, <1>7, <1>8, <1>9 DEF IndInv

----------------------------------------------------------------------------
LEMMA StutterInv == ASSUME IndInv, UNCHANGED commandVars PROVE IndInv'
<1>1. /\ gen' = gen /\ miner' = miner /\ cmd' = cmd /\ pc' = pc /\ result' = result
      /\ timers' = timers /\ issued' = issued /\ applied' = applied
      /\ verdict' = verdict /\ solo' = solo
  BY DEF commandVars
<1>2. TypeOK'
  BY <1>1 DEF IndInv, TypeOK
<1>3. Shape'
  <2> SUFFICES ASSUME NEW d \in Calls PROVE Shape!(d)'
    BY DEF Shape
  <2>1. Shape!(d)
    BY DEF IndInv, Shape
  <2> QED BY <1>1, <2>1
<1>4. Honest' /\ Ordered' /\ Watched' /\ Confirms'
  BY <1>1 DEF IndInv, Honest, Ordered, Watched, Confirms, Unchecked, HasSecond
<1>5. LedAttended'
  BY <1>1, LedKept DEF IndInv, Forsakes, Attends, InDoubt
<1>6. Undisturbed'
  <2>1. \A e \in Calls, t \in Steps : InDoubt(<<e, t>>)' <=> InDoubt(<<e, t>>)
    BY <1>1 DEF InDoubt
  <2>2. \A e \in Calls : (Over(e)' <=> Over(e)) /\ (Holds(e)' <=> Holds(e))
    BY <1>1, <2>1 DEF Over, Holds
  <2> QED BY <1>1, <2>1, <2>2, Pairs DEF IndInv, Undisturbed
<1> QED BY <1>2, <1>3, <1>4, <1>5, <1>6 DEF IndInv

LEMMA NextInv == ASSUME IndInv, [CommandNext]_commandVars PROVE IndInv'
<1>1. CASE UNCHANGED commandVars
  BY <1>1, StutterInv
<1>2. ASSUME NEW c \in Calls, Command(c) PROVE IndInv'
  BY <1>2, BeginInv, RefuseInv, GoOnInv, ReturnInv, TimerInv, UnheardInv, MinerInv
     DEF Command
<1> QED BY <1>1, <1>2 DEF CommandNext

THEOREM Invariance == CommandSpec => []IndInv
<1>1. Init => IndInv
  BY InitInv
<1>2. IndInv /\ [CommandNext]_commandVars => IndInv'
  BY NextInv
<1> QED BY <1>1, <1>2, PTL DEF CommandSpec

\* Type correctness of the commands, for any calls and power modes.
THEOREM TypeCorrect == CommandSpec => []TypeOK
<1>1. IndInv => TypeOK
  BY DEF IndInv
<1> QED BY <1>1, Invariance, PTL

\* A command that reports success was carried out, and the miner is as it was
\* asked to be, as long as nobody interferes.
THEOREM Successful == CommandSpec => []SuccessIsTrue
<1>1. IndInv => SuccessIsTrue
  <2> SUFFICES ASSUME IndInv, NEW c \in Calls, result[c] = "success", ~Unchecked(c)
               PROVE  SuccessIsTrue!(c)!2
    BY DEF SuccessIsTrue
  <2>1. /\ applied[<<c, "first">>] = 1
        /\ HasSecond(cmd[c]) => applied[<<c, "second">>] = 1
    BY Pairs DEF IndInv, Confirms, Honest
  <2>2. <<c, "second">> \in issued => HasSecond(cmd[c])
    BY DEF IndInv, Ordered
  <2>3. \A attr \in Attributes : c \in solo[attr] => Holds(c)
    BY DEF IndInv, Undisturbed
  <2>4. Holds(c) => Shows(c)
    BY <2>1, CommandsAssumption DEF Holds, Shows, HasSecond
  <2> QED BY <2>1, <2>2, <2>3, <2>4
<1> QED BY <1>1, Invariance, PTL

\* A power mode reaches the miner after its start of the service.
THEOREM StartedFirst == CommandSpec => []ModeAfterStart
<1>1. IndInv => ModeAfterStart
  BY Pairs DEF IndInv, ModeAfterStart, Honest, Ordered
<1> QED BY <1>1, Invariance, PTL

\* A lit LED is attended, or was forsaken by a call or a timer that failed.
THEOREM Attended == CommandSpec => []LedAttended
<1>1. IndInv => LedAttended
  BY DEF IndInv
<1> QED BY <1>1, Invariance, PTL

----------------------------------------------------------------------------
(* Snapshots: the inductive invariant.                                     *)

\* The types of the answers; a snapshot that is not running has none.
ReadsOK ==
  /\ got = [s \in Snaps |-> [r \in Reads |-> got[s][r]]]
  /\ \A s \in Snaps :
       /\ got[s]["pools"] \subseteq {NoPools} \union 0 .. MaxShares
       /\ got[s]["errors"] \subseteq SUBSET ErrorCodes
       /\ got[s]["info"] \subseteq {"auto", "manual"} \union
                                   IF gen = "v2" THEN {"noMsg"} ELSE {}
       /\ phase[s] # "running" => \A r \in Reads : got[s][r] = {}

\* What a counter of n adds to what was counted, and the shares since then.
News(n) == IF n >= cachedShares THEN n - cachedShares ELSE n
Since(n) == IF shares >= n THEN shares - n ELSE shares

\* Without overlaps, what was counted and what is still to be counted, now or by
\* the snapshot that is running, are no more than what was mined.
Accounts ==
  "overlap" \notin excuses =>
    /\ \A s, t \in Running : s = t
    /\ counted + News(shares) <= mined
    /\ \A s \in Running : \A n \in got[s]["pools"] :
         n # NoPools => counted + News(n) + Since(n) <= mined

\* Without excuses, the counter that was counted last is what was counted.
Exact ==
  /\ gen = "v3" => counted = 0
  /\ excuses = {} /\ gen = "v2" =>
       /\ counted = cachedShares /\ cachedShares <= shares
       /\ \A s \in Running : \A n \in got[s]["pools"] :
            n # NoPools => cachedShares <= n /\ n <= shares

\* As long as nobody interferes with the setLED that a snapshot must show, the
\* answers it has show it.
Led(c) == IF cmd[c] = "ledOn" THEN "manual" ELSE "auto"

Sees ==
  \A s \in Running : \A c \in lit[s] :
    /\ c \in Calls /\ result[c] = "success" /\ cmd[c] \in {"ledOn", "ledOff"}
    /\ c \in solo["led"] => got[s]["info"] \subseteq {Led(c), "noMsg"}

SnapInv ==
  /\ IndInv /\ SnapTypeOK /\ ReadsOK /\ Accounts /\ Exact /\ Sees /\ LastSnapAgrees

----------------------------------------------------------------------------
LEMMA SnapInitInv == ASSUME SnapInit PROVE SnapInv
<1> USE DEF SnapInit, NoSnap, NoPools, Reads, Running
<1>1. IndInv
  BY InitInv
<1>2. SnapTypeOK
  BY MaxSharesIsNat DEF SnapTypeOK
<1>3. ReadsOK
  BY DEF ReadsOK
<1>4. Accounts /\ Exact
  BY MaxSharesIsNat DEF Accounts, Exact, News
<1>5. Sees /\ LastSnapAgrees
  BY DEF Sees, LastSnapAgrees
<1> QED BY <1>1, <1>2, <1>3, <1>4, <1>5 DEF SnapInv

----------------------------------------------------------------------------
(* What the commands do to snapshots.                                      *)

\* A command that succeeded is over, and a call that is solo now but was not
\* before is one that begins.
LEMMA CommandsKeep ==
  ASSUME IndInv, [CommandNext]_commandVars
  PROVE  /\ gen' = gen
         /\ \A c \in Calls : result[c] = "success" =>
              /\ result'[c] = "success" /\ cmd'[c] = cmd[c]
              /\ c \in solo'["led"] => c \in solo["led"]
<1> DEFINE Kept == /\ gen' = gen
                   /\ \A c \in Calls : result[c] = "success" =>
                        /\ result'[c] = "success" /\ cmd'[c] = cmd[c]
                        /\ c \in solo'["led"] => c \in solo["led"]
<1>0. TypeOK /\ "led" \in Attributes
  BY DEF IndInv, Attributes
<1>1. CASE UNCHANGED commandVars
  BY <1>1 DEF commandVars
<1>2. ASSUME NEW d \in Calls, NEW k \in Kinds, Begin(d, k) PROVE Kept
  <2>1. result[d] = "none" /\ gen' = gen /\ cmd' = [cmd EXCEPT ![d] = k]
    BY <1>2 DEF Begin, IndInv, Shape
  <2>2. \A c \in Calls \ {d} : result'[c] = result[c] /\ cmd'[c] = cmd[c]
    BY <1>0, <1>2 DEF Begin, Send, Finish, TypeOK
  <2>3. \A c \in Calls \ {d} : c \in solo'["led"] => c \in solo["led"]
    BY <1>0, <1>2 DEF Begin, Alone
  <2> QED BY <2>1, <2>2, <2>3
<1>3. ASSUME NEW d \in Calls, Refuse(d) PROVE Kept
  BY <1>0, <1>3 DEF Refuse, Finish, IndInv, Shape, TypeOK
<1>4. ASSUME NEW d \in Calls, GoOn(d) PROVE Kept
  BY <1>0, <1>4 DEF GoOn, Send, Finish, IndInv, Shape, TypeOK
<1>5. ASSUME NEW d \in Calls, Return(d) PROVE Kept
  <2>1. result[d] = "none"
    BY <1>5 DEF Return, IndInv, Shape
  <2>2. UNCHANGED <<gen, cmd, solo>> /\ \E r : result' = [result EXCEPT ![d] = r]
    BY <1>5 DEF Return, Finish
  <2> QED BY <1>0, <2>1, <2>2 DEF TypeOK
<1>6. ASSUME NEW d \in Calls, TimerFires(d) PROVE Kept
  BY <1>0, <1>6 DEF TimerFires, TypeOK
<1>7. ASSUME NEW d \in Calls, NEW s \in Steps, Unheard(d, s) \/ MinerApplies(d, s)
      PROVE  Kept
  BY <1>7 DEF Unheard, MinerApplies
<1> QED BY <1>1, <1>2, <1>3, <1>4, <1>5, <1>6, <1>7 DEF CommandNext, Command

LEMMA CommandStep ==
  ASSUME SnapInv, [CommandNext]_commandVars, UNCHANGED snapVars
  PROVE  SnapInv'
<1>1. /\ shares' = shares /\ errors' = errors /\ phase' = phase /\ got' = got
      /\ cachedShares' = cachedShares /\ errorLog' = errorLog /\ lastSnap' = lastSnap
      /\ mined' = mined /\ counted' = counted /\ excuses' = excuses /\ lit' = lit
  BY DEF snapVars
<1>2. gen' = gen /\ Running' = Running
  BY <1>1, CommandsKeep DEF SnapInv, Running
<1>3. IndInv'
  BY NextInv DEF SnapInv
<1>4. SnapTypeOK'
  BY <1>1 DEF SnapInv, SnapTypeOK
<1>5. ReadsOK'
  BY <1>1, <1>2 DEF SnapInv, ReadsOK
<1>6. Accounts' /\ Exact'
  BY <1>1, <1>2 DEF SnapInv, Accounts, Exact, News, Since
<1>7. Sees' /\ LastSnapAgrees'
  BY <1>1, <1>2, CommandsKeep DEF SnapInv, Sees, Led, LastSnapAgrees
<1> QED BY <1>3, <1>4, <1>5, <1>6, <1>7 DEF SnapInv

\* A step of a snapshot or of the miner leaves the commands alone.
LEMMA CommandsRest ==
  ASSUME IndInv, UNCHANGED commandVars
  PROVE  /\ IndInv' /\ gen' = gen /\ result' = result /\ cmd' = cmd
         /\ solo' = solo /\ miner' = miner
BY StutterInv DEF commandVars

----------------------------------------------------------------------------
(* Steps of a snapshot.                                                    *)

LEMMA TakeStep ==
  ASSUME SnapInv, UNCHANGED commandVars, NEW s \in Snaps, Take(s)
  PROVE  SnapInv'
<1>1. IndInv' /\ gen' = gen /\ result' = result /\ cmd' = cmd /\ solo' = solo
  BY CommandsRest DEF SnapInv
<1>2. /\ shares' = shares /\ errors' = errors /\ got' = got
      /\ cachedShares' = cachedShares /\ errorLog' = errorLog /\ lastSnap' = lastSnap
      /\ mined' = mined /\ counted' = counted
      /\ excuses' = excuses \union IF Running = {} THEN {} ELSE {"overlap"}
      /\ lit' = [lit EXCEPT ![s] = Confirmed(solo["led"])]
      /\ phase' = [phase EXCEPT ![s] = "running"] /\ phase[s] = "idle"
  BY DEF Take
<1>3. /\ phase'[s] = "running" /\ \A t \in Snaps \ {s} : phase'[t] = phase[t]
      /\ Running' = Running \union {s} /\ s \notin Running
      /\ \A r \in Reads : got[s][r] = {}
  BY <1>2 DEF SnapInv, SnapTypeOK, ReadsOK, Running
<1>4. Confirmed(solo["led"]) \subseteq Calls
  BY DEF Confirmed, SnapInv, IndInv, TypeOK, Attributes
<1>5. SnapTypeOK'
  BY <1>2, <1>4 DEF SnapInv, SnapTypeOK
<1>6. ReadsOK'
  BY <1>1, <1>2, <1>3 DEF SnapInv, ReadsOK
<1>7. Accounts' /\ Exact'
  BY <1>1, <1>2, <1>3 DEF SnapInv, Accounts, Exact, News, Since, Reads
<1>8. Sees'
  <2>1. \A c \in Confirmed(solo["led"]) :
          c \in Calls /\ result[c] = "success" /\ cmd[c] \in {"ledOn", "ledOff"}
    BY <1>4 DEF Confirmed, SnapInv, IndInv, Undisturbed, Attribute, Attributes
  <2>2. lit'[s] = Confirmed(solo["led"]) /\ \A t \in Snaps \ {s} : lit'[t] = lit[t]
    BY <1>2 DEF SnapInv, SnapTypeOK
  <2>3. Running \subseteq Snaps \ {s}
    BY <1>3 DEF Running
  <2> QED BY <1>1, <1>2, <1>3, <2>1, <2>2, <2>3 DEF SnapInv, Sees, Led, Reads
<1>9. LastSnapAgrees'
  BY <1>1, <1>2 DEF SnapInv, LastSnapAgrees
<1> QED BY <1>1, <1>5, <1>6, <1>7, <1>8, <1>9 DEF SnapInv

\* As long as nobody interfered with it, the miner's LED is as setLED left it.
LEMMA LedIs ==
  ASSUME IndInv, NEW c \in Calls, c \in solo["led"], result[c] = "success",
         cmd[c] \in {"ledOn", "ledOff"}
  PROVE  miner.led = Led(c)
<1>1. ~Unchecked(c)
  BY CommandsAssumption DEF Unchecked
<1>2. verdict[<<c, "first">>] = "applied" /\ applied[<<c, "first">>] = 1
  BY <1>1, Pairs DEF IndInv, Confirms, Honest
<1>3. Holds(c)
  BY DEF IndInv, Undisturbed, Attributes
<1> QED BY <1>2, <1>3 DEF Holds, Led

LEMMA AnsweredStep ==
  ASSUME SnapInv, UNCHANGED commandVars, NEW s \in Snaps, NEW r \in Reads, Answered(s, r)
  PROVE  SnapInv'
<1>1. IndInv' /\ gen' = gen /\ result' = result /\ cmd' = cmd /\ solo' = solo
  BY CommandsRest DEF SnapInv
<1>2. /\ shares' = shares /\ errors' = errors /\ phase' = phase
      /\ cachedShares' = cachedShares /\ errorLog' = errorLog /\ lastSnap' = lastSnap
      /\ mined' = mined /\ counted' = counted /\ excuses' = excuses /\ lit' = lit
      /\ Running' = Running /\ phase[s] = "running"
  BY DEF Answered, Running
<1>3. PICK a \in Says(r) : got' = [got EXCEPT ![s][r] = {a}]
  BY DEF Answered
<1>4. \A t \in Snaps, q \in Reads :
        got'[t][q] = IF t = s /\ q = r THEN {a} ELSE got[t][q]
  BY <1>3 DEF SnapInv, ReadsOK
<1>5. /\ r = "pools" => a \in {shares, NoPools}
      /\ r = "errors" => a = errors
      /\ r = "info" => a \in {miner.led} \union IF gen = "v2" THEN {"noMsg"} ELSE {}
  BY DEF Says
<1>6. SnapTypeOK'
  BY <1>2 DEF SnapInv, SnapTypeOK
<1>7. ReadsOK'
  <2>1. got' = [t \in Snaps |-> [q \in Reads |-> got'[t][q]]]
    BY <1>3 DEF SnapInv, ReadsOK
  <2>2. miner.led \in {"auto", "manual"} /\ shares \in 0 .. MaxShares
        /\ errors \in SUBSET ErrorCodes
    BY DEF SnapInv, IndInv, TypeOK, SnapTypeOK
  <2>3. ASSUME NEW t \in Snaps
        PROVE  /\ got'[t]["pools"] \subseteq {NoPools} \union 0 .. MaxShares
               /\ got'[t]["errors"] \subseteq SUBSET ErrorCodes
               /\ got'[t]["info"] \subseteq {"auto", "manual"} \union
                                            IF gen = "v2" THEN {"noMsg"} ELSE {}
    BY <1>4, <1>5, <2>2 DEF SnapInv, ReadsOK, Reads
  <2>4. \A t \in Snaps : phase[t] # "running" => \A q \in Reads : got'[t][q] = {}
    BY <1>2, <1>4 DEF SnapInv, ReadsOK
  <2> QED BY <1>1, <1>2, <2>1, <2>3, <2>4 DEF ReadsOK
<1>8. \A t \in Running : \A n \in got'[t]["pools"] :
        n \in got[t]["pools"] \/ n = shares \/ n = NoPools
  BY <1>4, <1>5 DEF Running, Reads
<1>9. Accounts' /\ Exact'
  <2>1. Since(shares) = 0 /\ shares \in Nat /\ counted \in Nat /\ News(shares) \in Nat
    BY MaxSharesIsNat DEF Since, News, SnapInv, SnapTypeOK
  <2>2. \A n : News(n)' = News(n) /\ Since(n)' = Since(n)
    BY <1>2 DEF News, Since
  <2>3. Accounts'
    BY <1>2, <1>8, <2>1, <2>2 DEF SnapInv, Accounts
  <2>4. Exact'
    BY <1>1, <1>2, <1>8, <2>1 DEF SnapInv, Exact
  <2> QED BY <2>3, <2>4
<1>10. Sees'
  <2> SUFFICES ASSUME NEW t \in Running, NEW c \in lit[t]
               PROVE  /\ c \in Calls /\ result[c] = "success"
                      /\ cmd[c] \in {"ledOn", "ledOff"}
                      /\ c \in solo["led"] => got'[t]["info"] \subseteq {Led(c), "noMsg"}
    BY <1>1, <1>2 DEF Sees, Led
  <2>1. /\ c \in Calls /\ result[c] = "success" /\ cmd[c] \in {"ledOn", "ledOff"}
        /\ c \in solo["led"] => got[t]["info"] \subseteq {Led(c), "noMsg"}
    BY DEF SnapInv, Sees
  <2>2. c \in solo["led"] => miner.led = Led(c)
    BY <2>1, LedIs DEF SnapInv
  <2>3. got'[t]["info"] = got[t]["info"] \/ got'[t]["info"] \subseteq {miner.led, "noMsg"}
    BY <1>4, <1>5 DEF Running, Reads
  <2> QED BY <2>1, <2>2, <2>3
<1>11. LastSnapAgrees'
  BY <1>1, <1>2 DEF SnapInv, LastSnapAgrees
<1> QED BY <1>1, <1>6, <1>7, <1>9, <1>10, <1>11 DEF SnapInv

\* The end of a snapshot, whatever it was.
LEMMA EndIs ==
  ASSUME SnapInv, UNCHANGED commandVars, NEW s \in Snaps, phase[s] = "running",
         NEW p \in {"ok", "failed"}, End(s, p)
  PROVE  /\ IndInv' /\ gen' = gen /\ result' = result /\ cmd' = cmd /\ solo' = solo
         /\ shares' = shares /\ errors' = errors /\ mined' = mined /\ lit' = lit
         /\ phase' \in [Snaps -> {"idle", "running", "ok", "failed"}]
         /\ phase'[s] = p
         /\ s \in Running /\ Running' = Running \ {s}
         /\ \A t \in Running' : got'[t] = got[t]
         /\ ReadsOK' /\ Sees'
<1>1. IndInv' /\ gen' = gen /\ result' = result /\ cmd' = cmd /\ solo' = solo
  BY CommandsRest DEF SnapInv
<1>2. /\ phase' = [phase EXCEPT ![s] = p]
      /\ got' = [got EXCEPT ![s] = [r \in Reads |-> {}]]
      /\ shares' = shares /\ errors' = errors /\ mined' = mined /\ lit' = lit
  BY DEF End
<1>3. /\ phase' \in [Snaps -> {"idle", "running", "ok", "failed"}]
      /\ phase'[s] = p /\ \A t \in Snaps \ {s} : phase'[t] = phase[t]
  BY <1>2 DEF SnapInv, SnapTypeOK
<1>4. s \in Running /\ Running' = Running \ {s}
  BY <1>3 DEF Running
<1>5. /\ got'[s] = [r \in Reads |-> {}]
      /\ \A t \in Snaps \ {s} : got'[t] = got[t]
      /\ got' = [t \in Snaps |-> [q \in Reads |-> got'[t][q]]]
  BY <1>2 DEF SnapInv, ReadsOK
<1>6. ReadsOK'
  BY <1>1, <1>3, <1>5 DEF SnapInv, ReadsOK, Reads
<1>7. \A t \in Running' : got'[t] = got[t]
  BY <1>4, <1>5 DEF Running
<1>8. Sees'
  BY <1>1, <1>2, <1>4, <1>7 DEF SnapInv, Sees, Led
<1> QED BY <1>1, <1>2, <1>3, <1>4, <1>6, <1>7, <1>8

LEMMA FailsStep ==
  ASSUME SnapInv, UNCHANGED commandVars, NEW s \in Snaps, Fails(s)
  PROVE  SnapInv'
<1>1. /\ End(s, "failed") /\ phase[s] = "running"
      /\ lastSnap' = IF gen = "v2" THEN NoSnap ELSE lastSnap
      /\ cachedShares' = cachedShares /\ errorLog' = errorLog
      /\ counted' = counted /\ excuses' = excuses
  BY DEF Fails, AfterFailure
<1>2. /\ IndInv' /\ ReadsOK' /\ Sees' /\ gen' = gen
      /\ shares' = shares /\ errors' = errors /\ mined' = mined /\ lit' = lit
      /\ phase' \in [Snaps -> {"idle", "running", "ok", "failed"}]
      /\ Running' = Running \ {s} /\ \A t \in Running' : got'[t] = got[t]
  BY <1>1, EndIs
<1>3. SnapTypeOK'
  BY <1>1, <1>2 DEF SnapInv, SnapTypeOK, NoSnap
<1>4. Accounts' /\ Exact'
  BY <1>1, <1>2 DEF SnapInv, Accounts, Exact, News, Since
<1>5. LastSnapAgrees'
  BY <1>1, <1>2 DEF SnapInv, LastSnapAgrees, NoSnap
<1> QED BY <1>2, <1>3, <1>4, <1>5 DEF SnapInv

LEMMA CompletesV2Step ==
  ASSUME SnapInv, UNCHANGED commandVars, NEW s \in Snaps, CompletesV2(s)
  PROVE  SnapInv'
<1>1. PICK n \in got[s]["pools"], errs \in got[s]["errors"], led \in got[s]["info"] :
        /\ errorLog' = errs
        /\ cachedShares' = NewShares(n).cached
        /\ IF led = "noMsg"
           THEN /\ End(s, "failed") /\ lastSnap' = AfterFailure
                /\ excuses' = excuses \union {"lost"} /\ counted' = counted
           ELSE /\ End(s, "ok")
                /\ lastSnap' = [ok |-> TRUE, errs |-> errs, led |-> led]
                /\ counted' = counted + NewShares(n).added /\ excuses' = excuses
  BY DEF CompletesV2
<1>2. gen = "v2" /\ phase[s] = "running"
  BY <1>1 DEF CompletesV2, SnapInv, ReadsOK, Reads
<1>3. /\ n \in {NoPools} \union 0 .. MaxShares /\ errs \in SUBSET ErrorCodes
      /\ led \in {"auto", "manual", "noMsg"}
  BY <1>1, <1>2 DEF SnapInv, ReadsOK
<1>4. /\ IndInv' /\ ReadsOK' /\ Sees' /\ gen' = gen
      /\ shares' = shares /\ errors' = errors /\ mined' = mined /\ lit' = lit
      /\ phase' \in [Snaps -> {"idle", "running", "ok", "failed"}]
      /\ s \in Running /\ Running' = Running \ {s} /\ \A t \in Running' : got'[t] = got[t]
  BY <1>1, <1>2, EndIs
<1>5. /\ n = NoPools => NewShares(n).added = 0 /\ NewShares(n).cached = cachedShares
      /\ n # NoPools => NewShares(n).added = News(n) /\ NewShares(n).cached = n
  BY DEF NewShares, News
<1>6. /\ shares \in Nat /\ cachedShares \in Nat /\ mined \in Nat /\ counted \in Nat
      /\ n # NoPools => n \in Nat /\ News(n) \in Nat /\ Since(n) \in Nat
  BY <1>3, MaxSharesIsNat DEF SnapInv, SnapTypeOK, News, Since
<1>7. SnapTypeOK'
  <2>1. cachedShares' \in 0 .. MaxShares
    BY <1>1, <1>3, <1>5 DEF SnapInv, SnapTypeOK
  <2>2. counted' \in Nat
    BY <1>1, <1>5, <1>6
  <2>3. lastSnap'.errs \in SUBSET ErrorCodes /\ lastSnap'.led \in {"auto", "manual"}
    BY <1>1, <1>2, <1>3 DEF AfterFailure, NoSnap
  <2>4. errorLog' \in SUBSET ErrorCodes /\ excuses' \subseteq {"overlap", "lost", "reset"}
    BY <1>1, <1>3 DEF SnapInv, SnapTypeOK
  <2> QED BY <1>4, <2>1, <2>2, <2>3, <2>4 DEF SnapInv, SnapTypeOK
<1>8. Accounts'
  <2> SUFFICES ASSUME "overlap" \notin excuses
               PROVE  Running' = {} /\ counted' + News(shares)' <= mined
    BY <1>1, <1>4 DEF Accounts
  <2>1. Running' = {}
    BY <1>4 DEF SnapInv, Accounts
  <2>2. CASE n = NoPools
    BY <1>1, <1>4, <1>5, <1>6, <2>2 DEF SnapInv, Accounts, News
  <2>3. CASE n # NoPools
    <3>1. counted + News(n) + Since(n) <= mined
      BY <1>4, <2>3 DEF SnapInv, Accounts
    <3>2. News(shares)' = Since(n) /\ counted' <= counted + News(n) /\ counted' \in Nat
      BY <1>1, <1>4, <1>5, <1>6, <2>3 DEF News, Since
    <3> QED BY <1>6, <2>1, <2>3, <3>1, <3>2
  <2> QED BY <2>2, <2>3
<1>9. Exact'
  <2> SUFFICES ASSUME excuses' = {}
               PROVE  Running' = {} /\ counted' = cachedShares' /\ cachedShares' <= shares
    BY <1>2, <1>4 DEF Exact
  <2>1. led # "noMsg" /\ excuses = {}
    BY <1>1
  <2>2. Running' = {}
    BY <1>4, <2>1 DEF SnapInv, Accounts
  <2>3. /\ counted = cachedShares /\ cachedShares <= shares
        /\ n # NoPools => cachedShares <= n /\ n <= shares
    BY <1>2, <1>4, <2>1 DEF SnapInv, Exact
  <2> QED BY <1>1, <1>5, <1>6, <2>1, <2>2, <2>3 DEF News
<1>10. LastSnapAgrees'
  BY <1>1, <1>2 DEF LastSnapAgrees, AfterFailure, NoSnap
<1> QED BY <1>4, <1>7, <1>8, <1>9, <1>10 DEF SnapInv

LEMMA CompletesV3Step ==
  ASSUME SnapInv, UNCHANGED commandVars, NEW s \in Snaps, CompletesV3(s)
  PROVE  SnapInv'
<1>1. PICK n \in got[s]["pools"], errs \in got[s]["errors"], led \in got[s]["info"] :
        End(s, "ok") /\ lastSnap' = [ok |-> TRUE, errs |-> errs, led |-> led]
  BY DEF CompletesV3
<1>2. /\ gen = "v3" /\ phase[s] = "running"
      /\ cachedShares' = cachedShares /\ errorLog' = errorLog
      /\ counted' = counted /\ excuses' = excuses
  BY <1>1 DEF CompletesV3, SnapInv, ReadsOK, Reads
<1>3. errs \in SUBSET ErrorCodes /\ led \in {"auto", "manual"}
  BY <1>1, <1>2 DEF SnapInv, ReadsOK
<1>4. /\ IndInv' /\ ReadsOK' /\ Sees' /\ gen' = gen
      /\ shares' = shares /\ errors' = errors /\ mined' = mined /\ lit' = lit
      /\ phase' \in [Snaps -> {"idle", "running", "ok", "failed"}]
      /\ Running' = Running \ {s} /\ \A t \in Running' : got'[t] = got[t]
  BY <1>1, <1>2, EndIs
<1>5. SnapTypeOK'
  BY <1>1, <1>2, <1>3, <1>4 DEF SnapInv, SnapTypeOK
<1>6. Accounts' /\ Exact'
  BY <1>2, <1>4 DEF SnapInv, Accounts, Exact, News, Since
<1>7. LastSnapAgrees'
  BY <1>2, <1>4 DEF LastSnapAgrees
<1> QED BY <1>4, <1>5, <1>6, <1>7 DEF SnapInv

----------------------------------------------------------------------------
(* Steps of the miner.                                                     *)

LEMMA MinerStep ==
  ASSUME SnapInv, UNCHANGED commandVars, MinerMines \/ MinerResets \/ MinerErrs
  PROVE  SnapInv'
<1>1. IndInv' /\ gen' = gen /\ result' = result /\ cmd' = cmd /\ solo' = solo
  BY CommandsRest DEF SnapInv
<1>2. /\ phase' = phase /\ got' = got /\ cachedShares' = cachedShares
      /\ errorLog' = errorLog /\ lastSnap' = lastSnap /\ counted' = counted /\ lit' = lit
      /\ Running' = Running
  BY DEF MinerMines, MinerResets, MinerErrs, Running
<1>3. /\ shares \in 0 .. MaxShares /\ mined \in 0 .. MaxShares /\ counted \in Nat
      /\ cachedShares \in 0 .. MaxShares /\ MaxShares \in Nat
  BY MaxSharesIsNat DEF SnapInv, SnapTypeOK
<1>4. \/ /\ shares' = shares + 1 /\ mined' = mined + 1 /\ excuses' = excuses
         /\ shares < MaxShares /\ mined < MaxShares
      \/ shares' = 0 /\ mined' = mined /\ excuses' = excuses \union {"reset"}
      \/ shares' = shares /\ mined' = mined /\ excuses' = excuses
  BY DEF MinerMines, MinerResets, MinerErrs
<1>5. SnapTypeOK'
  <2>1. errors' \in SUBSET ErrorCodes
    BY DEF MinerMines, MinerResets, MinerErrs, SnapInv, SnapTypeOK
  <2>2. shares' \in 0 .. MaxShares /\ mined' \in 0 .. MaxShares
    BY <1>3, <1>4
  <2> QED BY <1>2, <1>4, <2>1, <2>2 DEF SnapInv, SnapTypeOK
<1>6. ReadsOK' /\ Sees' /\ LastSnapAgrees'
  BY <1>1, <1>2 DEF SnapInv, ReadsOK, Sees, Led, LastSnapAgrees
<1>7. Accounts'
  <2> SUFFICES ASSUME "overlap" \notin excuses
               PROVE  Accounts!2'
    BY <1>4 DEF Accounts
  <2>1. Accounts!2
    BY DEF SnapInv, Accounts
  <2>2. counted + News(shares)' <= mined'
    BY <1>2, <1>3, <1>4, <2>1 DEF News
  <2>3. ASSUME NEW s \in Running, NEW n \in got[s]["pools"], n # NoPools
        PROVE  counted + News(n)' + Since(n)' <= mined'
    <3>1. n \in 0 .. MaxShares
      BY <2>3 DEF SnapInv, ReadsOK, Running
    <3>2. counted + News(n) + Since(n) <= mined
      BY <2>1, <2>3
    <3>3. News(n)' = News(n) /\ News(n) \in Nat
      BY <1>2, <1>3, <3>1 DEF News
    <3> QED BY <1>3, <1>4, <3>1, <3>2, <3>3 DEF Since
  <2> QED BY <1>2, <2>1, <2>2, <2>3
<1>8. Exact'
  <2>1. ASSUME NEW s \in Running, NEW n \in got[s]["pools"], n # NoPools
        PROVE  n \in 0 .. MaxShares
    BY <2>1 DEF SnapInv, ReadsOK, Running
  <2> QED BY <1>1, <1>2, <1>3, <1>4, <2>1 DEF SnapInv, Exact
<1> QED BY <1>1, <1>5, <1>6, <1>7, <1>8 DEF SnapInv

LEMMA SnapNextInv == ASSUME SnapInv, [Next]_vars PROVE SnapInv'
<1>1. CASE UNCHANGED vars
  BY <1>1, CommandStep DEF vars
<1>2. CASE CommandNext /\ UNCHANGED snapVars
  BY <1>2, CommandStep
<1>3. CASE SnapNext /\ UNCHANGED commandVars
  BY <1>3, TakeStep, FailsStep, CompletesV2Step, CompletesV3Step, AnsweredStep, MinerStep
     DEF SnapNext
<1> QED BY <1>1, <1>2, <1>3 DEF Next

THEOREM SnapInvariance == Spec => []SnapInv
<1>1. SnapInit => SnapInv
  BY SnapInitInv
<1>2. SnapInv /\ [Next]_vars => SnapInv'
  BY SnapNextInv
<1> QED BY <1>1, <1>2, PTL DEF Spec

\* Type correctness of the snapshots, for any calls, snapshots and bounds.
THEOREM SnapTypeCorrect == Spec => []SnapTypeOK
<1>1. SnapInv => SnapTypeOK
  BY DEF SnapInv
<1> QED BY <1>1, SnapInvariance, PTL

\* The shares that the snapshots report add up, across resets of the miner's
\* counter, answers without pools and failed snapshots.
THEOREM Adds == Spec => []SharesAddUp
<1>1. SnapInv => SharesAddUp
  <2> SUFFICES ASSUME SnapInv PROVE SharesAddUp
    OBVIOUS
  <2>1. /\ shares \in Nat /\ cachedShares \in Nat /\ mined \in Nat /\ counted \in Nat
        /\ News(shares) \in Nat
    BY MaxSharesIsNat DEF SnapInv, SnapTypeOK, News
  <2>2. gen \in {"v2", "v3"}
    BY CommandsAssumption DEF SnapInv, IndInv, TypeOK
  <2> QED BY <2>1, <2>2 DEF SnapInv, Accounts, Exact, SharesAddUp
<1> QED BY <1>1, SnapInvariance, PTL

\* The error log that v2's snapshots share agrees with the last of them.
THEOREM LogAgrees == Spec => []LastSnapAgrees
<1>1. SnapInv => LastSnapAgrees
  BY DEF SnapInv
<1> QED BY <1>1, SnapInvariance, PTL

\* A snapshot that began after a successful setLED shows the LED as that left
\* it, unless another command or a timer interfered.
THEOREM ShowsLed == Spec => SnapShowsLed
<1> DEFINE Shown ==
      \A s \in Snaps :
        phase[s] = "running" /\ phase'[s] = "ok" /\ lit[s] = solo["led"] =>
          \A c \in lit[s] : lastSnap'.led = IF cmd[c] = "ledOn" THEN "manual" ELSE "auto"
<1>1. SnapInv /\ [Next]_vars => [Shown]_vars
  <2> SUFFICES ASSUME SnapInv, Next,
                      NEW s \in Snaps, phase[s] = "running", phase'[s] = "ok",
                      lit[s] = solo["led"], NEW c \in lit[s]
               PROVE  lastSnap'.led = Led(c)
    BY DEF Led
  <2>1. c \in Calls /\ got[s]["info"] \subseteq {Led(c), "noMsg"}
    BY DEF SnapInv, Sees, Running
  <2>2. \E t \in Snaps : CompletesV2(t) \/ CompletesV3(t)
    BY DEF Next, SnapNext, snapVars, Take, Fails, Answered, MinerMines, MinerResets,
           MinerErrs, End, SnapInv, SnapTypeOK
  <2>3. PICK t \in Snaps : CompletesV2(t) \/ CompletesV3(t)
    BY <2>2
  <2>4. \/ phase' = [phase EXCEPT ![t] = "ok"] \/ phase' = [phase EXCEPT ![t] = "failed"]
    BY <2>3 DEF CompletesV2, CompletesV3, End
  <2>5. t = s /\ phase' # [phase EXCEPT ![t] = "failed"]
    BY <2>4 DEF SnapInv, SnapTypeOK
  <2>6. \E led \in got[s]["info"] : lastSnap'.led = led /\ led # "noMsg"
    <3>1. CASE CompletesV2(s)
      BY <2>5, <3>1 DEF CompletesV2, End
    <3>2. CASE CompletesV3(s)
      <4>1. gen = "v3"
        BY <3>2 DEF CompletesV3
      <4>2. "noMsg" \notin got[s]["info"]
        BY <4>1 DEF SnapInv, ReadsOK
      <4> QED BY <3>2, <4>2 DEF CompletesV3
    <3> QED BY <2>3, <2>5, <3>1, <3>2
  <2> QED BY <2>1, <2>6
<1> QED BY <1>1, SnapInvariance, PTL DEF Spec, SnapShowsLed

=============================================================================
