------------------------------ MODULE Commands ------------------------------
(***************************************************************************)
(* The commands of both clients, above the session: which writes a command *)
(* consists of, which of them it waits for, what it makes of their         *)
(* answers, and the timer that gives a lit LED back to the miner.          *)
(*                                                                         *)
(* A write is one of WriteContract, which V2Session and V3Session are      *)
(* shown to implement: the miner carries it out at most once, perhaps late,*)
(* and the answer is truthful about it.  Two details of v2 make its        *)
(* commands hard: an answer that is understood but refuses does not throw, *)
(* and some writes are sent and not waited for.                            *)
(***************************************************************************)
EXTENDS Naturals, FiniteSets

CONSTANTS
  Generations,    \* of {"v2", "v3"}
  Calls,          \* the calls of commands
  Kinds,          \* the commands that are called
  Modes           \* the power modes other than sleep

\* "plain" stands for the commands of one write whose answer is the result.
ASSUME CommandsAssumption ==
  /\ Generations \subseteq {"v2", "v3"}
  /\ Kinds \subseteq {"ledOn", "ledOff", "sleep", "plain", "setZone"} \union Modes
  /\ Modes \intersect {"none", "ledOn", "ledOff", "sleep", "plain", "setZone"} = {}

VARIABLES
  gen,            \* the client's API generation
  miner,          \* what the commands change: its LED, service and power mode
  cmd,            \* the command of a call
  pc,             \* the write a call waits for: idle, first, second, done
  result,         \* what a call returned
  timers,         \* the calls whose timer is running
  issued, applied, verdict,     \* the writes, as in WriteContract
  solo            \* (history) per attribute: the call nobody interfered with

Steps == {"first", "second", "timer"}
Writes == Calls \X Steps

W == INSTANCE WriteContract WITH Calls <- Writes

commandVars == <<gen, miner, cmd, pc, result, timers, issued, applied, verdict, solo>>

----------------------------------------------------------------------------
(* The shape of a command.                                                 *)

\* v2 lights the red and the green LED one after the other, v3 both at once;
\* a power mode is set after the service was started.
HasSecond(k) == k \in Modes \/ (k = "ledOn" /\ gen = "v2")

\* Mutant: v3's setLED, too, does not wait.
MutAwaitedNotLed(k, s) ==
  ~(k = "ledOn" /\ gen = "v3")
  /\ ~(gen = "v2" /\ (k = "sleep" \/ (k \in Modes /\ s = "second")))

\* v2 powers off, and sends the mode, without waiting for an answer.
Awaited(k, s) ==
  ~(gen = "v2" /\ (k = "sleep" \/ (k \in Modes /\ s = "second")))

\* The answer to a write, and what may truthfully be concluded from it.
Answers == [ok |-> {"applied"}, denied |-> {"notApplied"},
            failed |-> {"notApplied", "unknown"}]

\* A refusal that was understood: v2 returns it, v3 throws.
AnswersOf(g) == IF g = "v2" THEN {"ok", "denied", "failed"} ELSE {"ok", "failed"}

\* Mutant: the mode is sent whatever the start of the service said.
MutGoesOnAlways(k, a) == HasSecond(k) /\ a # "failed"

\* v2's setLED throws only for an exception; the mode needs a confirmed start.
GoesOn(k, a) == HasSecond(k) /\ a \in IF k = "ledOn" THEN {"ok", "denied"} ELSE {"ok"}

\* Mutant: only the last of the two answers is looked at.
MutResultOfLast(k, first, a) ==
  CASE gen = "v2" /\ k \in Modes -> "success"
    [] gen = "v2" /\ k = "setZone" /\ a = "denied" -> "success"
    [] a = "ok" -> "success"
    [] OTHER -> a

\* Mutant: the answer is returned instead of what it means.
MutResultOfRaw(k, first, a) == a

\* What a call returns after its last answer: "denied" is {success: false} and
\* "failed" the same with an error message.  v2's setPowerMode returns success
\* whatever was answered, its setZone unless there was an exception.
ResultOf(k, first, a) ==
  CASE gen = "v2" /\ k \in Modes -> "success"
    [] gen = "v2" /\ k = "setZone" /\ a = "denied" -> "success"
    [] a = "ok" -> IF first = "denied" THEN "denied" ELSE "success"
    [] OTHER -> a

\* What the miner makes of a write.
Effect(c, s) ==
  CASE s = "timer" \/ cmd[c] = "ledOff" -> [miner EXCEPT !.led = "auto"]
    [] s # "timer" /\ cmd[c] = "ledOn" -> [miner EXCEPT !.led = "manual"]
    [] cmd[c] = "sleep" -> [miner EXCEPT !.service = "stopped"]
    [] cmd[c] \in Modes /\ s = "first" -> [miner EXCEPT !.service = "started"]
    [] cmd[c] \in Modes /\ s = "second" -> [miner EXCEPT !.mode = cmd[c]]
    [] OTHER -> miner

----------------------------------------------------------------------------
(* Which call nobody interfered with (history).                            *)

Attributes == {"led", "power"}
Attribute(k) ==
  CASE k \in {"ledOn", "ledOff"} -> "led"
    [] k \in Modes \union {"sleep"} -> "power"
    [] OTHER -> "none"

InDoubt(w) == w \in issued /\ applied[w] = 0 /\ verdict[w] \in {"none", "unknown"}

Quiet(attr) ==
  \A c \in Calls : Attribute(cmd[c]) = attr =>
    pc[c] \in {"idle", "done"} /\ \A s \in Steps : ~InDoubt(<<c, s>>)

Alone(c, k) ==
  [attr \in Attributes |->
     IF attr # Attribute(k) THEN solo[attr] ELSE IF Quiet(attr) THEN {c} ELSE {}]

----------------------------------------------------------------------------
Init ==
  /\ gen \in Generations
  /\ miner = [led |-> "auto", service |-> "started", mode |-> "normal"]
  /\ cmd = [c \in Calls |-> "none"]
  /\ pc = [c \in Calls |-> "idle"]
  /\ result = [c \in Calls |-> "none"]
  /\ timers = {}
  /\ W!Init
  /\ solo = [attr \in Attributes |-> {}]

\* Write w is answered with a, and its caller concludes v.
Hear(w, a) ==
  /\ w \in issued /\ verdict[w] = "none"
  /\ \E v \in Answers[a] : W!Truthful(w, v) /\ verdict' = [verdict EXCEPT ![w] = v]

Finish(c, r) ==
  /\ pc' = [pc EXCEPT ![c] = "done"]
  /\ result' = [result EXCEPT ![c] = r]

\* Write s of call c is sent; the call waits for it, or returns success.
Send(c, k, s) ==
  /\ issued' = issued \union {<<c, s>>}
  /\ IF Awaited(k, s) THEN pc' = [pc EXCEPT ![c] = s] /\ UNCHANGED result
                      ELSE Finish(c, "success")

Begin(c, k) ==
  /\ pc[c] = "idle"
  /\ k = "setZone" => gen = "v2"
  /\ cmd' = [cmd EXCEPT ![c] = k]
  /\ Send(c, k, "first")
  /\ solo' = Alone(c, k)
  /\ UNCHANGED <<gen, miner, timers, applied, verdict>>

\* An argument is refused before anything is sent.
Refuse(c) ==
  /\ pc[c] = "idle"
  /\ Finish(c, "failed")
  /\ UNCHANGED <<gen, miner, cmd, timers, issued, applied, verdict, solo>>

GoOn(c) ==
  /\ pc[c] = "first"
  /\ \E a \in AnswersOf(gen) : GoesOn(cmd[c], a) /\ Hear(<<c, "first">>, a)
  /\ Send(c, cmd[c], "second")
  /\ UNCHANGED <<gen, miner, cmd, timers, applied, solo>>

\* Mutant: the timer is not set when the second LED was refused.
MutTimersAfterOfSuccess(c, a, r) ==
  IF cmd[c] = "ledOn" /\ r = "success" THEN timers \union {c} ELSE timers

\* setLED(true) sets a timer unless there was an exception.
TimersAfter(c, a, r) ==
  IF cmd[c] = "ledOn" /\ a # "failed" THEN timers \union {c} ELSE timers

FirstAnswer(c) ==
  IF pc[c] = "second" /\ verdict[<<c, "first">>] = "notApplied" THEN "denied" ELSE "ok"

Return(c) ==
  /\ pc[c] \in {"first", "second"}
  /\ \E a \in AnswersOf(gen) :
       LET r == ResultOf(cmd[c], FirstAnswer(c), a)
       IN  /\ pc[c] = "first" => ~GoesOn(cmd[c], a)
           /\ Hear(<<c, pc[c]>>, a)
           /\ Finish(c, r)
           /\ timers' = TimersAfter(c, a, r)
  /\ UNCHANGED <<gen, miner, cmd, issued, applied, solo>>

\* Mutant: a timer that fires during another command is dropped.
MutTimerFiresIfIdle(c) ==
  /\ c \in timers
  /\ timers' = timers \ {c}
  /\ issued' = IF \E d \in Calls : pc[d] \in {"first", "second"}
               THEN issued ELSE issued \union {<<c, "timer">>}
  /\ solo' = [solo EXCEPT !["led"] = {}]
  /\ UNCHANGED <<gen, miner, cmd, pc, result, applied, verdict>>

\* Two minutes after it was set: setLED(false), of which nobody sees the result.
TimerFires(c) ==
  /\ c \in timers
  /\ timers' = timers \ {c}
  /\ issued' = issued \union {<<c, "timer">>}
  /\ solo' = [solo EXCEPT !["led"] = {}]
  /\ UNCHANGED <<gen, miner, cmd, pc, result, applied, verdict>>

\* The answer to a write that no call waits for.
Unheard(c, s) ==
  /\ s # pc[c]
  /\ \E a \in AnswersOf(gen) : Hear(<<c, s>>, a)
  /\ UNCHANGED <<gen, miner, cmd, pc, result, timers, issued, applied, solo>>

MinerApplies(c, s) ==
  /\ W!Apply(<<c, s>>)
  /\ miner' = Effect(c, s)
  /\ UNCHANGED <<gen, cmd, pc, result, timers, solo>>

Command(c) ==
  \/ \E k \in Kinds : Begin(c, k)
  \/ Refuse(c) \/ GoOn(c) \/ Return(c) \/ TimerFires(c)
  \/ \E s \in Steps : Unheard(c, s) \/ MinerApplies(c, s)

CommandNext == \E c \in Calls : Command(c)

\* The sockets' timeouts settle every write; the event loop serves its timers.
CommandFairness ==
  \A c \in Calls :
    /\ WF_commandVars(GoOn(c) \/ Return(c))
    /\ WF_commandVars(TimerFires(c))
    /\ \A s \in Steps : WF_commandVars(Unheard(c, s))

CommandSpec ==
  Init /\ [][CommandNext]_commandVars /\ CommandFairness

----------------------------------------------------------------------------
(* Properties.                                                             *)

TypeOK ==
  /\ gen \in Generations
  /\ miner \in [led : {"auto", "manual"}, service : {"started", "stopped"},
                mode : Modes \union {"normal"}]
  /\ cmd \in [Calls -> Kinds \union {"none"}]
  /\ pc \in [Calls -> {"idle", "first", "second", "done"}]
  /\ result \in [Calls -> {"none", "success", "denied", "failed"}]
  /\ timers \subseteq Calls
  /\ issued \subseteq Writes
  /\ applied \in [Writes -> {0, 1}]
  /\ verdict \in [Writes -> {"none"} \union W!Verdicts]
  /\ solo \in [Attributes -> SUBSET Calls]

\* What a command asks the miner to be.
Shows(c) ==
  CASE cmd[c] = "ledOn" -> miner.led = "manual"
    [] cmd[c] = "ledOff" -> miner.led = "auto"
    [] cmd[c] = "sleep" -> miner.service = "stopped"
    [] cmd[c] \in Modes -> miner.service = "started" /\ miner.mode = cmd[c]
    [] OTHER -> TRUE

\* v2 reports these as successful without knowing.
Unchecked(c) == gen = "v2" /\ cmd[c] \in Modes \union {"sleep", "setZone"}

\* A command that reports success was carried out, each of its writes, and
\* where no other command or timer interfered, the miner is now as it was asked
\* to be, until somebody interferes: nothing of the command is still under way.
SuccessIsTrue ==
  \A c \in Calls : result[c] = "success" /\ ~Unchecked(c) =>
    /\ \A s \in {"first", "second"} : <<c, s>> \in issued => applied[<<c, s>>] = 1
    /\ \A attr \in Attributes : c \in solo[attr] => Shows(c)

\* A power mode reaches the miner only after its own start of the service did,
\* of either generation, although v2 sends it without waiting.
ModeAfterStart ==
  \A c \in Calls :
    cmd[c] \in Modes /\ applied[<<c, "second">>] = 1 => applied[<<c, "first">>] = 1

\* A setLED(true) ended with an exception, perhaps after its first write, or the
\* setLED(false) of its timer did: it will not switch the LED off.
Forsakes(c) ==
  /\ cmd[c] = "ledOn"
  /\ result[c] = "failed" \/ verdict[<<c, "timer">>] \in {"notApplied", "unknown"}

LedForsaken == \E c \in Calls : Forsakes(c)

\* It is not over, or its timer runs, or the timer's write is under way.
Attends(c) ==
  /\ cmd[c] = "ledOn"
  /\ pc[c] \in {"first", "second"} \/ c \in timers \/ InDoubt(<<c, "timer">>)

\* As long as the LED is lit, somebody is going to switch it off, unless a call
\* or a timer that should have done so failed.
LedAttended ==
  miner.led = "manual" /\ ~LedForsaken => \E c \in Calls : Attends(c)

\* The LED does not stay lit, unless it was forsaken.
LedReturns == miner.led = "manual" ~> miner.led = "auto" \/ LedForsaken
============================================================================
