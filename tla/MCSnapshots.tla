---------------------------- MODULE MCSnapshots ----------------------------
(***************************************************************************)
(* Snapshots and Commands for TLC: a behaviour makes the calls and the     *)
(* snapshots of one cast, and the miner changes by itself only where a     *)
(* snapshot can see it.                                                    *)
(***************************************************************************)
EXTENDS Snapshots

CONSTANT Casts          \* bound: the calls and snapshots that behaviours make

ASSUME CastsAssumption == Casts \subseteq SUBSET (Calls \union Snaps)

Started == {c \in Calls : pc[c] # "idle"} \union {s \in Snaps : phase[s] # "idle"}

MayStart(x) == \E cast \in Casts : Started \union {x} \subseteq cast

MCCommand(c) ==
  /\ pc[c] = "idle" => MayStart(c)
  /\ Command(c)
  /\ UNCHANGED snapVars

MCTake(s) == MayStart(s) /\ Take(s) /\ UNCHANGED commandVars

MCSnapNext ==
  /\ Started \intersect Snaps # {}
  /\ \/ \E s \in Snaps :
          \/ Fails(s) \/ CompletesV2(s) \/ CompletesV3(s)
          \/ \E r \in Reads : Answered(s, r)
     \/ MinerMines \/ MinerResets \/ MinerErrs
  /\ UNCHANGED commandVars

\* Nothing is left to do.
MCFinished ==
  /\ Started \in Casts
  /\ \A c \in Calls \intersect Started :
       pc[c] = "done" /\ c \notin timers /\ \A s \in Steps : ~InDoubt(<<c, s>>)
  /\ Running = {}
  /\ UNCHANGED vars

MCNext ==
  \/ \E c \in Calls : MCCommand(c)
  \/ \E s \in Snaps : MCTake(s)
  \/ MCSnapNext
  \/ MCFinished

MCSpec == SnapInit /\ [][MCNext]_vars /\ CommandFairness
============================================================================
