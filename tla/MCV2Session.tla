---------------------------- MODULE MCV2Session ----------------------------
(***************************************************************************)
(* V2Session for TLC.  Calls of every kind are there, and a behaviour      *)
(* makes those of one cast: so every pair of kinds shares the token.       *)
(***************************************************************************)
EXTENDS V2Session

CONSTANT Casts          \* bound: the sets of calls that behaviours make

ASSUME CastsAssumption == Casts \subseteq SUBSET Calls

Started == {c \in Calls : pc[c] # "idle"}

MCStart(c) == (\E cast \in Casts : Started \union {c} \subseteq cast) /\ Start(c)

MCFinished ==
  /\ Started \in Casts
  /\ \A c \in Started : pc[c] = "done" /\ wire[c] = "none"
  /\ UNCHANGED vars

MCNext ==
  \/ \E c \in Calls : MCStart(c) \/ Settle(c) \/ Device(c)
  \/ \E t \in valid : DeviceForgets(t)
  \/ MCFinished

MCSpec == Init /\ [][MCNext]_vars /\ Fairness
============================================================================
