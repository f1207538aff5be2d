--------------------------- MODULE WriteContract ---------------------------
(***************************************************************************)
(* What the worker promises about a command that changes a miner           *)
(* (README.md, "Safety"; the outcome codes of mdk-contract.json).  A call  *)
(* is issued, the device carries the command out at most once, and the     *)
(* caller is given one verdict that is never contradicted afterwards:      *)
(*   "applied"     the command was carried out                             *)
(*   "notApplied"  it was not, and it never will be                        *)
(*   "unknown"     nobody can tell: it may still be carried out later      *)
(***************************************************************************)
EXTENDS Naturals

CONSTANT Calls          \* the writes, each issued at most once

VARIABLES
  issued,               \* the calls that were issued
  applied,              \* how often the device carried out each call
  verdict               \* what each call's caller was told

vars == <<issued, applied, verdict>>

Verdicts == {"applied", "notApplied", "unknown"}

Init ==
  /\ issued = {}
  /\ applied = [c \in Calls |-> 0]
  /\ verdict = [c \in Calls |-> "none"]

Issue(c) ==
  /\ c \notin issued
  /\ issued' = issued \union {c}
  /\ UNCHANGED <<applied, verdict>>

\* The device may carry the command out late, but never after a definite verdict.
Apply(c) ==
  /\ c \in issued
  /\ applied[c] = 0
  /\ verdict[c] \in {"none", "unknown"}
  /\ applied' = [applied EXCEPT ![c] = 1]
  /\ UNCHANGED <<issued, verdict>>

\* What can truthfully be said of a call.
Truthful(c, v) ==
  /\ v = "applied" => applied[c] = 1
  /\ v = "notApplied" => applied[c] = 0

Report(c) ==
  /\ c \in issued
  /\ verdict[c] = "none"
  /\ \E v \in Verdicts : Truthful(c, v) /\ verdict' = [verdict EXCEPT ![c] = v]
  /\ UNCHANGED <<issued, applied>>

\* A command of several writes goes on to write d once c was confirmed.
Proceed(c, d) ==
  /\ c \in issued /\ d \notin issued
  /\ verdict[c] = "none"
  /\ applied[c] = 1
  /\ verdict' = [verdict EXCEPT ![c] = "applied"]
  /\ issued' = issued \union {d}
  /\ UNCHANGED applied

Next ==
  \/ \E c \in Calls : Issue(c) \/ Apply(c) \/ Report(c)
  \/ \E c, d \in Calls : Proceed(c, d)

Spec == Init /\ [][Next]_vars
============================================================================
