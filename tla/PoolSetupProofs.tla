--------------------------- MODULE PoolSetupProofs ---------------------------
(***************************************************************************)
(* Proofs about PoolSetup, for any calls, pools and addresses: a reported  *)
(* success was true, the miner ends up mining with the pools it holds, v3  *)
(* remembers the pools of the update that was carried out, and its view    *)
(* merges them with the miner's without losing or repeating one.           *)
(***************************************************************************)
EXTENDS PoolSetup, FunctionTheorems, FiniteSetTheorems, SequenceTheorems, TLAPS

----------------------------------------------------------------------------
(* The inductive invariant.                                                *)

\* Where a call is says what is on its wire.
Stages ==
  \A c \in Calls :
    /\ pc[c] # "done" => result[c] = "none" /\ reboot[c] = "none"
    /\ pc[c] = "idle" => wire[c] = "none"
    /\ pc[c] = "read" => gen = "v2" /\ wire[c] \in {"pools", "list"}
    /\ pc[c] = "write" => wire[c] \in {"update", "ok", "denied", "none"}
    /\ pc[c] = "done" => wire[c] \in {"update", "none"} /\ result[c] # "none"
    /\ pc[c] = "done" /\ wire[c] = "update" =>
         (gen = "v2" /\ c \notin Setters) \/ result[c] = "failure"

\* had is true as soon as the miner holds the pools during the call; so it is
\* when the answer under way says that it held or was given them.
Held ==
  \A c \in Calls :
    /\ pc[c] \in {"read", "write"} /\ Holds(device, wanted[c]) => had[c]
    /\ pc[c] = "read" /\ wire[c] = "list" /\ Holds(seen[c], wanted[c]) => had[c]
    /\ pc[c] = "write" /\ wire[c] = "ok" => had[c]
    /\ c \in Setters /\ result[c] \in {"success", "same"} => had[c]

\* A call that may have changed the miner's pools without a reboot so far.
Owes(c) ==
  \/ pc[c] = "write" /\ wire[c] \in {"ok", "none"}
  \/ reboot[c] \in {"sent", "lost"}
  \/ result[c] \notin {"none", "success", "same"}
  \/ c \notin Setters

Rebooted ==
  /\ gen = "v3" => active = device
  /\ active = device \/ \E c \in Calls : Owes(c)

\* v3: the update of a call may still reach the miner.
InFlight(c) == pc[c] = "write" \/ wire[c] = "update"

\* Why configuredPools are what they are once an update succeeded.
Reason ==
  \/ configured = device
  \/ \E c \in Calls : result[c] = "failure" /\ device = wanted[c]
  \/ \E c \in Calls : pc[c] = "write" /\ wire[c] \in {"ok", "none"} /\ device = wanted[c]

Remembered ==
  gen = "v3" /\ ~crossed =>
    /\ \A c, d \in Calls : InFlight(c) /\ InFlight(d) => c = d
    /\ \A c \in Calls : pc[c] = "write" /\ wire[c] = "ok" => device = wanted[c]
    /\ (\E c \in Calls : result[c] = "success") => Reason

IndInv == TypeOK /\ Stages /\ Held /\ Rebooted /\ Remembered

----------------------------------------------------------------------------
(* Lists of pools.                                                         *)

LEMMA ListsAre ==
  /\ <<>> \in Lists
  /\ \A list \in Lists : list \in Seq(Pools) /\ Len(list) \in 0 .. 3
<1>1. MaxPools \in Nat /\ MaxPools <= 3
  BY PoolAssumption
<1>2. <<>> \in [1 .. 0 -> Pools]
  OBVIOUS
<1>3. <<>> \in Lists
  BY <1>1, <1>2 DEF Lists, SeqOf
<1>4. ASSUME NEW list \in Lists
      PROVE  list \in Seq(Pools) /\ Len(list) \in 0 .. 3
  <2>1. PICK m \in 0 .. MaxPools : list \in [1 .. m -> Pools]
    BY DEF Lists, SeqOf
  <2>2. m \in Nat /\ m \in 0 .. 3
    BY <1>1, <2>1
  <2>3. list \in Seq(Pools) /\ Len(list) = m
    BY <2>1, <2>2, SeqDef, LenProperties
  <2> QED BY <2>2, <2>3
<1> QED BY <1>3, <1>4

LEMMA PaddedIs ==
  ASSUME NEW list \in Lists
  PROVE  /\ Len(Padded(list)) = 3
         /\ \A i \in 1 .. 3 :
              Padded(list)[i] = IF i <= Len(list) THEN list[i] ELSE NoPool
<1> DEFINE n == Len(list)
           rest == [i \in 1 .. 3 - n |-> NoPool]
           S == Pools \union {NoPool}
<1>1. list \in Seq(Pools) /\ n \in 0 .. 3
  BY ListsAre
<1>2. list \in Seq(S)
  BY <1>1
<1>3. rest \in Seq(S) /\ Len(rest) = 3 - n
  <2>1. 3 - n \in Nat /\ rest \in [1 .. 3 - n -> S]
    <3>1. NoPool \in S
      OBVIOUS
    <3>2. 3 - n \in Nat
      <4>1. \A k \in 0 .. 3 : 3 - k \in Nat
        OBVIOUS
      <4> HIDE DEF n
      <4> QED BY <1>1, <4>1
    <3> HIDE DEF S
    <3> QED BY <3>1, <3>2
  <2> HIDE DEF rest, S
  <2> QED BY <2>1, SeqDef, LenProperties
<1> HIDE DEF rest, S
<1>4. /\ Len(list \o rest) = n + Len(rest)
      /\ \A i \in 1 .. n + Len(rest) :
           (list \o rest)[i] = IF i <= n THEN list[i] ELSE rest[i - n]
  BY <1>2, <1>3, ConcatProperties
<1>5. Len(list \o rest) = 3
  BY <1>1, <1>3, <1>4
<1>6. ASSUME NEW i \in 1 .. 3
      PROVE  (list \o rest)[i] = IF i <= n THEN list[i] ELSE NoPool
  <2>1. CASE i <= n
    BY <1>1, <1>3, <1>4, <2>1
  <2>2. CASE ~(i <= n)
    <3>1. i - n \in 1 .. 3 - n /\ i \in 1 .. n + Len(rest)
      BY <1>1, <1>3, <2>2
    <3>2. rest[i - n] = NoPool
      BY <3>1 DEF rest
    <3> QED BY <1>4, <2>2, <3>1, <3>2
  <2> QED BY <2>1, <2>2
<1> QED BY <1>5, <1>6 DEF Padded, rest

\* Lists that look the same: the miner holds what was requested.
LEMMA SameIsHeld ==
  ASSUME NEW new \in Lists, NEW old \in Lists, checkSamePools(Padded(new), Padded(old))
  PROVE  Holds(old, new)
<1> SUFFICES ASSUME NEW i \in DOMAIN new
             PROVE  \E j \in DOMAIN old : old[j] = new[i]
  BY DEF Holds, ToSet
<1>1. /\ new \in Seq(Pools) /\ Len(new) \in 0 .. 3 /\ DOMAIN new = 1 .. Len(new)
      /\ old \in Seq(Pools) /\ Len(old) \in 0 .. 3 /\ DOMAIN old = 1 .. Len(old)
  BY ListsAre
<1>2. i \in 1 .. 3 /\ i <= Len(new) /\ new[i] \in Pools
  BY <1>1
<1>3. Padded(new)[i] = new[i]
  BY <1>2, PaddedIs
<1>4. i \in DOMAIN Padded(new)
  <2>1. Padded(new) \in Seq(Pools \union {NoPool})
    <3>1. new \in Seq(Pools \union {NoPool})
      BY <1>1
    <3>2. 3 - Len(new) \in Nat
      BY <1>1
    <3>3. [k \in 1 .. 3 - Len(new) |-> NoPool] \in Seq(Pools \union {NoPool})
      BY <3>2, SeqDef
    <3> QED BY <3>1, <3>3, ConcatProperties DEF Padded
  <2> QED BY <1>2, <2>1, PaddedIs
<1>5. PICK j \in 1 .. Len(Padded(old)) : Padded(old)[j] = new[i]
  BY <1>3, <1>4 DEF checkSamePools, ToSet
<1>6. j \in 1 .. 3
  BY <1>5, PaddedIs
<1>7. j <= Len(old)
  BY <1>1, <1>2, <1>5, <1>6, NoPoolIsNone, PaddedIs
<1>8. j \in DOMAIN old /\ old[j] = new[i]
  BY <1>1, <1>5, <1>6, <1>7, PaddedIs
<1> QED BY <1>8

----------------------------------------------------------------------------
(* Every step keeps the invariant.                                         *)

LEMMA InitInv == ASSUME Init PROVE IndInv
<1>1. TypeOK
  BY ListsAre DEF Init, TypeOK
<1>2. Stages /\ Held /\ Rebooted
  BY DEF Init, Stages, Held, Rebooted
<1>3. Remembered
  BY DEF Init, Remembered, InFlight
<1> QED BY <1>1, <1>2, <1>3 DEF IndInv

LEMMA GenIs == ASSUME IndInv PROVE gen \in {"v2", "v3"}
BY PoolAssumption DEF IndInv, TypeOK

\* What a call resolves to.
LEMMA ReportedIs ==
  ASSUME NEW c \in Calls, NEW r \in {"same", "success", "failure", "thrown"}
  PROVE  /\ Reported(c, r) \in {"same", "success", "failure", "thrown"}
         /\ c \in Setters \/ gen = "v3" => Reported(c, r) = r
  BY PoolAssumption DEF Reported, Calls

LEMMA BeginStep == ASSUME IndInv, NEW c \in Calls, Begin(c) PROVE IndInv'
<1>1. /\ UNCHANGED <<gen, wanted, device, active, configured, reboot, result, seen>>
      /\ pc[c] = "idle" /\ wire[c] = "none"
      /\ crossed' = Crossing(c) /\ had' = [had EXCEPT ![c] = Holds(device, wanted[c])]
  BY DEF Begin, IndInv, Stages
<1>2. /\ gen = "v2" => pc' = [pc EXCEPT ![c] = "read"] /\ wire' = [wire EXCEPT ![c] = "pools"]
      /\ gen # "v2" => pc' = [pc EXCEPT ![c] = "write"] /\ wire' = [wire EXCEPT ![c] = "update"]
  BY DEF Begin, Send
<1>3. /\ \A d \in Calls \ {c} : pc'[d] = pc[d] /\ wire'[d] = wire[d] /\ had'[d] = had[d]
      /\ gen = "v2" => pc'[c] = "read" /\ wire'[c] = "pools"
      /\ gen # "v2" => pc'[c] = "write" /\ wire'[c] = "update"
      /\ had'[c] = Holds(device, wanted[c])
  BY <1>1, <1>2 DEF IndInv, TypeOK
<1>4. TypeOK'
  <2>1. crossed' \in BOOLEAN /\ had' \in [Calls -> BOOLEAN]
    BY <1>1 DEF Crossing, Holds, IndInv, TypeOK
  <2> QED BY <1>1, <1>2, <2>1 DEF IndInv, TypeOK
<1>5. Stages'
  BY <1>1, <1>3 DEF IndInv, Stages
<1>6. Held'
  <2>1. ASSUME NEW d \in Calls
        PROVE  /\ pc'[d] \in {"read", "write"} /\ Holds(device, wanted[d]) => had'[d]
               /\ pc'[d] = "read" /\ wire'[d] = "list" /\ Holds(seen[d], wanted[d]) => had'[d]
               /\ pc'[d] = "write" /\ wire'[d] = "ok" => had'[d]
               /\ d \in Setters /\ result[d] \in {"success", "same"} => had'[d]
    <3>1. CASE d = c
      <4>1. result[c] = "none" /\ gen \in {"v2", "v3"}
        BY <1>1, GenIs DEF IndInv, Stages
      <4> QED BY <1>3, <3>1, <4>1
    <3>2. CASE d # c
      BY <1>3, <3>2 DEF IndInv, Held
    <3> QED BY <3>1, <3>2
  <2> QED BY <1>1, <2>1 DEF Held, Holds
<1>7. Rebooted'
  BY <1>1, <1>3 DEF IndInv, Rebooted, Owes
<1>8. Remembered'
  <2> SUFFICES ASSUME gen = "v3", ~crossed' PROVE Remembered!2'
    BY <1>1 DEF Remembered
  <2>1. ~crossed /\ \A d \in Calls \ {c} : ~InFlight(d)
    BY <1>1 DEF Crossing, InFlight
  <2>2. \A d \in Calls \ {c} : ~InFlight(d)'
    BY <1>3, <2>1 DEF InFlight
  <2>3. Remembered!2
    BY <2>1 DEF IndInv, Remembered
  <2>4. (\E d \in Calls : result[d] = "success") => Reason'
    BY <1>1, <1>3, <2>3 DEF Reason
  <2>5. \A d \in Calls : pc'[d] = "write" /\ wire'[d] = "ok" => device' = wanted'[d]
    BY <1>1, <1>3, <2>2 DEF InFlight
  <2> QED BY <1>1, <2>2, <2>4, <2>5
<1> QED BY <1>4, <1>5, <1>6, <1>7, <1>8 DEF IndInv

\* v2's read: what was read decides what is sent.
LEMMA ComparedStep == ASSUME IndInv, NEW c \in Calls, Compared(c) PROVE IndInv'
<1>1. /\ UNCHANGED <<gen, crossed, wanted, device, active, configured, reboot, had, seen>>
      /\ pc[c] = "read" /\ wire[c] = "list" /\ gen = "v2"
  BY DEF Compared, IndInv, Stages
<1>2. CASE checkSamePools(Padded(wanted[c]), Padded(seen[c]))
  <2>1. /\ pc' = [pc EXCEPT ![c] = "done"] /\ wire' = [wire EXCEPT ![c] = "none"]
        /\ result' = [result EXCEPT ![c] = Reported(c, "same")]
    BY <1>2 DEF Compared, Finish
  <2>2. Reported(c, "same") \in {"same", "success", "failure", "thrown"}
    BY ReportedIs
  <2>3. /\ \A d \in Calls \ {c} : pc'[d] = pc[d] /\ wire'[d] = wire[d] /\ result'[d] = result[d]
        /\ pc'[c] = "done" /\ wire'[c] = "none" /\ result'[c] = Reported(c, "same")
    BY <2>1 DEF IndInv, TypeOK
  <2>4. had[c]
    <3>1. wanted[c] \in Lists /\ seen[c] \in Lists
      BY DEF IndInv, TypeOK
    <3> QED BY <1>1, <1>2, <3>1, SameIsHeld DEF IndInv, Held
  <2>5. TypeOK'
    BY <1>1, <2>1, <2>2 DEF IndInv, TypeOK
  <2>6. Stages' /\ Held'
    BY <1>1, <2>2, <2>3, <2>4 DEF IndInv, Stages, Held
  <2>7. Rebooted'
    BY <1>1, <2>2, <2>3 DEF IndInv, Rebooted, Owes, Stages
  <2>8. Remembered'
    BY <1>1 DEF Remembered
  <2> QED BY <2>5, <2>6, <2>7, <2>8 DEF IndInv
<1>3. CASE ~checkSamePools(Padded(wanted[c]), Padded(seen[c]))
  <2>1. /\ pc' = [pc EXCEPT ![c] = "write"] /\ wire' = [wire EXCEPT ![c] = "update"]
        /\ result' = result
    BY <1>3 DEF Compared, Send
  <2>2. /\ \A d \in Calls \ {c} : pc'[d] = pc[d] /\ wire'[d] = wire[d]
        /\ pc'[c] = "write" /\ wire'[c] = "update"
    BY <2>1 DEF IndInv, TypeOK
  <2>3. TypeOK'
    BY <1>1, <2>1 DEF IndInv, TypeOK
  <2>4. Stages' /\ Held'
    BY <1>1, <2>1, <2>2 DEF IndInv, Stages, Held
  <2>5. Rebooted'
    BY <1>1, <2>1, <2>2 DEF IndInv, Rebooted, Owes
  <2>6. Remembered'
    BY <1>1 DEF Remembered
  <2> QED BY <2>3, <2>4, <2>5, <2>6 DEF IndInv
<1> QED BY <1>2, <1>3

LEMMA ReadFailsStep == ASSUME IndInv, NEW c \in Calls, ReadFails(c) PROVE IndInv'
<1>1. /\ UNCHANGED <<gen, crossed, wanted, device, active, configured, reboot, had, seen>>
      /\ pc[c] = "read" /\ gen = "v2"
      /\ pc' = [pc EXCEPT ![c] = "done"] /\ wire' = [wire EXCEPT ![c] = "none"]
      /\ result' = [result EXCEPT ![c] = "thrown"]
  BY DEF ReadFails, Finish, Reported, IndInv, Stages
<1>2. /\ \A d \in Calls \ {c} : pc'[d] = pc[d] /\ wire'[d] = wire[d] /\ result'[d] = result[d]
      /\ pc'[c] = "done" /\ wire'[c] = "none" /\ result'[c] = "thrown"
  BY <1>1 DEF IndInv, TypeOK
<1>3. TypeOK'
  BY <1>1 DEF IndInv, TypeOK
<1>4. Stages' /\ Held'
  BY <1>1, <1>2 DEF IndInv, Stages, Held
<1>5. Rebooted'
  BY <1>1, <1>2 DEF IndInv, Rebooted, Owes
<1>6. Remembered'
  BY <1>1 DEF Remembered
<1> QED BY <1>3, <1>4, <1>5, <1>6 DEF IndInv

LEMMA WrittenStep == ASSUME IndInv, NEW c \in Calls, Written(c) PROVE IndInv'
<1> DEFINE r == IF wire[c] = "ok" THEN "success" ELSE "failure"
<1>1. /\ UNCHANGED <<gen, crossed, wanted, device, active, had, seen>>
      /\ pc[c] = "write" /\ wire[c] \in {"ok", "denied"} /\ reboot[c] = "none"
      /\ pc' = [pc EXCEPT ![c] = "done"] /\ wire' = [wire EXCEPT ![c] = "none"]
      /\ result' = [result EXCEPT ![c] = Reported(c, r)]
      /\ configured' = IF gen = "v3" /\ wire[c] = "ok" THEN wanted[c] ELSE configured
      /\ reboot' = [reboot EXCEPT ![c] = IF gen = "v2" THEN "sent" ELSE "none"]
  BY DEF Written, Finish, IndInv, Stages
<1>2. /\ Reported(c, r) \in {"same", "success", "failure", "thrown"}
      /\ c \in Setters \/ gen = "v3" => Reported(c, r) = r
  BY ReportedIs
<1>3. /\ \A d \in Calls \ {c} : /\ pc'[d] = pc[d] /\ wire'[d] = wire[d]
                                /\ result'[d] = result[d] /\ reboot'[d] = reboot[d]
      /\ pc'[c] = "done" /\ wire'[c] = "none" /\ result'[c] = Reported(c, r)
      /\ reboot'[c] = IF gen = "v2" THEN "sent" ELSE "none"
  BY <1>1 DEF IndInv, TypeOK
<1>4. TypeOK'
  BY <1>1, <1>2 DEF IndInv, TypeOK
<1>5. Stages'
  BY <1>1, <1>2, <1>3 DEF IndInv, Stages
<1>6. Held'
  BY <1>1, <1>2, <1>3 DEF IndInv, Held
<1>7. Rebooted'
  <2>1. CASE gen = "v2"
    BY <1>1, <1>3, <2>1 DEF Rebooted, Owes
  <2>2. CASE gen = "v3"
    BY <1>1, <2>2 DEF IndInv, Rebooted
  <2> QED BY <2>1, <2>2, GenIs
<1>8. Remembered'
  <2> SUFFICES ASSUME gen = "v3", ~crossed PROVE Remembered!2'
    BY <1>1 DEF Remembered
  <2>1. Remembered!2
    BY DEF IndInv, Remembered
  <2>2. \A d \in Calls : InFlight(d)' => d # c /\ InFlight(d)
    BY <1>3 DEF InFlight
  <2>3. \A d \in Calls : ~InFlight(d)'
    BY <1>1, <2>1, <2>2 DEF InFlight
  <2>4. (\E d \in Calls : result'[d] = "success") => Reason'
    <3>1. CASE wire[c] = "ok"
      BY <1>1, <2>1, <3>1 DEF Reason
    <3>2. CASE wire[c] = "denied"
      <4>1. result'[c] = "failure"
        BY <1>2, <1>3, <3>2
      <4>2. configured' = configured
        BY <1>1, <3>2
      <4> QED BY <1>1, <1>3, <2>1, <3>2, <4>1, <4>2 DEF Reason
    <3> QED BY <1>1, <3>1, <3>2
  <2> QED BY <2>3, <2>4 DEF InFlight
<1> QED BY <1>4, <1>5, <1>6, <1>7, <1>8 DEF IndInv

LEMMA WriteFailsStep == ASSUME IndInv, NEW c \in Calls, WriteFails(c) PROVE IndInv'
<1>1. /\ UNCHANGED <<gen, crossed, wanted, device, active, configured, reboot, had, seen>>
      /\ pc[c] = "write"
      /\ pc' = [pc EXCEPT ![c] = "done"]
      /\ wire' = [wire EXCEPT ![c] = IF wire[c] = "update" THEN "update" ELSE "none"]
      /\ result' = [result EXCEPT ![c] = Reported(c, "failure")]
  BY DEF WriteFails, Finish
<1>2. /\ Reported(c, "failure") \in {"same", "success", "failure", "thrown"}
      /\ c \in Setters \/ gen = "v3" => Reported(c, "failure") = "failure"
  BY ReportedIs
<1>3. /\ \A d \in Calls \ {c} : pc'[d] = pc[d] /\ wire'[d] = wire[d] /\ result'[d] = result[d]
      /\ pc'[c] = "done" /\ result'[c] = Reported(c, "failure")
      /\ wire'[c] = IF wire[c] = "update" THEN "update" ELSE "none"
  BY <1>1 DEF IndInv, TypeOK
<1>4. TypeOK'
  BY <1>1, <1>2 DEF IndInv, TypeOK
<1>5. Stages' /\ Held'
  BY <1>1, <1>2, <1>3, GenIs DEF IndInv, Stages, Held
<1>6. Rebooted'
  BY <1>1, <1>2, <1>3 DEF IndInv, Rebooted, Owes
<1>7. Remembered'
  <2> SUFFICES ASSUME gen = "v3", ~crossed PROVE Remembered!2'
    BY <1>1 DEF Remembered
  <2>1. Remembered!2
    BY DEF IndInv, Remembered
  <2>2. \A d \in Calls : InFlight(d)' => InFlight(d)
    BY <1>1, <1>3 DEF InFlight
  <2>3. result'[c] = "failure" /\ result[c] = "none"
    BY <1>1, <1>2, <1>3 DEF IndInv, Stages
  <2>4. Reason => Reason'
    BY <1>1, <1>3, <2>3 DEF Reason
  <2>5. (\E d \in Calls : result'[d] = "success") => Reason'
    BY <1>3, <2>1, <2>3, <2>4
  <2>6. \A d \in Calls : pc'[d] = "write" /\ wire'[d] = "ok" => device' = wanted'[d]
    BY <1>1, <1>3, <2>1
  <2> QED BY <2>1, <2>2, <2>5, <2>6
<1> QED BY <1>4, <1>5, <1>6, <1>7 DEF IndInv

LEMMA AnswersReadStep == ASSUME IndInv, NEW c \in Calls, AnswersRead(c) PROVE IndInv'
<1>1. /\ UNCHANGED <<gen, crossed, wanted, device, active, configured, pc, reboot,
                     result, had>>
      /\ wire[c] = "pools" /\ wire' = [wire EXCEPT ![c] = "list"]
      /\ seen' = [seen EXCEPT ![c] = device]
  BY DEF AnswersRead
<1>2. /\ \A d \in Calls \ {c} : wire'[d] = wire[d] /\ seen'[d] = seen[d]
      /\ wire'[c] = "list" /\ seen'[c] = device /\ pc[c] = "read" /\ gen = "v2"
  BY <1>1 DEF IndInv, TypeOK, Stages
<1>3. TypeOK'
  BY <1>1 DEF IndInv, TypeOK
<1>4. Stages' /\ Held'
  BY <1>1, <1>2 DEF IndInv, Stages, Held
<1>5. Rebooted'
  BY <1>1, <1>2 DEF IndInv, Rebooted, Owes
<1>6. Remembered'
  BY <1>1, <1>2 DEF Remembered
<1> QED BY <1>3, <1>4, <1>5, <1>6 DEF IndInv

LEMMA AppliesStep == ASSUME IndInv, NEW c \in Calls, Applies(c) PROVE IndInv'
<1>1. /\ UNCHANGED <<gen, crossed, wanted, configured, pc, reboot, result, seen>>
      /\ wire[c] = "update" /\ device' = wanted[c]
      /\ active' = IF gen = "v3" THEN wanted[c] ELSE active
      /\ \A d \in Calls :
           had'[d] <=> had[d] \/ (pc[d] \in {"read", "write"} /\ Holds(wanted[c], wanted[d]))
  BY DEF Applies
<1>2. PICK a \in {"ok", "none"} :
        wire' = [wire EXCEPT ![c] = IF pc[c] = "write" THEN a ELSE "none"]
  BY DEF Applies, Reply
<1>3. /\ \A d \in Calls \ {c} : wire'[d] = wire[d]
      /\ wire'[c] = IF pc[c] = "write" THEN a ELSE "none"
      /\ pc[c] \in {"write", "done"} /\ wanted[c] \in Lists
  BY <1>1, <1>2 DEF IndInv, TypeOK, Stages
<1>4. TypeOK'
  <2>1. had' \in [Calls -> BOOLEAN]
    BY DEF Applies, IndInv, TypeOK
  <2> QED BY <1>1, <1>2, <1>3, <2>1 DEF IndInv, TypeOK
<1>5. Stages'
  BY <1>1, <1>3 DEF IndInv, Stages
<1>6. Held'
  <2>1. Holds(wanted[c], wanted[c])
    BY DEF Holds
  <2> QED BY <1>1, <1>3, <2>1 DEF IndInv, Held, Holds
<1>7. Rebooted'
  <2>1. CASE gen = "v3"
    BY <1>1, <2>1 DEF Rebooted
  <2>2. CASE gen = "v2"
    <3>1. Owes(c)'
      BY <1>1, <1>3 DEF IndInv, Owes, Stages
    <3> QED BY <1>1, <2>2, <3>1 DEF Rebooted
  <2> QED BY <2>1, <2>2, GenIs
<1>8. Remembered'
  <2> SUFFICES ASSUME gen = "v3", ~crossed PROVE Remembered!2'
    BY <1>1 DEF Remembered
  <2>1. Remembered!2
    BY DEF IndInv, Remembered
  <2>2. \A d \in Calls : InFlight(d)' => InFlight(d)
    BY <1>1, <1>3 DEF InFlight
  <2>3. \A d \in Calls \ {c} : pc[d] # "write"
    BY <1>1, <2>1 DEF InFlight
  <2>4. Reason'
    BY <1>1, <1>3 DEF Reason, IndInv, Stages
  <2> QED BY <1>1, <1>3, <2>1, <2>2, <2>3, <2>4
<1> QED BY <1>4, <1>5, <1>6, <1>7, <1>8 DEF IndInv

LEMMA RefusesStep == ASSUME IndInv, NEW c \in Calls, Refuses(c) PROVE IndInv'
<1>1. /\ UNCHANGED <<gen, crossed, wanted, device, active, configured, pc, reboot,
                     result, had, seen>>
      /\ wire[c] = "update"
  BY DEF Refuses
<1>2. PICK a \in {"denied", "none"} :
        wire' = [wire EXCEPT ![c] = IF pc[c] = "write" THEN a ELSE "none"]
  BY DEF Refuses, Reply
<1>3. /\ \A d \in Calls \ {c} : wire'[d] = wire[d]
      /\ wire'[c] = IF pc[c] = "write" THEN a ELSE "none"
      /\ pc[c] \in {"write", "done"}
  BY <1>1, <1>2 DEF IndInv, TypeOK, Stages
<1>4. TypeOK'
  BY <1>1, <1>2 DEF IndInv, TypeOK
<1>5. Stages' /\ Held'
  BY <1>1, <1>3 DEF IndInv, Stages, Held
<1>6. Rebooted'
  BY <1>1, <1>3 DEF IndInv, Rebooted, Owes
<1>7. Remembered'
  <2>1. \A d \in Calls : InFlight(d)' => InFlight(d)
    BY <1>1, <1>3 DEF InFlight
  <2>2. Reason => Reason'
    BY <1>1, <1>3 DEF Reason
  <2> QED BY <1>1, <1>3, <2>1, <2>2 DEF IndInv, Remembered
<1> QED BY <1>4, <1>5, <1>6, <1>7 DEF IndInv

LEMMA RebootsStep == ASSUME IndInv, NEW c \in Calls, Reboots(c) PROVE IndInv'
<1>1. /\ UNCHANGED <<gen, crossed, wanted, device, configured, pc, wire, result, had, seen>>
      /\ reboot[c] = "sent"
      /\ \/ reboot' = [reboot EXCEPT ![c] = "done"] /\ active' = device
         \/ reboot' = [reboot EXCEPT ![c] = "lost"] /\ active' = active
  BY DEF Reboots
<1>2. \A d \in Calls \ {c} : reboot'[d] = reboot[d]
  BY <1>1 DEF IndInv, TypeOK
<1>3. TypeOK'
  BY <1>1 DEF IndInv, TypeOK
<1>4. Stages'
  BY <1>1, <1>2 DEF IndInv, Stages
<1>5. Held'
  BY <1>1 DEF IndInv, Held
<1>6. Rebooted'
  <2>1. CASE active' = device
    BY <1>1, <2>1 DEF Rebooted
  <2>2. CASE active' # device
    <3>1. reboot'[c] = "lost"
      BY <1>1, <2>2 DEF IndInv, TypeOK
    <3>2. gen # "v3"
      BY <1>1, <2>2 DEF IndInv, Rebooted
    <3> QED BY <1>1, <3>1, <3>2 DEF Rebooted, Owes
  <2> QED BY <2>1, <2>2
<1>7. Remembered'
  BY <1>1 DEF IndInv, Remembered, InFlight, Reason
<1> QED BY <1>3, <1>4, <1>5, <1>6, <1>7 DEF IndInv

LEMMA NextInv == ASSUME IndInv, [Next]_vars PROVE IndInv'
<1>1. CASE UNCHANGED vars
  BY <1>1 DEF vars, IndInv, TypeOK, Stages, Held, Rebooted, Owes, Remembered, InFlight,
              Reason, Holds
<1> QED BY <1>1, BeginStep, ComparedStep, ReadFailsStep, WrittenStep, WriteFailsStep,
           AnswersReadStep, AppliesStep, RefusesStep, RebootsStep DEF Next, Finished

----------------------------------------------------------------------------
(* Induction and recursion over data.  The proof of Induction: were m not  *)
(* in S, x - 1 would be an injection of a finite set into itself that does *)
(* not reach m.                                                            *)

LEMMA Induction ==
  ASSUME NEW S, 0 \in S, \A n \in Nat : n \in S => n + 1 \in S
  PROVE  Nat \subseteq S
<1> SUFFICES ASSUME NEW m \in Nat, m \notin S PROVE FALSE
  OBVIOUS
<1> DEFINE T == {x \in 0 .. m : x \notin S}
           f == [x \in T |-> x - 1]
<1>1. \A x \in T : x - 1 \in T
  OBVIOUS
<1>2. f \in Injection(T, T)
  BY <1>1 DEF Injection, IsInjective
<1>3. IsFiniteSet(T)
  <2>1. IsFiniteSet(0 .. m)
    BY FS_Interval
  <2>2. T \in SUBSET (0 .. m)
    OBVIOUS
  <2> HIDE DEF T
  <2> QED BY <2>1, <2>2, FS_Subset
<1>4. f \in Surjection(T, T)
  <2> HIDE DEF T, f
  <2> QED BY <1>2, <1>3, FS_Injection
<1>5. m \in T
  OBVIOUS
<1>6. PICK x \in T : f[x] = m
  BY <1>4, <1>5 DEF Surjection
<1> QED BY <1>6

LEMMA InductionUpTo ==
  ASSUME NEW N \in Nat, NEW S, 0 \in S, \A n \in 0 .. N - 1 : n \in S => n + 1 \in S
  PROVE  0 .. N \subseteq S
<1> DEFINE R == {n \in Nat : n <= N => n \in S}
<1>1. 0 \in R /\ \A n \in Nat : n \in R => n + 1 \in R
  OBVIOUS
<1> HIDE DEF R
<1>2. Nat \subseteq R
  BY <1>1, Induction
<1> USE DEF R
<1> QED BY <1>2


\* A function on 0 .. N by its value at 0 and the step F from i - 1 to i.
Recurrence(N, V, base, F) == N \in Nat /\ base \in V /\ F \in [V \X (1 .. N) -> V]
Obeys(f, N, base, F) == f[0] = base /\ \A i \in 1 .. N : f[i] = F[<<f[i - 1], i>>]

LEMMA Recursion ==
  ASSUME NEW N, NEW V, NEW base, NEW F, Recurrence(N, V, base, F)
  PROVE  \E f \in [0 .. N -> V] : Obeys(f, N, base, F)
<1> USE DEF Recurrence, Obeys
<1> DEFINE Solves(f, n) == f[0] = base /\ \A i \in 1 .. n : f[i] = F[<<f[i - 1], i>>]
           S == {n \in 0 .. N : \E f \in [0 .. N -> V] : Solves(f, n)}
<1>1. 0 \in S
  <2> DEFINE f == [i \in 0 .. N |-> base]
  <2>1. f \in [0 .. N -> V] /\ Solves(f, 0) /\ 0 \in 0 .. N
    OBVIOUS
  <2> HIDE DEF f
  <2> QED BY <2>1
<1>2. ASSUME NEW n \in 0 .. N - 1, n \in S
      PROVE  n + 1 \in S
  <2>1. PICK f \in [0 .. N -> V] : Solves(f, n)
    BY <1>2
  <2> DEFINE v == F[<<f[n], n + 1>>]
             g == [i \in 0 .. N |-> IF i = n + 1 THEN v ELSE f[i]]
  <2>2. v \in V /\ n \in Nat
    OBVIOUS
  <2>3. g \in [0 .. N -> V] /\ \A i \in 0 .. n : g[i] = f[i]
    <3> HIDE DEF v
    <3> QED BY <2>2
  <2>4. g[n + 1] = F[<<g[n], n + 1>>]
    <3>1. g[n + 1] = v /\ g[n] = f[n]
      BY <2>2
    <3> QED BY <3>1
  <2> HIDE DEF g, v
  <2>5. ASSUME NEW i \in 1 .. n + 1
        PROVE  g[i] = F[<<g[i - 1], i>>]
    <3>1. CASE i = n + 1
      BY <2>2, <2>4, <3>1
    <3>2. CASE i # n + 1
      <4>1. i \in 1 .. n /\ i \in 0 .. n /\ i - 1 \in 0 .. n
        BY <2>2, <3>2
      <4> QED BY <2>1, <2>3, <4>1
    <3> QED BY <3>1, <3>2
  <2>6. g[0] = base
    BY <2>1, <2>2, <2>3
  <2> QED BY <2>2, <2>3, <2>5, <2>6
<1>3. 0 .. N \subseteq S
  <2> HIDE DEF S
  <2> QED BY <1>1, <1>2, InductionUpTo
<1>4. N \in S
  <2> HIDE DEF S
  <2> QED BY <1>3
<1> QED BY <1>4

\* The CHOOSE of WithPool is well-defined.
LEMMA Smallest ==
  ASSUME NEW N \in Nat, NEW S \in SUBSET (1 .. N), S # {}
  PROVE  \E n \in S : \A m \in S : n <= m
<1> SUFFICES ASSUME \A n \in S : \E m \in S : m < n
             PROVE  FALSE
  OBVIOUS
<1> DEFINE T == {n \in 0 .. N : \A k \in 0 .. n : k \notin S}
<1>1. 0 \in T
  OBVIOUS
<1>2. ASSUME NEW n \in 0 .. N - 1, n \in T
      PROVE  n + 1 \in T
  <2>1. n + 1 \notin S
    BY <1>2
  <2> QED BY <1>2, <2>1
<1>3. 0 .. N \subseteq T
  <2> HIDE DEF T
  <2> QED BY <1>1, <1>2, InductionUpTo
<1>4. \A k \in 1 .. N : k \notin S
  BY <1>3
<1> QED BY <1>4

----------------------------------------------------------------------------
(* The view of v3, as Merging and Others build it.                         *)

\* The places of a list that hold a pool of an address, or a given pool.
OfUrl(list, places, u) == {k \in places : list[k].url = u}
OfPool(list, places, p) == {k \in places : list[k] = p}

\* One place more.
LEMMA AddPlace ==
  ASSUME NEW list, NEW S, IsFiniteSet(S), NEW x, x \notin S, NEW y
  PROVE  /\ IsFiniteSet(OfUrl(list, S, y)) /\ Cardinality(OfUrl(list, S, y)) \in Nat
         /\ IsFiniteSet(OfPool(list, S, y)) /\ Cardinality(OfPool(list, S, y)) \in Nat
         /\ Cardinality(OfUrl(list, S \union {x}, y)) =
              Cardinality(OfUrl(list, S, y)) + IF list[x].url = y THEN 1 ELSE 0
         /\ Cardinality(OfPool(list, S \union {x}, y)) =
              Cardinality(OfPool(list, S, y)) + IF list[x] = y THEN 1 ELSE 0
<1> DEFINE A == OfUrl(list, S, y)
           B == OfPool(list, S, y)
<1>1. A \in SUBSET S /\ B \in SUBSET S
  BY DEF OfUrl, OfPool
<1>2. /\ OfUrl(list, S \union {x}, y) = IF list[x].url = y THEN A \union {x} ELSE A
      /\ OfPool(list, S \union {x}, y) = IF list[x] = y THEN B \union {x} ELSE B
  BY DEF OfUrl, OfPool
<1> HIDE DEF A, B
<1>3. /\ IsFiniteSet(A) /\ Cardinality(A) \in Nat
      /\ IsFiniteSet(B) /\ Cardinality(B) \in Nat
  BY <1>1, FS_Subset, FS_CardinalityType
<1>4. Cardinality(A \union {x}) = Cardinality(A) + 1 /\ Cardinality(B \union {x}) = Cardinality(B) + 1
  BY <1>1, <1>3, FS_AddElement
<1>5. Cardinality(OfUrl(list, S \union {x}, y)) = Cardinality(A) + IF list[x].url = y THEN 1 ELSE 0
  BY <1>2, <1>3, <1>4
<1>6. Cardinality(OfPool(list, S \union {x}, y)) = Cardinality(B) + IF list[x] = y THEN 1 ELSE 0
  BY <1>2, <1>3, <1>4
<1> QED BY <1>3, <1>5, <1>6 DEF A, B

Entries == [url : Urls, user : Users, status : {"unknown", "runtime"}]
Merges(runtime) == [view : Seq(Entries), used : SUBSET (1 .. Len(runtime))]

\* An entry of the view says which pool it is and who reports it.
LEMMA EntryIs ==
  ASSUME NEW p \in Pools, NEW status \in {"unknown", "runtime"}
  PROVE  /\ Entry(p, status) \in Entries
         /\ Entry(p, status).url = p.url /\ Entry(p, status).status = status
         /\ \A q \in Pools : Entry(p, status) = Entry(q, "runtime") <=> p = q /\ status = "runtime"
<1>1. Entry(p, status) \in Entries
  BY DEF Entry, Entries, Pools
<1>2. Entry(p, status).url = p.url /\ Entry(p, status).user = p.user /\ Entry(p, status).status = status
  BY DEF Entry
<1>3. \A q \in Pools : q = [url |-> q.url, user |-> q.user]
  BY DEF Pools
<1>4. ASSUME NEW q \in Pools, Entry(p, status) = Entry(q, "runtime")
      PROVE  p = q /\ status = "runtime"
  <2>1. p.url = q.url /\ p.user = q.user /\ status = "runtime"
    BY <1>4 DEF Entry
  <2>2. p = [url |-> p.url, user |-> p.user] /\ q = [url |-> q.url, user |-> q.user]
    BY <1>3
  <2> QED BY <2>1, <2>2
<1> QED BY <1>1, <1>2, <1>4

\* Either every entry of the address is used and the pool is unknown, or a free
\* entry of it is used.
LEMMA WithPoolIs ==
  ASSUME NEW runtime \in Seq(Pools), NEW acc \in Merges(runtime), NEW pool \in Pools
  PROVE  /\ WithPool(acc, pool, runtime) \in Merges(runtime)
         /\ \/ /\ OfUrl(runtime, 1 .. Len(runtime), pool.url) \subseteq acc.used
               /\ WithPool(acc, pool, runtime) =
                    [view |-> Append(acc.view, Entry(pool, "unknown")), used |-> acc.used]
            \/ \E k \in (1 .. Len(runtime)) \ acc.used :
                 /\ runtime[k].url = pool.url
                 /\ WithPool(acc, pool, runtime) =
                      [view |-> Append(acc.view, Entry(runtime[k], "runtime")),
                       used |-> acc.used \union {k}]
<1> DEFINE free == Match(acc.used, runtime, pool.url)
           k == CHOOSE n \in free : \A m \in free : n <= m
           new == WithPool(acc, pool, runtime)
<1>1. Len(runtime) \in Nat /\ acc.view \in Seq(Entries) /\ acc.used \in SUBSET (1 .. Len(runtime))
  BY LenProperties DEF Merges
<1>2. free = {n \in 1 .. Len(runtime) : n \notin acc.used /\ runtime[n].url = pool.url}
  BY DEF Match
<1>3. new = IF free = {} THEN [view |-> Append(acc.view, Entry(pool, "unknown")), used |-> acc.used]
            ELSE [view |-> Append(acc.view, Entry(runtime[k], "runtime")), used |-> acc.used \union {k}]
  BY DEF WithPool
<1> HIDE DEF new
<1>4. \A view \in Seq(Entries), used \in SUBSET (1 .. Len(runtime)) :
        [view |-> view, used |-> used] \in Merges(runtime)
  BY DEF Merges
<1>5. CASE free = {}
  <2>1. OfUrl(runtime, 1 .. Len(runtime), pool.url) \subseteq acc.used
    BY <1>2, <1>5 DEF OfUrl
  <2>2. new = [view |-> Append(acc.view, Entry(pool, "unknown")), used |-> acc.used]
    BY <1>3, <1>5
  <2>3. Append(acc.view, Entry(pool, "unknown")) \in Seq(Entries)
    BY <1>1, EntryIs, AppendProperties
  <2> QED BY <1>1, <1>4, <2>1, <2>2, <2>3 DEF new
<1>6. CASE free # {}
  <2>1. free \in SUBSET (1 .. Len(runtime))
    BY <1>2
  <2> HIDE DEF free
  <2>2. k \in free
    BY <1>1, <1>6, <2>1, Smallest
  <2> HIDE DEF k
  <2>3. k \in (1 .. Len(runtime)) \ acc.used /\ runtime[k].url = pool.url
    BY <1>2, <2>2
  <2>4. new = [view |-> Append(acc.view, Entry(runtime[k], "runtime")), used |-> acc.used \union {k}]
    BY <1>3, <1>6
  <2>5. runtime[k] \in Pools
    BY <2>3, ElementOfSeq
  <2>6. Append(acc.view, Entry(runtime[k], "runtime")) \in Seq(Entries)
    BY <1>1, <2>5, EntryIs, AppendProperties
  <2>7. acc.used \union {k} \in SUBSET (1 .. Len(runtime))
    BY <1>1, <2>3
  <2>8. new \in Merges(runtime)
    BY <1>4, <2>4, <2>6, <2>7
  <2> QED BY <2>3, <2>4, <2>8 DEF new
<1> QED BY <1>5, <1>6

\* The recursive definitions of the model have the values they say.
LEMMA MergingIs ==
  ASSUME NEW pools \in Seq(Pools), NEW runtime \in Seq(Pools)
  PROVE  /\ Merging(pools, runtime)[0] = [view |-> <<>>, used |-> {}]
         /\ \A i \in 1 .. Len(pools) :
              /\ Merging(pools, runtime)[i - 1] \in Merges(runtime)
              /\ Merging(pools, runtime)[i] = WithPool(Merging(pools, runtime)[i - 1], pools[i], runtime)
         /\ \A i \in 0 .. Len(pools) : Merging(pools, runtime)[i] \in Merges(runtime)
<1> DEFINE N == Len(pools)
           V == Merges(runtime)
           base == [view |-> <<>>, used |-> {}]
           F == [x \in V \X (1 .. N) |-> WithPool(x[1], pools[x[2]], runtime)]
           G(g) == [i \in 0 .. N |-> IF i = 0 THEN base ELSE WithPool(g[i - 1], pools[i], runtime)]
<1>1. N \in Nat /\ \A i \in 1 .. N : pools[i] \in Pools
  BY LenProperties, ElementOfSeq
<1>2. base \in V
  <2>1. <<>> \in Seq(Entries) /\ {} \in SUBSET (1 .. Len(runtime))
    BY EmptySeq
  <2> QED BY <2>1 DEF Merges
<1>3. \A acc \in V, i \in 1 .. N : WithPool(acc, pools[i], runtime) \in V
  BY <1>1, WithPoolIs
<1> HIDE DEF V, N, base
<1>4. F \in [V \X (1 .. N) -> V]
  BY <1>3
<1>5. \A acc \in V, i \in 1 .. N : F[<<acc, i>>] = WithPool(acc, pools[i], runtime)
  OBVIOUS
<1> HIDE DEF F
<1>6. Recurrence(N, V, base, F)
  BY <1>1, <1>2, <1>4 DEF Recurrence
<1>7. PICK f \in [0 .. N -> V] : Obeys(f, N, base, F)
  BY <1>6, Recursion
<1>8. f[0] = base /\ \A i \in 1 .. N : f[i] = F[<<f[i - 1], i>>]
  BY <1>7 DEF Obeys
<1>9. ASSUME NEW i \in 1 .. N PROVE f[i - 1] \in V /\ f[i] = WithPool(f[i - 1], pools[i], runtime)
  <2>1. i - 1 \in 0 .. N
    BY <1>1
  <2>2. f[i - 1] \in V
    BY <1>8, <2>1
  <2> QED BY <1>5, <1>8, <2>2
<1>10. f = G(f)
  BY <1>1, <1>8, <1>9
<1>11. Merging(pools, runtime) = CHOOSE g : g = G(g)
  BY DEF Merging, N, base
<1> HIDE DEF G
<1>12. Merging(pools, runtime) = G(Merging(pools, runtime))
  BY <1>10, <1>11
<1> DEFINE m == Merging(pools, runtime)
<1> HIDE DEF m
<1>13. m = [i \in 0 .. N |-> IF i = 0 THEN base ELSE WithPool(m[i - 1], pools[i], runtime)]
  BY <1>12 DEF G, m
<1>14. m[0] = base /\ \A i \in 1 .. N : m[i] = WithPool(m[i - 1], pools[i], runtime)
  <2>1. m[0] = base
    BY <1>1, <1>13
  <2>2. ASSUME NEW i \in 1 .. N PROVE m[i] = WithPool(m[i - 1], pools[i], runtime)
    <3>1. i \in 0 .. N /\ i # 0
      BY <1>1
    <3> QED BY <1>13, <3>1
  <2> QED BY <2>1, <2>2
<1> DEFINE S == {i \in 0 .. N : m[i] \in V}
<1>15. 0 \in S
  BY <1>1, <1>2, <1>14
<1>16. ASSUME NEW i \in 0 .. N - 1, i \in S PROVE i + 1 \in S
  <2>1. i + 1 \in 1 .. N /\ i + 1 \in 0 .. N /\ (i + 1) - 1 = i
    BY <1>1
  <2>2. m[i + 1] = WithPool(m[i], pools[i + 1], runtime)
    BY <1>14, <2>1
  <2> QED BY <1>3, <1>16, <2>1, <2>2
<1>17. 0 .. N \subseteq S
  <2> HIDE DEF S
  <2> QED BY <1>1, <1>15, <1>16, InductionUpTo
<1>18. \A i \in 0 .. N : m[i] \in V
  BY <1>17
<1>19. \A i \in 1 .. N : m[i - 1] \in V
  BY <1>1, <1>18
<1> QED BY <1>14, <1>18, <1>19 DEF m, base, N, V

LEMMA OthersIs ==
  ASSUME NEW runtime \in Seq(Pools), NEW merged \in Merges(runtime)
  PROVE  /\ Others(merged, runtime)[0] = merged.view
         /\ \A k \in 1 .. Len(runtime) :
              Others(merged, runtime)[k] =
                IF k \in merged.used THEN Others(merged, runtime)[k - 1]
                ELSE Append(Others(merged, runtime)[k - 1], Entry(runtime[k], "runtime"))
         /\ \A k \in 0 .. Len(runtime) : Others(merged, runtime)[k] \in Seq(Entries)
<1> DEFINE N == Len(runtime)
           V == Seq(Entries)
           Added(v, k) == IF k \in merged.used THEN v ELSE Append(v, Entry(runtime[k], "runtime"))
           F == [x \in V \X (1 .. N) |-> Added(x[1], x[2])]
           G(g) == [k \in 0 .. N |->
                      IF k = 0 THEN merged.view
                      ELSE IF k \in merged.used THEN g[k - 1]
                      ELSE Append(g[k - 1], Entry(runtime[k], "runtime"))]
<1>1. N \in Nat /\ \A k \in 1 .. N : runtime[k] \in Pools
  BY LenProperties, ElementOfSeq
<1>2. merged.view \in V
  BY DEF Merges
<1>3. ASSUME NEW v \in V, NEW k \in 1 .. N PROVE Added(v, k) \in V
  <2>1. Entry(runtime[k], "runtime") \in Entries
    BY <1>1, EntryIs
  <2> QED BY <2>1, AppendProperties
<1> HIDE DEF V, Added
<1> HIDE DEF N
<1>4. F \in [V \X (1 .. N) -> V]
  BY <1>3
<1>5. \A v \in V, k \in 1 .. N : F[<<v, k>>] = Added(v, k)
  OBVIOUS
<1> HIDE DEF F
<1>6. Recurrence(N, V, merged.view, F)
  BY <1>1, <1>2, <1>4 DEF Recurrence
<1>7. PICK f \in [0 .. N -> V] : Obeys(f, N, merged.view, F)
  BY <1>6, Recursion
<1>8. f[0] = merged.view /\ \A i \in 1 .. N : f[i] = F[<<f[i - 1], i>>]
  BY <1>7 DEF Obeys
<1>9. ASSUME NEW i \in 1 .. N PROVE f[i - 1] \in V /\ f[i] = Added(f[i - 1], i)
  <2>1. i - 1 \in 0 .. N
    BY <1>1
  <2>2. f[i - 1] \in V
    BY <1>8, <2>1
  <2> QED BY <1>5, <1>8, <2>2
<1>10. f = G(f)
  <2>1. f = [k \in 0 .. N |-> IF k = 0 THEN merged.view ELSE Added(f[k - 1], k)]
    BY <1>1, <1>8, <1>9
  <2> QED BY <2>1 DEF Added
<1>11. Others(merged, runtime) = CHOOSE g : g = G(g)
  BY DEF Others, N
<1> HIDE DEF G
<1>12. Others(merged, runtime) = G(Others(merged, runtime))
  BY <1>10, <1>11
<1> DEFINE m == Others(merged, runtime)
<1> HIDE DEF m
<1>13. m = [k \in 0 .. N |-> IF k = 0 THEN merged.view ELSE Added(m[k - 1], k)]
  BY <1>12 DEF G, m, Added
<1>14. m[0] = merged.view /\ \A k \in 1 .. N : m[k] = Added(m[k - 1], k)
  <2>1. m[0] = merged.view
    BY <1>1, <1>13
  <2>2. ASSUME NEW k \in 1 .. N PROVE m[k] = Added(m[k - 1], k)
    <3>1. k \in 0 .. N /\ k # 0
      BY <1>1
    <3> QED BY <1>13, <3>1
  <2> QED BY <2>1, <2>2
<1> DEFINE S == {k \in 0 .. N : m[k] \in V}
<1>15. 0 \in S
  BY <1>1, <1>2, <1>14
<1>16. ASSUME NEW k \in 0 .. N - 1, k \in S PROVE k + 1 \in S
  <2>1. k + 1 \in 1 .. N /\ k + 1 \in 0 .. N /\ (k + 1) - 1 = k
    BY <1>1
  <2>2. m[k + 1] = Added(m[k], k + 1)
    BY <1>14, <2>1
  <2> QED BY <1>3, <1>16, <2>1, <2>2
<1>17. 0 .. N \subseteq S
  <2> HIDE DEF S
  <2> QED BY <1>1, <1>15, <1>16, InductionUpTo
<1>18. \A k \in 0 .. N : m[k] \in V
  BY <1>17
<1> QED BY <1>14, <1>18 DEF m, N, V, Added

UrlCount(list, places, u) == Cardinality(OfUrl(list, places, u))
PoolCount(list, places, p) == Cardinality(OfPool(list, places, p))

\* After i configured pools: the view has their addresses; one is unknown if it
\* comes after as many of its address as the miner reports; as many entries of
\* an address are used as there were pools of it, at most all of them; and the
\* view reports the entries that are used.
Joins(pools, runtime, acc, i) ==
  LET all == 1 .. Len(runtime)
  IN  /\ Len(acc.view) = i
      /\ \A j \in 1 .. i :
           /\ acc.view[j].url = pools[j].url
           /\ acc.view[j].status = "unknown" <=>
                UrlCount(pools, 1 .. j, pools[j].url) > UrlCount(runtime, all, pools[j].url)
      /\ \A u \in Urls :
           UrlCount(runtime, acc.used, u) =
             IF UrlCount(pools, 1 .. i, u) <= UrlCount(runtime, all, u)
             THEN UrlCount(pools, 1 .. i, u) ELSE UrlCount(runtime, all, u)
      /\ \A p \in Pools :
           PoolCount(acc.view, 1 .. i, Entry(p, "runtime")) = PoolCount(runtime, acc.used, p)

LEMMA CountsAre ==
  ASSUME NEW list, NEW n \in Nat, NEW S, S \in SUBSET (1 .. n), NEW y
  PROVE  /\ UrlCount(list, S, y) \in Nat /\ PoolCount(list, S, y) \in Nat
         /\ UrlCount(list, S, y) <= UrlCount(list, 1 .. n, y)
<1>1. IsFiniteSet(1 .. n)
  BY FS_Interval
<1>2. IsFiniteSet(S)
  BY <1>1, FS_Subset
<1>3. UrlCount(list, S, y) <= UrlCount(list, 1 .. n, y)
  <2>1. OfUrl(list, S, y) \in SUBSET OfUrl(list, 1 .. n, y) /\ OfUrl(list, 1 .. n, y) \in SUBSET (1 .. n)
    BY DEF OfUrl
  <2>2. IsFiniteSet(OfUrl(list, 1 .. n, y))
    BY <1>1, <2>1, FS_Subset
  <2> QED BY <2>1, <2>2, FS_Subset DEF UrlCount
<1>4. UrlCount(list, S, y) \in Nat /\ PoolCount(list, S, y) \in Nat
  <2>1. OfUrl(list, S, y) \in SUBSET S /\ OfPool(list, S, y) \in SUBSET S
    BY DEF OfUrl, OfPool
  <2> QED BY <1>2, <2>1, FS_Subset, FS_CardinalityType DEF UrlCount, PoolCount
<1> QED BY <1>3, <1>4

LEMMA PlaceAdded ==
  ASSUME NEW list, NEW S, IsFiniteSet(S), NEW x, x \notin S, NEW y
  PROVE  /\ UrlCount(list, S \union {x}, y) =
              UrlCount(list, S, y) + IF list[x].url = y THEN 1 ELSE 0
         /\ PoolCount(list, S \union {x}, y) =
              PoolCount(list, S, y) + IF list[x] = y THEN 1 ELSE 0
BY AddPlace DEF UrlCount, PoolCount

LEMMA PlaceNext ==
  ASSUME NEW list, NEW i \in Nat \ {0}, NEW y
  PROVE  /\ UrlCount(list, 1 .. i, y) =
              UrlCount(list, 1 .. i - 1, y) + IF list[i].url = y THEN 1 ELSE 0
         /\ PoolCount(list, 1 .. i, y) =
              PoolCount(list, 1 .. i - 1, y) + IF list[i] = y THEN 1 ELSE 0
<1> DEFINE S == 1 .. i - 1
<1>1. 1 .. i = S \union {i} /\ i \notin S
  OBVIOUS
<1>2. IsFiniteSet(S)
  BY FS_Interval
<1> HIDE DEF S
<1>3. /\ UrlCount(list, S \union {i}, y) = UrlCount(list, S, y) + IF list[i].url = y THEN 1 ELSE 0
      /\ PoolCount(list, S \union {i}, y) = PoolCount(list, S, y) + IF list[i] = y THEN 1 ELSE 0
  BY <1>1, <1>2, PlaceAdded
<1> QED BY <1>1, <1>3 DEF S

LEMMA JoinsStep ==
  ASSUME NEW pools \in Seq(Pools), NEW runtime \in Seq(Pools), NEW i \in 1 .. Len(pools),
         NEW acc \in Merges(runtime), Joins(pools, runtime, acc, i - 1)
  PROVE  Joins(pools, runtime, WithPool(acc, pools[i], runtime), i)
<1> DEFINE new == WithPool(acc, pools[i], runtime)
           all == 1 .. Len(runtime)
           u0 == pools[i].url
<1>1. /\ Len(runtime) \in Nat /\ Len(pools) \in Nat /\ i - 1 \in Nat /\ i \in Nat
      /\ pools[i] \in Pools /\ u0 \in Urls
      /\ acc.view \in Seq(Entries) /\ acc.used \in SUBSET all
  <2>1. pools[i] \in Pools
    BY ElementOfSeq
  <2>2. acc.view \in Seq(Entries) /\ acc.used \in SUBSET all
    BY DEF Merges
  <2>3. u0 \in Urls
    BY <2>1 DEF Pools
  <2> HIDE DEF u0, all
  <2> QED BY <2>1, <2>2, <2>3, LenProperties
<1>2. 1 .. i = (1 .. i - 1) \union {i} /\ i \notin 1 .. i - 1 /\ i \in Nat \ {0}
  BY <1>1
<1> DEFINE Gives(e, used) ==
      /\ e \in Entries /\ e.url = u0 /\ new.view = Append(acc.view, e) /\ new.used = used
<1>3. \/ /\ OfUrl(runtime, all, u0) \subseteq acc.used
         /\ Gives(Entry(pools[i], "unknown"), acc.used)
      \/ \E k \in all \ acc.used :
           runtime[k].url = u0 /\ Gives(Entry(runtime[k], "runtime"), acc.used \union {k})
  <2>1. \A k \in all : runtime[k] \in Pools
    BY ElementOfSeq
  <2>2. \A p \in Pools, s \in {"unknown", "runtime"} : Entry(p, s) \in Entries /\ Entry(p, s).url = p.url
    BY EntryIs
  <2>3. CASE /\ OfUrl(runtime, all, u0) \subseteq acc.used
             /\ new = [view |-> Append(acc.view, Entry(pools[i], "unknown")), used |-> acc.used]
    BY <1>1, <2>2, <2>3
  <2>4. CASE \E k \in all \ acc.used :
               /\ runtime[k].url = u0
               /\ new = [view |-> Append(acc.view, Entry(runtime[k], "runtime")),
                         used |-> acc.used \union {k}]
    <3>1. PICK k \in all \ acc.used :
            /\ runtime[k].url = u0
            /\ new = [view |-> Append(acc.view, Entry(runtime[k], "runtime")),
                      used |-> acc.used \union {k}]
      BY <2>4
    <3> HIDE DEF new, u0, all
    <3>2. Gives(Entry(runtime[k], "runtime"), acc.used \union {k})
      BY <2>1, <2>2, <3>1
    <3> QED BY <3>1, <3>2
  <2> HIDE DEF new, u0, all, Gives
  <2>5. \/ /\ OfUrl(runtime, all, u0) \subseteq acc.used
           /\ new = [view |-> Append(acc.view, Entry(pools[i], "unknown")), used |-> acc.used]
        \/ \E k \in all \ acc.used :
             /\ runtime[k].url = u0
             /\ new = [view |-> Append(acc.view, Entry(runtime[k], "runtime")),
                       used |-> acc.used \union {k}]
    BY <1>1, WithPoolIs DEF new, u0, all
  <2> QED BY <2>3, <2>4, <2>5
<1> HIDE DEF new, all, u0
<1>4. ASSUME NEW e, NEW used, Gives(e, used)
      PROVE  /\ Len(new.view) = i /\ new.view[i] = e
             /\ \A j \in 1 .. i - 1 : new.view[j] = acc.view[j]
             /\ \A x : PoolCount(new.view, 1 .. i, x) =
                        PoolCount(acc.view, 1 .. i - 1, x) + (IF e = x THEN 1 ELSE 0)
  <2>1. Len(acc.view) = i - 1
    BY DEF Joins
  <2>2. /\ Len(new.view) = i /\ new.view[i] = e
        /\ \A j \in 1 .. i - 1 : new.view[j] = acc.view[j]
    BY <1>1, <1>4, <2>1, AppendProperties
  <2>3. ASSUME NEW x
        PROVE  PoolCount(new.view, 1 .. i, x) = PoolCount(acc.view, 1 .. i - 1, x) + (IF e = x THEN 1 ELSE 0)
    <3>1. OfPool(new.view, 1 .. i - 1, x) = OfPool(acc.view, 1 .. i - 1, x)
      BY <2>2 DEF OfPool
    <3>3. PoolCount(new.view, 1 .. i, x) =
            PoolCount(new.view, 1 .. i - 1, x) + (IF new.view[i] = x THEN 1 ELSE 0)
      BY <1>2, PlaceNext
    <3> QED BY <1>2, <2>2, <3>1, <3>3 DEF PoolCount
  <2> QED BY <2>2, <2>3
<1>5. \A u : /\ UrlCount(pools, 1 .. i - 1, u) \in Nat
             /\ UrlCount(pools, 1 .. i, u) = UrlCount(pools, 1 .. i - 1, u) + (IF u0 = u THEN 1 ELSE 0)
  <2>1. 1 .. i - 1 \in SUBSET (1 .. i)
    BY <1>1
  <2> TAKE u
  <2>2. UrlCount(pools, 1 .. i - 1, u) \in Nat
    BY <1>1, <2>1, CountsAre
  <2>3. UrlCount(pools, 1 .. i, u) =
          UrlCount(pools, 1 .. i - 1, u) + (IF pools[i].url = u THEN 1 ELSE 0)
    BY <1>2, PlaceNext
  <2> QED BY <1>2, <2>2, <2>3 DEF u0
<1>6. /\ \A u : UrlCount(runtime, acc.used, u) \in Nat /\ UrlCount(runtime, all, u) \in Nat
      /\ \A p : PoolCount(runtime, acc.used, p) \in Nat
      /\ \A k \in all \ acc.used : \A y :
           /\ UrlCount(runtime, acc.used \union {k}, y) =
                UrlCount(runtime, acc.used, y) + (IF runtime[k].url = y THEN 1 ELSE 0)
           /\ UrlCount(runtime, acc.used \union {k}, y) <= UrlCount(runtime, all, y)
           /\ PoolCount(runtime, acc.used \union {k}, y) =
                PoolCount(runtime, acc.used, y) + (IF runtime[k] = y THEN 1 ELSE 0)
  <2>1. all \in SUBSET all /\ \A k \in all : acc.used \union {k} \in SUBSET all
    BY <1>1
  <2>2. \A y : UrlCount(runtime, acc.used, y) \in Nat /\ PoolCount(runtime, acc.used, y) \in Nat
                /\ UrlCount(runtime, all, y) \in Nat
    <3> TAKE y
    <3> QED BY <1>1, <2>1, CountsAre DEF all
  <2>3. ASSUME NEW k \in all \ acc.used, NEW y
        PROVE  /\ UrlCount(runtime, acc.used \union {k}, y) =
                    UrlCount(runtime, acc.used, y) + (IF runtime[k].url = y THEN 1 ELSE 0)
               /\ UrlCount(runtime, acc.used \union {k}, y) <= UrlCount(runtime, all, y)
               /\ PoolCount(runtime, acc.used \union {k}, y) =
                    PoolCount(runtime, acc.used, y) + (IF runtime[k] = y THEN 1 ELSE 0)
    <3>1. acc.used \union {k} \in SUBSET all /\ k \notin acc.used
      BY <2>1
    <3>2. UrlCount(runtime, acc.used \union {k}, y) <= UrlCount(runtime, all, y)
      BY <1>1, <3>1, CountsAre DEF all
    <3>3. IsFiniteSet(acc.used)
      <4>1. IsFiniteSet(all)
        BY <1>1, FS_Interval DEF all
      <4> QED BY <1>1, <4>1, FS_Subset
    <3>4. /\ UrlCount(runtime, acc.used \union {k}, y) =
               UrlCount(runtime, acc.used, y) + (IF runtime[k].url = y THEN 1 ELSE 0)
          /\ PoolCount(runtime, acc.used \union {k}, y) =
               PoolCount(runtime, acc.used, y) + (IF runtime[k] = y THEN 1 ELSE 0)
      BY <3>1, <3>3, PlaceAdded
    <3> QED BY <3>2, <3>4
  <2> QED BY <2>2, <2>3
<1>7. /\ \A j \in 1 .. i - 1 :
           /\ acc.view[j].url = pools[j].url
           /\ acc.view[j].status = "unknown" <=>
                UrlCount(pools, 1 .. j, pools[j].url) > UrlCount(runtime, all, pools[j].url)
      /\ \A u \in Urls :
           UrlCount(runtime, acc.used, u) =
             IF UrlCount(pools, 1 .. i - 1, u) <= UrlCount(runtime, all, u)
             THEN UrlCount(pools, 1 .. i - 1, u) ELSE UrlCount(runtime, all, u)
      /\ \A p \in Pools :
           PoolCount(acc.view, 1 .. i - 1, Entry(p, "runtime")) = PoolCount(runtime, acc.used, p)
  BY DEF Joins, all
<1> DEFINE Goal(e, used) ==
      /\ e.status = "unknown" <=> UrlCount(pools, 1 .. i, u0) > UrlCount(runtime, all, u0)
      /\ \A u \in Urls :
           UrlCount(runtime, used, u) =
             IF UrlCount(pools, 1 .. i, u) <= UrlCount(runtime, all, u)
             THEN UrlCount(pools, 1 .. i, u) ELSE UrlCount(runtime, all, u)
      /\ \A p \in Pools :
           PoolCount(acc.view, 1 .. i - 1, Entry(p, "runtime")) + (IF e = Entry(p, "runtime") THEN 1 ELSE 0)
             = PoolCount(runtime, used, p)
<1>8. ASSUME NEW e, NEW used, Gives(e, used), Goal(e, used)
      PROVE  Joins(pools, runtime, new, i)
  <2>1. Len(new.view) = i
    BY <1>4, <1>8
  <2>2. ASSUME NEW j \in 1 .. i
        PROVE  /\ new.view[j].url = pools[j].url
               /\ new.view[j].status = "unknown" <=>
                    UrlCount(pools, 1 .. j, pools[j].url) > UrlCount(runtime, all, pools[j].url)
    <3>1. CASE j = i
      BY <1>4, <1>8, <3>1 DEF u0
    <3>2. CASE j # i
      <4>1. j \in 1 .. i - 1
        BY <1>1, <3>2
      <4> QED BY <1>4, <1>7, <1>8, <4>1
    <3> QED BY <3>1, <3>2
  <2>3. new.used = used
    BY <1>8
  <2>4. \A p \in Pools :
          PoolCount(new.view, 1 .. i, Entry(p, "runtime")) = PoolCount(runtime, new.used, p)
    BY <1>4, <1>8
  <2>5. \A u \in Urls :
           UrlCount(runtime, new.used, u) =
             IF UrlCount(pools, 1 .. i, u) <= UrlCount(runtime, all, u)
             THEN UrlCount(pools, 1 .. i, u) ELSE UrlCount(runtime, all, u)
    BY <1>8
  <2> HIDE DEF Gives, Goal
  <2> QED BY <2>1, <2>2, <2>4, <2>5 DEF Joins, all
<1>9. ASSUME OfUrl(runtime, all, u0) \subseteq acc.used, Gives(Entry(pools[i], "unknown"), acc.used)
      PROVE  Joins(pools, runtime, new, i)
  <2>1. UrlCount(runtime, acc.used, u0) = UrlCount(runtime, all, u0)
    <3>1. OfUrl(runtime, acc.used, u0) = OfUrl(runtime, all, u0)
      BY <1>1, <1>9 DEF OfUrl
    <3> QED BY <3>1 DEF UrlCount
  <2>2. UrlCount(pools, 1 .. i, u0) > UrlCount(runtime, all, u0)
    BY <1>1, <1>5, <1>6, <1>7, <2>1
  <2>3. ASSUME NEW u \in Urls
        PROVE  UrlCount(runtime, acc.used, u) =
                 IF UrlCount(pools, 1 .. i, u) <= UrlCount(runtime, all, u)
                 THEN UrlCount(pools, 1 .. i, u) ELSE UrlCount(runtime, all, u)
    <3>1. CASE u = u0
      BY <1>5, <1>6, <2>1, <2>2, <3>1
    <3>2. CASE u # u0
      <4>1. UrlCount(pools, 1 .. i, u) = UrlCount(pools, 1 .. i - 1, u)
        BY <1>5, <3>2
      <4> QED BY <1>7, <4>1
    <3> QED BY <3>1, <3>2
  <2>4. Entry(pools[i], "unknown").status = "unknown" /\ \A p \in Pools : Entry(pools[i], "unknown") # Entry(p, "runtime")
    BY <1>1, EntryIs
  <2>5. Goal(Entry(pools[i], "unknown"), acc.used)
    BY <1>6, <1>7, <2>2, <2>3, <2>4
  <2>6. Gives(Entry(pools[i], "unknown"), acc.used)
    BY <1>9
  <2> HIDE DEF Goal, Gives
  <2> QED BY <1>8, <2>5, <2>6
<1>10. ASSUME NEW k \in all \ acc.used, runtime[k].url = u0,
              Gives(Entry(runtime[k], "runtime"), acc.used \union {k})
       PROVE  Joins(pools, runtime, new, i)
  <2> DEFINE used == acc.used \union {k}
  <2>1. /\ UrlCount(runtime, used, u0) = UrlCount(runtime, acc.used, u0) + 1
        /\ UrlCount(runtime, used, u0) <= UrlCount(runtime, all, u0)
    BY <1>6, <1>10
  <2>2. /\ UrlCount(pools, 1 .. i, u0) = UrlCount(runtime, used, u0)
        /\ ~(UrlCount(pools, 1 .. i, u0) > UrlCount(runtime, all, u0))
    <3> HIDE DEF used
    <3>1. UrlCount(runtime, acc.used, u0) < UrlCount(runtime, all, u0)
      BY <1>6, <2>1
    <3>2. UrlCount(runtime, acc.used, u0) = UrlCount(pools, 1 .. i - 1, u0)
      BY <1>1, <1>5, <1>6, <1>7, <3>1
    <3> QED BY <1>5, <1>6, <2>1, <3>2
  <2>3. ASSUME NEW u \in Urls
        PROVE  UrlCount(runtime, used, u) =
                 IF UrlCount(pools, 1 .. i, u) <= UrlCount(runtime, all, u)
                 THEN UrlCount(pools, 1 .. i, u) ELSE UrlCount(runtime, all, u)
    <3>1. CASE u = u0
      <4> HIDE DEF used
      <4> QED BY <2>1, <2>2, <3>1
    <3>2. CASE u # u0
      <4>1. UrlCount(pools, 1 .. i, u) = UrlCount(pools, 1 .. i - 1, u)
        BY <1>5, <3>2
      <4>2. UrlCount(runtime, used, u) = UrlCount(runtime, acc.used, u)
        BY <1>6, <1>10, <3>2
      <4> QED BY <1>7, <4>1, <4>2
    <3> QED BY <3>1, <3>2
  <2>4. /\ Entry(runtime[k], "runtime").status # "unknown"
        /\ \A p \in Pools : Entry(runtime[k], "runtime") = Entry(p, "runtime") <=> runtime[k] = p
    <3>1. runtime[k] \in Pools
      BY ElementOfSeq DEF all
    <3> QED BY <3>1, EntryIs
  <2>5. ASSUME NEW p \in Pools
        PROVE  PoolCount(acc.view, 1 .. i - 1, Entry(p, "runtime"))
                 + (IF Entry(runtime[k], "runtime") = Entry(p, "runtime") THEN 1 ELSE 0)
                 = PoolCount(runtime, used, p)
    <3>1. PoolCount(runtime, used, p) =
            PoolCount(runtime, acc.used, p) + (IF runtime[k] = p THEN 1 ELSE 0)
      BY <1>6
    <3> HIDE DEF used
    <3> QED BY <1>7, <2>4, <3>1
  <2>6. Goal(Entry(runtime[k], "runtime"), used)
    <3> HIDE DEF used
    <3> QED BY <2>2, <2>3, <2>4, <2>5
  <2> HIDE DEF Goal, Gives
  <2> QED BY <1>8, <1>10, <2>6
<1> HIDE DEF Gives
<1>11. Joins(pools, runtime, new, i)
  <2> SUFFICES ASSUME NEW k \in all \ acc.used, runtime[k].url = u0,
                     Gives(Entry(runtime[k], "runtime"), acc.used \union {k})
               PROVE  Joins(pools, runtime, new, i)
    BY <1>3, <1>9
  <2> QED BY <1>10
<1> QED BY <1>11 DEF new

LEMMA Joined ==
  ASSUME NEW pools \in Seq(Pools), NEW runtime \in Seq(Pools)
  PROVE  \A i \in 0 .. Len(pools) : Joins(pools, runtime, Merging(pools, runtime)[i], i)
<1> DEFINE m == Merging(pools, runtime)
           S == {i \in 0 .. Len(pools) : Joins(pools, runtime, m[i], i)}
<1>1. Len(pools) \in Nat /\ Len(runtime) \in Nat
  BY LenProperties
<1>2. 0 \in S
  <2> DEFINE acc == [view |-> <<>>, used |-> {}]
  <2>1. acc.view = <<>> /\ acc.used = {} /\ Len(<<>>) = 0
    BY EmptySeq
  <2> HIDE DEF acc
  <2>2. \A list, y : UrlCount(list, {}, y) = 0 /\ PoolCount(list, {}, y) = 0
    <3>1. \A list, y : OfUrl(list, {}, y) = {} /\ OfPool(list, {}, y) = {}
      BY DEF OfUrl, OfPool
    <3> QED BY <3>1, FS_EmptySet DEF UrlCount, PoolCount
  <2>3. 1 .. 0 = {}
    OBVIOUS
  <2>4. \A u : UrlCount(runtime, 1 .. Len(runtime), u) \in Nat
    <3> TAKE u
    <3>1. 1 .. Len(runtime) \in SUBSET (1 .. Len(runtime))
      OBVIOUS
    <3> QED BY <1>1, <3>1, CountsAre
  <2>5. Joins(pools, runtime, acc, 0)
    BY <2>1, <2>2, <2>3, <2>4 DEF Joins
  <2> QED BY <1>1, <2>5, MergingIs DEF acc
<1>3. ASSUME NEW i \in 0 .. Len(pools) - 1, i \in S
      PROVE  i + 1 \in S
  <2>1. i + 1 \in 1 .. Len(pools) /\ i + 1 \in 0 .. Len(pools) /\ (i + 1) - 1 = i
    BY <1>1
  <2>2. m[i] \in Merges(runtime) /\ m[i + 1] = WithPool(m[i], pools[i + 1], runtime)
    BY <2>1, MergingIs
  <2>3. Joins(pools, runtime, m[i], i)
    BY <1>3
  <2> HIDE DEF m
  <2> DEFINE n == i + 1
  <2>4. n \in 1 .. Len(pools) /\ n - 1 = i /\ n \in 0 .. Len(pools)
    BY <2>1
  <2> HIDE DEF n
  <2>5. Joins(pools, runtime, WithPool(m[i], pools[n], runtime), n)
    BY <2>2, <2>3, <2>4, JoinsStep
  <2>6. Joins(pools, runtime, m[i + 1], i + 1)
    BY <2>2, <2>5 DEF n
  <2> QED BY <2>1, <2>6
<1>4. 0 .. Len(pools) \subseteq S
  <2> HIDE DEF S
  <2> QED BY <1>1, <1>2, <1>3, InductionUpTo
<1> QED BY <1>4

\* After k runtime entries: the view starts with the merged one, and reports the
\* entries that are used and the first k.
Appends(runtime, merged, v, k) ==
  /\ Len(v) >= Len(merged.view)
  /\ \A j \in 1 .. Len(merged.view) : v[j] = merged.view[j]
  /\ \A p \in Pools :
       PoolCount(v, 1 .. Len(v), Entry(p, "runtime")) = PoolCount(runtime, merged.used \union (1 .. k), p)

LEMMA Appended ==
  ASSUME NEW runtime \in Seq(Pools), NEW merged \in Merges(runtime),
         \A p \in Pools : PoolCount(merged.view, 1 .. Len(merged.view), Entry(p, "runtime")) =
                           PoolCount(runtime, merged.used, p)
  PROVE  Appends(runtime, merged, Others(merged, runtime)[Len(runtime)], Len(runtime))
<1> DEFINE o == Others(merged, runtime)
           N == Len(runtime)
           S == {k \in 0 .. N : Appends(runtime, merged, o[k], k)}
<1>1. /\ N \in Nat /\ merged.view \in Seq(Entries) /\ Len(merged.view) \in Nat
      /\ merged.used \in SUBSET (1 .. N)
  <2>1. merged.view \in Seq(Entries) /\ merged.used \in SUBSET (1 .. N)
    BY DEF Merges
  <2> HIDE DEF N
  <2> QED BY <2>1, LenProperties DEF N
<1>2. 0 \in S
  <2>1. 1 .. 0 = {} /\ merged.used \union {} = merged.used
    OBVIOUS
  <2>2. Appends(runtime, merged, merged.view, 0)
    BY <1>1, <2>1 DEF Appends
  <2> QED BY <1>1, <2>2, OthersIs
<1>3. ASSUME NEW i \in 0 .. N - 1, i \in S
      PROVE  i + 1 \in S
  <2> DEFINE k == i + 1
             used == merged.used \union (1 .. i)
             e == Entry(runtime[k], "runtime")
  <2>1. k \in 1 .. N /\ k \in 0 .. N /\ k - 1 = i /\ i \in 0 .. N
    BY <1>1
  <2>2. merged.used \union (1 .. k) = used \union {k}
    BY <1>1
  <2>3. o[i] \in Seq(Entries) /\ Appends(runtime, merged, o[i], i)
    BY <1>3, <2>1, OthersIs
  <2>4. o[k] = IF k \in merged.used THEN o[i] ELSE Append(o[i], e)
    <3> HIDE DEF k, o, N
    <3> QED BY <2>1, OthersIs DEF o, N
  <2>5. runtime[k] \in Pools
    BY <2>1, ElementOfSeq
  <2>6. e \in Entries /\ \A p \in Pools : e = Entry(p, "runtime") <=> runtime[k] = p
    BY <2>5, EntryIs
  <2>7. Len(o[i]) \in Nat
    BY <2>3, LenProperties
  <2>8. IsFiniteSet(used)
    <3>1. used \in SUBSET (1 .. N)
      BY <1>1
    <3>2. IsFiniteSet(1 .. N)
      BY <1>1, FS_Interval
    <3> QED BY <3>1, <3>2, FS_Subset
  <2>9. k \in merged.used => used \union {k} = used
    OBVIOUS
  <2>10. k \notin merged.used => k \notin used
    BY <2>1
  <2>11. \A p \in Pools : PoolCount(o[i], 1 .. Len(o[i]), Entry(p, "runtime")) = PoolCount(runtime, used, p)
    BY <2>3 DEF Appends
  <2>12. /\ Len(o[i]) >= Len(merged.view)
         /\ \A j \in 1 .. Len(merged.view) : o[i][j] = merged.view[j]
    BY <2>3 DEF Appends
  <2> HIDE DEF k, used, e, o, N
  <2>13. CASE k \in merged.used
    <3>1. Appends(runtime, merged, o[k], k)
      BY <2>2, <2>4, <2>9, <2>11, <2>12, <2>13 DEF Appends
    <3> QED BY <2>1, <3>1 DEF k
  <2>14. CASE k \notin merged.used
    <3> DEFINE v == o[k]
    <3>1. v = Append(o[i], e)
      BY <2>4, <2>14
    <3> HIDE DEF v
    <3>2. /\ Len(v) = Len(o[i]) + 1 /\ v[Len(v)] = e
          /\ \A j \in 1 .. Len(o[i]) : v[j] = o[i][j]
      BY <2>3, <2>6, <3>1, AppendProperties
    <3>3. Len(v) >= Len(merged.view) /\ \A j \in 1 .. Len(merged.view) : v[j] = merged.view[j]
      BY <1>1, <2>7, <2>12, <3>2
    <3>4. ASSUME NEW p \in Pools
          PROVE  PoolCount(v, 1 .. Len(v), Entry(p, "runtime")) = PoolCount(runtime, used \union {k}, p)
      <4>1. OfPool(v, 1 .. Len(v) - 1, Entry(p, "runtime")) = OfPool(o[i], 1 .. Len(o[i]), Entry(p, "runtime"))
        BY <2>7, <3>2 DEF OfPool
      <4>2. Len(v) \in Nat \ {0}
        BY <2>7, <3>2
      <4>3. PoolCount(v, 1 .. Len(v), Entry(p, "runtime")) =
              PoolCount(v, 1 .. Len(v) - 1, Entry(p, "runtime"))
                + IF v[Len(v)] = Entry(p, "runtime") THEN 1 ELSE 0
        BY <4>2, PlaceNext
      <4>4. PoolCount(runtime, used \union {k}, p) =
              PoolCount(runtime, used, p) + IF runtime[k] = p THEN 1 ELSE 0
        BY <2>8, <2>10, <2>14, PlaceAdded
      <4>5. PoolCount(v, 1 .. Len(v) - 1, Entry(p, "runtime")) = PoolCount(runtime, used, p)
        BY <2>11, <4>1 DEF PoolCount
      <4>6. v[Len(v)] = Entry(p, "runtime") <=> runtime[k] = p
        BY <2>6, <3>2
      <4> QED BY <4>3, <4>4, <4>5, <4>6
    <3>5. Appends(runtime, merged, v, k)
      BY <2>2, <3>3, <3>4 DEF Appends
    <3> QED BY <2>1, <3>5 DEF v, k
  <2> QED BY <2>13, <2>14 DEF k
<1>4. 0 .. N \subseteq S
  <2> HIDE DEF S, N
  <2> QED BY <1>1, <1>2, <1>3, InductionUpTo
<1> QED BY <1>1, <1>4

LEMMA MergedIs ==
  ASSUME NEW pools \in Seq(Pools), NEW runtime \in Seq(Pools)
  PROVE  /\ \A j \in 1 .. Len(pools) :
              /\ Merged(pools, runtime)[j].url = pools[j].url
              /\ Merged(pools, runtime)[j].status = "unknown" <=>
                   UrlCount(pools, 1 .. j, pools[j].url) >
                     UrlCount(runtime, 1 .. Len(runtime), pools[j].url)
         /\ \A p \in Pools :
              PoolCount(Merged(pools, runtime), 1 .. Len(Merged(pools, runtime)), Entry(p, "runtime")) =
                PoolCount(runtime, 1 .. Len(runtime), p)
<1> DEFINE m == Merging(pools, runtime)[Len(pools)]
           v == Merged(pools, runtime)
<1>1. Len(pools) \in 0 .. Len(pools) /\ Len(runtime) \in Nat
  BY LenProperties
<1>2. m \in Merges(runtime)
  BY <1>1, MergingIs
<1>3. Joins(pools, runtime, m, Len(pools))
  BY <1>1, Joined
<1>4. v = Others(m, runtime)[Len(runtime)]
  BY DEF Merged
<1> HIDE DEF m, v
<1>5. Len(m.view) = Len(pools)
  BY <1>3 DEF Joins
<1>6. Appends(runtime, m, v, Len(runtime))
  <2>1. \A p \in Pools : PoolCount(m.view, 1 .. Len(m.view), Entry(p, "runtime")) = PoolCount(runtime, m.used, p)
    BY <1>3, <1>5 DEF Joins
  <2> QED BY <1>2, <1>4, <2>1, Appended
<1>7. m.used \union (1 .. Len(runtime)) = 1 .. Len(runtime)
  BY <1>2 DEF Merges
<1>8. \A p \in Pools : PoolCount(v, 1 .. Len(v), Entry(p, "runtime")) = PoolCount(runtime, 1 .. Len(runtime), p)
  BY <1>6, <1>7 DEF Appends
<1>9. \A j \in 1 .. Len(pools) : v[j] = m.view[j]
  BY <1>5, <1>6 DEF Appends
<1>10. \A j \in 1 .. Len(pools) :
          /\ m.view[j].url = pools[j].url
          /\ m.view[j].status = "unknown" <=>
               UrlCount(pools, 1 .. j, pools[j].url) > UrlCount(runtime, 1 .. Len(runtime), pools[j].url)
  BY <1>3 DEF Joins
<1> QED BY <1>8, <1>9, <1>10 DEF v

\* View, the v3 getPools answer.
LEMMA ViewMerges ==
  ASSUME configured \in Seq(Pools), device \in Seq(Pools)
  PROVE  ViewMergesPools
<1>1. /\ Len(configured) \in Nat /\ Len(device) \in Nat
      /\ \A i \in 1 .. Len(configured) : configured[i] \in Pools
  BY LenProperties, ElementOfSeq
<1>2. ASSUME NEW i \in 1 .. Len(configured)
      PROVE  LET SameUrl(p) == p.url = configured[i].url
             IN  /\ SameUrl(View[i])
                 /\ View[i].status = "unknown" <=>
                      Count(SubSeq(configured, 1, i), SameUrl) > Count(device, SameUrl)
  <2> DEFINE u == configured[i].url
             s == SubSeq(configured, 1, i)
  <2>1. Len(s) = i /\ \A j \in 1 .. i : s[j] = configured[j]
    BY <1>1, SubSeqProperties
  <2> HIDE DEF s
  <2>2. {k \in 1 .. Len(s) : s[k].url = u} = OfUrl(configured, 1 .. i, u)
    BY <2>1 DEF OfUrl
  <2>3. {k \in 1 .. Len(device) : device[k].url = u} = OfUrl(device, 1 .. Len(device), u)
    BY DEF OfUrl
  <2>4. View[i].url = u /\ (View[i].status = "unknown" <=>
          UrlCount(configured, 1 .. i, u) > UrlCount(device, 1 .. Len(device), u))
    BY MergedIs DEF View
  <2>5. View[i].url = u /\ (View[i].status = "unknown" <=>
          Cardinality({k \in 1 .. Len(s) : s[k].url = u}) > Cardinality({k \in 1 .. Len(device) : device[k].url = u}))
    BY <2>2, <2>3, <2>4 DEF UrlCount
  <2> QED BY <2>5 DEF Count, s
<1>3. ASSUME NEW p \in Pools
      PROVE  LET Reports(e) == e = Entry(p, "runtime")
                 Is(q) == q = p
             IN  Count(View, Reports) = Count(device, Is)
  <2>1. /\ {k \in 1 .. Len(View) : View[k] = Entry(p, "runtime")} = OfPool(View, 1 .. Len(View), Entry(p, "runtime"))
        /\ {k \in 1 .. Len(device) : device[k] = p} = OfPool(device, 1 .. Len(device), p)
    BY DEF OfPool
  <2>2. PoolCount(View, 1 .. Len(View), Entry(p, "runtime")) = PoolCount(device, 1 .. Len(device), p)
    BY MergedIs DEF View
  <2> QED BY <2>1, <2>2 DEF PoolCount, Count
<1> QED BY <1>2, <1>3 DEF ViewMergesPools

----------------------------------------------------------------------------
(* The theorems.                                                           *)

THEOREM Invariance == Spec => []IndInv
<1>1. Init => IndInv
  BY InitInv
<1>2. IndInv /\ [Next]_vars => IndInv'
  BY NextInv
<1> QED BY <1>1, <1>2, PTL DEF Spec

\* Type correctness, for any calls and pools.
THEOREM TypeCorrect == Spec => []TypeOK
<1>1. IndInv => TypeOK
  BY DEF IndInv
<1> QED BY <1>1, Invariance, PTL

\* A reported success was true at some moment of the call.
THEOREM WasTrue == Spec => []SuccessWasTrue
<1>1. IndInv => SuccessWasTrue
  BY DEF IndInv, Held, SuccessWasTrue, Calls
<1> QED BY <1>1, Invariance, PTL

\* Once every reboot was carried out, the miner mines with the pools it holds.
THEOREM Activated == Spec => []PoolsAreActive
<1>1. IndInv => PoolsAreActive
  BY DEF IndInv, Rebooted, Owes, Quiet, PoolsAreActive
<1> QED BY <1>1, Invariance, PTL

\* configuredPools are the miner's, unless updates crossed each other or one
\* that was reported as failed was carried out.
THEOREM Configured == Spec => []ConfiguredAgrees
<1>1. IndInv => ConfiguredAgrees
  BY DEF IndInv, Remembered, Reason, Quiet, ConfiguredAgrees
<1> QED BY <1>1, Invariance, PTL

\* The v3 view keeps the configured pools in order, calls one unknown just if the
\* miner reports too few of its address, and has each entry of the miner once.
THEOREM ViewIsMerged == Spec => []ViewMergesPools
<1>1. IndInv => configured \in Seq(Pools) /\ device \in Seq(Pools)
  BY ListsAre DEF IndInv, TypeOK
<1>2. IndInv => ViewMergesPools
  BY <1>1, ViewMerges
<1> QED BY <1>2, Invariance, PTL
=============================================================================
