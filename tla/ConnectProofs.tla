---------------------------- MODULE ConnectProofs ----------------------------
(***************************************************************************)
(* Proofs about the connection of a device context, for any number of      *)
(* handlers and any number of changes of the miner: all handlers share one *)
(* client, nothing is left open, and a failure is not remembered.          *)
(***************************************************************************)
EXTENDS Connect, FiniteSetTheorems, TLAPS

\* The memoized connection is the only one with an open client or with
\* handlers that wait, and its handlers are all served or all wait.
Memoized ==
  /\ devicePromise = NoConnection => open = {}
  /\ devicePromise # NoConnection =>
       /\ open = {Client(devicePromise, probing[devicePromise])}
       /\ \E h \in Handlers : awaits[h] = devicePromise
  /\ \A g, h \in Handlers :
       awaits[g] = devicePromise /\ awaits[h] = devicePromise
         /\ devicePromise # NoConnection => got[g] = got[h]

\* What a handler was given says which connection it awaits.
Given ==
  \A h \in Handlers :
    /\ awaits[h] = NoConnection => got[h] \in {Nothing, Rejected}
    /\ awaits[h] # NoConnection /\ awaits[h] # devicePromise => got[h] = Rejected
    /\ awaits[h] # NoConnection /\ awaits[h] = devicePromise =>
         got[h] \in {Nothing, Client(devicePromise, probing[devicePromise])}

IndInv ==
  /\ TypeOK
  /\ probing \in Seq(1 .. Len(Candidates))
  /\ Memoized
  /\ Given

----------------------------------------------------------------------------
(* The candidates, and the names of clients.                               *)

LEMMA CandidatesAre ==
  ASSUME config \in Configs
  PROVE  Candidates \in Seq(Candidate) /\ Len(Candidates) \in 0 .. 2
<1> USE DEF Candidate, OnPort, V3, V2, Custom
<1>1. CASE Invalid(config)
  BY <1>1 DEF Candidates, candidatesFor
<1>2. CASE ~Invalid(config) /\ config.apiVersion # "unset"
  <2>1. config.apiVersion \in {"v2", "v3"} /\ config.port \in {0, V3, V2, Custom}
    BY <1>2 DEF Invalid, Configs
  <2> DEFINE p == IF config.port = 0 THEN DefaultPort(config.apiVersion) ELSE config.port
             c == OnPort(p, config.apiVersion)
  <2>2. p \in {V3, V2, Custom}
    BY <2>1 DEF DefaultPort
  <2>3. c \in Candidate
    BY <2>1, <2>2
  <2>4. Candidates = <<c>>
    BY <1>2 DEF Candidates, candidatesFor
  <2> HIDE DEF c
  <2> QED BY <2>3, <2>4
<1>3. CASE ~Invalid(config) /\ config.apiVersion = "unset"
  <2>1. config.port \in {0, V3, V2, Custom}
    BY DEF Configs
  <2>2. CASE config.port = 0
    <3>1. Candidates = <<OnPort(V3, "v3"), OnPort(V2, "v2")>>
      BY <1>3, <2>2 DEF Candidates, candidatesFor
    <3>2. OnPort(V3, "v3") \in Candidate /\ OnPort(V2, "v2") \in Candidate
      OBVIOUS
    <3> QED BY <3>1, <3>2
  <2>3. CASE config.port = V3
    <3>1. Candidates = <<OnPort(V3, "v3")>>
      BY <1>3, <2>3 DEF Candidates, candidatesFor
    <3>2. OnPort(V3, "v3") \in Candidate
      OBVIOUS
    <3> QED BY <3>1, <3>2
  <2>4. CASE config.port = V2
    <3>1. Candidates = <<OnPort(V2, "v2")>>
      BY <1>3, <2>4 DEF Candidates, candidatesFor
    <3>2. OnPort(V2, "v2") \in Candidate
      OBVIOUS
    <3> QED BY <3>1, <3>2
  <2>5. CASE config.port = Custom
    <3>1. Candidates = <<OnPort(Custom, "v3"), OnPort(Custom, "v2")>>
      BY <1>3, <2>5 DEF Candidates, candidatesFor
    <3>2. OnPort(Custom, "v3") \in Candidate /\ OnPort(Custom, "v2") \in Candidate
      OBVIOUS
    <3> QED BY <3>1, <3>2
  <2> QED BY <2>1, <2>2, <2>3, <2>4, <2>5
<1> QED BY <1>1, <1>2, <1>3

LEMMA ServedAre ==
  ASSUME config \in Configs, NEW S \in SUBSET ToSet(Candidates)
  PROVE  S \subseteq Candidate
BY CandidatesAre DEF ToSet

LEMMA Names ==
  /\ \A k, i, l, j : Client(k, i) = Client(l, j) <=> k = l /\ i = j
  /\ \A k \in Nat \ {0}, i \in 1 .. 2 : Client(k, i) \in Clients
  /\ Nothing # Rejected /\ Nothing \notin Clients /\ Rejected \notin Clients
  /\ \A k, i : k # 0 => Client(k, i) # Nothing /\ Client(k, i) # Rejected
BY DEF Client, Clients, Nothing, Rejected

\* A connection that is pending is the memoized one, and all its handlers wait.
LEMMA PendingIs ==
  ASSUME IndInv, NEW k \in Connections, Pending(k)
  PROVE  /\ k = devicePromise /\ k # NoConnection /\ k \in Nat
         /\ open = {Client(k, probing[k])}
         /\ \A h \in Handlers : awaits[h] = k => got[h] = Nothing
<1>1. PICK h \in Handlers : awaits[h] = k /\ got[h] = Nothing /\ k # NoConnection
  BY DEF Pending, Waiting
<1>2. k = devicePromise
  BY <1>1, Names DEF IndInv, Given
<1> QED BY <1>1, <1>2 DEF IndInv, Memoized, Connections

----------------------------------------------------------------------------
(* Every step keeps the invariant.                                         *)

LEMMA InitInv == ASSUME Init PROVE IndInv
<1>1. TypeOK
  BY MaxShiftsIsNat, ServedAre DEF Init, TypeOK, NoConnection, Connections
<1>2. probing \in Seq(1 .. Len(Candidates))
  BY DEF Init
<1>3. Memoized /\ Given
  BY DEF Init, Memoized, Given
<1> QED BY <1>1, <1>2, <1>3 DEF IndInv

\* The first handler, or the first after a failure, begins a connection.
LEMMA BeginsStep ==
  ASSUME IndInv, NEW h \in Handlers, getDevice(h), devicePromise = NoConnection
  PROVE  IndInv'
<1> DEFINE k == Len(probing) + 1
<1>1. /\ k \in Nat \ {0} /\ Len(probing) \in Nat /\ Len(Candidates) \in 1 .. 2
      /\ 1 \in 1 .. Len(Candidates)
  BY CandidatesAre DEF IndInv, TypeOK, getDevice
<1>2. /\ probing' = Append(probing, 1) /\ Len(probing') = k
      /\ probing'[k] = 1 /\ \A l \in Connections : probing'[l] = probing[l]
      /\ probing' \in Seq(1 .. Len(Candidates))
  <2>1. probing' = Append(probing, 1)
    BY DEF getDevice, Connect
  <2>2. probing \in Seq(1 .. Len(Candidates))
    BY DEF IndInv
  <2>3. ASSUME NEW S, NEW x \in S, NEW q \in Seq(S)
        PROVE  /\ Append(q, x) \in Seq(S) /\ Len(Append(q, x)) = Len(q) + 1
               /\ Append(q, x)[Len(q) + 1] = x
               /\ \A l \in 1 .. Len(q) : Append(q, x)[l] = q[l]
    OBVIOUS
  <2> QED BY <1>1, <2>1, <2>2, <2>3 DEF Connections
<1>3. /\ open' = {Client(k, 1)} /\ devicePromise' = k /\ got' = got
      /\ awaits' = [awaits EXCEPT ![h] = k]
      /\ config' = config /\ served' = served /\ shifts' = shifts
      /\ awaits[h] = NoConnection /\ got[h] = Nothing
  BY DEF getDevice, Connect, IndInv, Memoized
<1>4. \A g \in Handlers : awaits[g] \in 0 .. Len(probing) /\ awaits[g] # k
  BY <1>1 DEF IndInv, TypeOK
<1>5. TypeOK'
  <2>1. \A l \in Connections' : probing'[l] \in 1 .. Len(Candidates)
    BY <1>2, <1>1 DEF Connections
  <2>2. awaits' \in [Handlers -> 0 .. k]
    BY <1>1, <1>3, <1>4 DEF IndInv, TypeOK
  <2>3. open' \subseteq Clients
    BY <1>1, <1>3, Names
  <2> QED BY <1>1, <1>2, <1>3, <2>1, <2>2, <2>3
          DEF IndInv, TypeOK, Candidates, Connections
<1>6. (probing \in Seq(1 .. Len(Candidates)))'
  BY <1>2, <1>3 DEF Candidates
<1>7. Memoized'
  BY <1>1, <1>2, <1>3, <1>4 DEF Memoized, NoConnection, IndInv, TypeOK
<1>8. Given'
  BY <1>1, <1>2, <1>3, <1>4 DEF Given, NoConnection, IndInv, TypeOK
<1> QED BY <1>5, <1>6, <1>7, <1>8 DEF IndInv

\* A handler joins the memoized connection.
LEMMA JoinsStep ==
  ASSUME IndInv, NEW h \in Handlers, getDevice(h), devicePromise # NoConnection
  PROVE  IndInv'
<1> DEFINE k == devicePromise
           client == Client(k, probing[k])
<1>1. /\ k \in Connections /\ k \in Nat \ {0} /\ client \in Clients
      /\ Len(probing) \in Nat
  BY CandidatesAre, Names DEF IndInv, TypeOK, NoConnection, Connections
<1>2. /\ UNCHANGED <<config, served, shifts, probing, open, devicePromise>>
      /\ awaits' = [awaits EXCEPT ![h] = k]
      /\ awaits[h] = NoConnection /\ got[h] = Nothing
  BY DEF getDevice
<1>3. /\ \A g \in Handlers \ {h} : got'[g] = got[g] /\ awaits'[g] = awaits[g]
      /\ awaits'[h] = k
      /\ got'[h] = IF \E g \in Handlers : awaits[g] = k /\ got[g] # Nothing
                   THEN client ELSE Nothing
  BY <1>2 DEF getDevice, IndInv, TypeOK
<1>4. \A g \in Handlers \ {h} : awaits[g] = k => got[g] = got'[h]
  BY <1>3 DEF IndInv, Memoized, Given
<1>5. TypeOK'
  <2>1. got' \in [Handlers -> Clients \union {Nothing, Rejected}]
    BY <1>1 DEF getDevice, IndInv, TypeOK
  <2>2. awaits' \in [Handlers -> 0 .. Len(probing)]
    BY <1>1, <1>2 DEF IndInv, TypeOK, Connections
  <2> QED BY <1>2, <2>1, <2>2 DEF IndInv, TypeOK, Candidates, Connections
<1>6. (probing \in Seq(1 .. Len(Candidates)))'
  BY <1>2 DEF IndInv, Candidates
<1>7. Memoized'
  BY <1>2, <1>3, <1>4 DEF IndInv, Memoized
<1>8. Given'
  BY <1>2, <1>3 DEF IndInv, Given
<1> QED BY <1>5, <1>6, <1>7, <1>8 DEF IndInv

LEMMA RejectsStep ==
  ASSUME IndInv, NEW h \in Handlers, getDeviceRejects(h)
  PROVE  IndInv'
<1>1. TypeOK'
  BY DEF getDeviceRejects, IndInv, TypeOK, Candidates, Connections
<1>2. (probing \in Seq(1 .. Len(Candidates)))'
  BY DEF getDeviceRejects, IndInv, Candidates
<1>3. Memoized' /\ Given'
  BY DEF getDeviceRejects, IndInv, TypeOK, Memoized, Given
<1> QED BY <1>1, <1>2, <1>3 DEF IndInv

LEMMA SucceedsStep ==
  ASSUME IndInv, NEW k \in Connections, ProbeSucceeds(k)
  PROVE  IndInv'
<1>1. /\ k = devicePromise /\ k \in Nat \ {0}
      /\ \A h \in Handlers : awaits[h] = k => got[h] = Nothing
      /\ Client(k, probing[k]) \in Clients
  BY PendingIs, CandidatesAre, Names DEF ProbeSucceeds, NoConnection, IndInv, TypeOK
<1>2. UNCHANGED <<config, served, shifts, devicePromise, probing, open, awaits>>
  BY DEF ProbeSucceeds
<1>3. \A h \in Handlers : got'[h] = IF awaits[h] = k THEN Client(k, probing[k]) ELSE got[h]
  BY <1>1 DEF ProbeSucceeds, Settle
<1>4. TypeOK'
  BY <1>1, <1>2 DEF ProbeSucceeds, Settle, IndInv, TypeOK, Candidates, Connections
<1>5. (probing \in Seq(1 .. Len(Candidates)))'
  BY <1>2 DEF IndInv, Candidates
<1>6. Memoized'
  BY <1>1, <1>2, <1>3 DEF IndInv, Memoized
<1>7. Given'
  BY <1>1, <1>2, <1>3 DEF IndInv, Given, NoConnection
<1> QED BY <1>4, <1>5, <1>6, <1>7 DEF IndInv

LEMMA FailsStep ==
  ASSUME IndInv, NEW k \in Connections, ProbeFails(k)
  PROVE  IndInv'
<1>1. /\ k = devicePromise /\ k \in Nat \ {0} /\ open = {Client(k, probing[k])}
      /\ \A h \in Handlers : awaits[h] = k => got[h] = Nothing
  BY PendingIs DEF ProbeFails, NoConnection
<1>2. /\ probing[k] \in 1 .. Len(Candidates) /\ probing[k] + 1 \in 1 .. Len(Candidates)
      /\ Client(k, probing[k] + 1) \in Clients
  <2>1. Len(Candidates) \in 0 .. 2
    BY CandidatesAre DEF IndInv, TypeOK
  <2>2. probing[k] \in 1 .. Len(Candidates) /\ probing[k] < Len(Candidates)
    BY DEF ProbeFails, IndInv, TypeOK
  <2>3. probing[k] + 1 \in 1 .. Len(Candidates) /\ probing[k] + 1 \in 1 .. 2
    <3>1. \A i, n \in Nat : i \in 1 .. n /\ i < n /\ n \in 0 .. 2 =>
            i + 1 \in 1 .. n /\ i + 1 \in 1 .. 2
      OBVIOUS
    <3>2. probing[k] \in Nat /\ Len(Candidates) \in Nat
      BY <2>1, <2>2
    <3> QED BY <2>1, <2>2, <3>1, <3>2
  <2> QED BY <1>1, <2>2, <2>3, Names
<1>3. /\ UNCHANGED <<config, served, shifts, devicePromise, awaits, got>>
      /\ probing' = [probing EXCEPT ![k] = @ + 1]
      /\ open' = {Client(k, probing[k] + 1)}
  BY <1>1, <1>2, Names DEF ProbeFails
<1>4. /\ probing' \in Seq(1 .. Len(Candidates)) /\ Len(probing') = Len(probing)
      /\ probing'[k] = probing[k] + 1
      /\ \A l \in Connections \ {k} : probing'[l] = probing[l]
  BY <1>2, <1>3 DEF IndInv, Connections
<1>5. TypeOK'
  <2>1. \A l \in Connections' : probing'[l] \in 1 .. Len(Candidates)
    BY <1>2, <1>4 DEF IndInv, TypeOK, Connections
  <2>2. open' \subseteq Clients
    BY <1>2, <1>3
  <2> QED BY <1>3, <1>4, <2>1, <2>2 DEF IndInv, TypeOK, Candidates, Connections
<1>6. (probing \in Seq(1 .. Len(Candidates)))'
  BY <1>3, <1>4 DEF Candidates
<1>7. Memoized' /\ Given'
  BY <1>1, <1>3, <1>4 DEF IndInv, Memoized, Given
<1> QED BY <1>5, <1>6, <1>7 DEF IndInv

LEMMA LastFailsStep ==
  ASSUME IndInv, NEW k \in Connections, LastProbeFails(k)
  PROVE  IndInv'
<1>1. /\ k = devicePromise /\ k \in Nat \ {0} /\ open = {Client(k, probing[k])}
      /\ \A h \in Handlers : awaits[h] = k => got[h] = Nothing
  BY PendingIs DEF LastProbeFails, NoConnection
<1>2. /\ UNCHANGED <<config, served, shifts, probing, awaits>>
      /\ open' = {} /\ devicePromise' = NoConnection
      /\ \A h \in Handlers : got'[h] = IF awaits[h] = k THEN Rejected ELSE got[h]
  BY <1>1 DEF LastProbeFails, Settle
<1>3. TypeOK'
  BY <1>2 DEF LastProbeFails, Settle, IndInv, TypeOK, Candidates, Connections, NoConnection
<1>4. (probing \in Seq(1 .. Len(Candidates)))'
  BY <1>2 DEF IndInv, Candidates
<1>5. Memoized' /\ Given'
  BY <1>1, <1>2 DEF IndInv, Memoized, Given
<1> QED BY <1>3, <1>4, <1>5 DEF IndInv

LEMMA ShiftsStep == ASSUME IndInv, MinerShifts PROVE IndInv'
<1>1. config' = config /\ served' \subseteq Candidate
  BY ServedAre DEF MinerShifts, IndInv, TypeOK
<1>2. TypeOK'
  BY <1>1, MaxShiftsIsNat DEF MinerShifts, IndInv, TypeOK, Candidates, Connections
<1>3. (probing \in Seq(1 .. Len(Candidates)))'
  BY DEF MinerShifts, IndInv, Candidates
<1>4. Memoized' /\ Given'
  BY DEF MinerShifts, IndInv, Memoized, Given
<1> QED BY <1>2, <1>3, <1>4 DEF IndInv

LEMMA NextInv == ASSUME IndInv, [Next]_vars PROVE IndInv'
<1>1. CASE UNCHANGED vars
  <2>1. TypeOK'
    BY <1>1 DEF vars, IndInv, TypeOK, Candidates, Connections
  <2>2. (probing \in Seq(1 .. Len(Candidates)))'
    BY <1>1 DEF vars, IndInv, Candidates
  <2>3. Memoized' /\ Given'
    BY <1>1 DEF vars, IndInv, Memoized, Given
  <2> QED BY <2>1, <2>2, <2>3 DEF IndInv
<1>2. ASSUME NEW h \in Handlers, getDevice(h) PROVE IndInv'
  BY <1>2, BeginsStep, JoinsStep
<1>3. ASSUME NEW h \in Handlers, getDeviceRejects(h) PROVE IndInv'
  BY <1>3, RejectsStep
<1>4. CASE Probe
  BY <1>4, SucceedsStep, FailsStep, LastFailsStep DEF Probe
<1>5. CASE MinerShifts
  BY <1>5, ShiftsStep
<1> QED BY <1>1, <1>2, <1>3, <1>4, <1>5 DEF Next, Finished

THEOREM Invariance == Spec => []IndInv
<1>1. Init => IndInv
  BY InitInv
<1>2. IndInv /\ [Next]_vars => IndInv'
  BY NextInv
<1> QED BY <1>1, <1>2, PTL DEF Spec

\* Type correctness of the connections, for any handlers and changes.
THEOREM TypeCorrect == Spec => []TypeOK
<1>1. IndInv => TypeOK
  BY DEF IndInv
<1> QED BY <1>1, Invariance, PTL

\* All handlers that were given a client were given the same one, and it is
\* open.
THEOREM Shared == Spec => []OneClient
<1>1. IndInv => OneClient
  <2> SUFFICES ASSUME IndInv, NEW g \in Handlers, NEW h \in Handlers,
                      got[g] \in Clients, got[h] \in Clients
               PROVE  got[g] = got[h] /\ got[g] \in open
    BY DEF OneClient
  <2>1. ASSUME NEW j \in {g, h}
        PROVE  /\ awaits[j] # NoConnection /\ awaits[j] = devicePromise
               /\ got[j] = Client(devicePromise, probing[devicePromise])
    <3>1. got[j] # Nothing /\ got[j] # Rejected
      BY <2>1, Names
    <3> QED BY <2>1, <3>1 DEF IndInv, Given
  <2>2. open = {Client(devicePromise, probing[devicePromise])}
    BY <2>1 DEF IndInv, Memoized
  <2> QED BY <2>1, <2>2
<1> QED BY <1>1, Invariance, PTL

\* At most one client is open, however many probes failed before.
THEOREM OneOpen == Spec => []NothingLeaks
<1>1. IndInv => NothingLeaks
  <2> SUFFICES ASSUME IndInv PROVE Cardinality(open) <= 1
    BY DEF NothingLeaks
  <2>1. CASE open = {}
    BY <2>1, FS_EmptySet
  <2>2. CASE open # {}
    <3>1. open = {Client(devicePromise, probing[devicePromise])}
      BY <2>2 DEF IndInv, Memoized
    <3> QED BY <3>1, FS_Singleton
  <2> QED BY <2>1, <2>2
<1> QED BY <1>1, Invariance, PTL

\* The connection a handler was refused by is not the memoized one.
THEOREM FailureForgotten == Spec => []FailureNotKept
<1>1. IndInv => FailureNotKept
  BY Names DEF IndInv, Given, FailureNotKept, NoConnection
<1> QED BY <1>1, Invariance, PTL
=============================================================================
