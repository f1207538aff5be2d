------------------------ MODULE FirmwareUploadProofs ------------------------
(***************************************************************************)
(* Proofs about FirmwareUpload, for either generation and any amount of    *)
(* noise on the connection: types, and that the result never contradicts   *)
(* what becomes of the image.  The latter assumes that the first success of*)
(* a v2 miner is "ready": the v2 client takes any other for the end of the *)
(* upload.                                                                 *)
(***************************************************************************)
EXTENDS FirmwareUpload, SequenceTheorems, TLAPS

----------------------------------------------------------------------------
(* The inductive invariant.                                                *)

\* What the client received or will receive and has not looked at.
Pipe == buffer \o inbox

Answers == {"ready", "ok", "denied", "fail"}

Stages ==
  /\ gen = "v3" => buffer = <<>>
  /\ pc \in {"start", "auth", "version"} => miner = "idle" /\ ~transmitted
  /\ pc = "upload" => miner # "idle"
  /\ pc # "done" <=> result = "none"

\* Before the transmission, at most one of the miner's answers is under way.
Before(p) ==
  ~transmitted =>
    /\ miner \in {"idle", "asked", "answered"}
    /\ \A i \in 1 .. Len(p) : p[i] \in Answers => miner = "answered"
    /\ \A i, j \in 1 .. Len(p) : p[i] \in Answers /\ p[j] \in Answers => i = j

\* After it, the answers under way are the miner's last word on the image.
After(p) ==
  transmitted =>
    /\ miner \in {"answered", "flashed", "refused"}
    /\ \A i \in 1 .. Len(p) :
         /\ p[i] # "ready"
         /\ p[i] = "ok" => miner = "flashed"
         /\ p[i] \in {"denied", "fail"} => miner = "refused"

\* The first success of the miner is "ready", where that is assumed.
Ready(p) ==
  ~transmitted /\ gen \notin EarlyOk => \A i \in 1 .. Len(p) : p[i] # "ok"

\* A success is true, where that is assumed; an image that is said not to be
\* flashed was not sent, or was refused.
Told ==
  /\ "v2" \notin EarlyOk /\ result = "success" => miner = "flashed"
  /\ Verdict = "notApplied" => ~transmitted \/ miner = "refused"

IndInv ==
  /\ TypeOK /\ Stages /\ Before(Pipe) /\ After(Pipe) /\ Ready(Pipe) /\ Told

----------------------------------------------------------------------------
(* The sequences.                                                          *)

\* q is what is left of p after its first n messages.
Drops(p, n, q) ==
  /\ q \in Seq(Messages)
  /\ Len(p) = Len(q) + n
  /\ \A i \in 1 .. Len(q) : q[i] = p[i + n]

LEMMA Suffix ==
  ASSUME NEW x \in Seq(Messages), NEW n \in 1 .. Len(x)
  PROVE  /\ Drops(x, n, SubSeq(x, n + 1, Len(x)))
         /\ SubSeq(x, 1, n) \in Seq(Messages) /\ Len(SubSeq(x, 1, n)) = n
         /\ \A i \in 1 .. n : SubSeq(x, 1, n)[i] = x[i]
         /\ Head(SubSeq(x, 1, n)) = x[1]
BY DEF Drops

LEMMA Joined ==
  ASSUME NEW b \in Seq(Messages), NEW x \in Seq(Messages), NEW n \in 1 .. Len(x)
  PROVE  LET received == b \o SubSeq(x, 1, n)
             rest == SubSeq(x, n + 1, Len(x))
         IN  /\ Tail(received) \in Seq(Messages) /\ rest \in Seq(Messages)
             /\ Len(b \o x) >= 1 /\ b \o x \in Seq(Messages)
             /\ Head(received) = (b \o x)[1]
             /\ Drops(b \o x, 1, Tail(received) \o rest)
<1> DEFINE first == SubSeq(x, 1, n)
           rest == SubSeq(x, n + 1, Len(x))
           received == b \o first
           left == Tail(received)
<1>1. /\ first \in Seq(Messages) /\ Len(first) = n /\ rest \in Seq(Messages)
      /\ Len(rest) = Len(x) - n
      /\ \A i \in 1 .. n : first[i] = x[i]
      /\ \A i \in 1 .. Len(rest) : rest[i] = x[i + n]
  <2>1. Drops(x, n, rest)
    BY Suffix
  <2>2. Len(x) \in Nat /\ Len(rest) \in Nat /\ n \in Nat /\ Len(x) = Len(rest) + n
    BY <2>1 DEF Drops
  <2>3. /\ first \in Seq(Messages) /\ Len(first) = n
        /\ \A i \in 1 .. n : first[i] = x[i]
    BY Suffix
  <2> HIDE DEF first, rest
  <2> QED BY <2>1, <2>2, <2>3 DEF Drops
<1> HIDE DEF first, rest
<1>2. /\ received \in Seq(Messages) /\ Len(received) = Len(b) + n
      /\ \A i \in 1 .. Len(b) : received[i] = b[i]
      /\ \A i \in 1 .. n : received[Len(b) + i] = x[i]
  <2>1. /\ received \in Seq(Messages) /\ Len(received) = Len(b) + n
        /\ \A i \in 1 .. Len(b) + n :
             received[i] = IF i <= Len(b) THEN b[i] ELSE first[i - Len(b)]
    BY <1>1, ConcatProperties
  <2>2. Len(b) \in Nat /\ n \in Nat
    BY <1>1
  <2>3. \A i \in 1 .. n : received[Len(b) + i] = first[i]
    BY <2>1, <2>2
  <2> QED BY <1>1, <2>1, <2>2, <2>3
<1> HIDE DEF received
<1>3. /\ left \in Seq(Messages) /\ Len(left) = Len(b) + n - 1
      /\ \A i \in 1 .. Len(left) : left[i] = received[i + 1]
      /\ Head(received) = received[1]
  <2>1. received # <<>> /\ Len(b) \in Nat /\ n \in Nat
    BY <1>2
  <2> QED BY <1>2, <2>1, HeadTailProperties
<1> HIDE DEF left
<1>4. /\ b \o x \in Seq(Messages) /\ Len(b \o x) = Len(b) + Len(x)
      /\ \A i \in 1 .. Len(b) + n : (b \o x)[i] = received[i]
  BY <1>2
<1>5. /\ left \o rest \in Seq(Messages) /\ Len(left \o rest) = Len(b) + Len(x) - 1
      /\ \A i \in 1 .. Len(left) : (left \o rest)[i] = left[i]
      /\ \A i \in 1 .. Len(rest) : (left \o rest)[Len(left) + i] = rest[i]
  <2>0. left \in Seq(Messages) /\ rest \in Seq(Messages)
    BY <1>1, <1>3
  <2>1. /\ left \o rest \in Seq(Messages) /\ Len(left \o rest) = Len(left) + Len(rest)
        /\ \A i \in 1 .. Len(left) + Len(rest) :
             (left \o rest)[i] = IF i <= Len(left) THEN left[i] ELSE rest[i - Len(left)]
    BY <2>0, ConcatProperties
  <2>2. Len(left) \in Nat /\ Len(rest) \in Nat /\ Len(b) \in Nat /\ n \in Nat
        /\ Len(x) \in Nat
    BY <1>1, <1>3
  <2>3. Len(left) + Len(rest) = Len(b) + Len(x) - 1
    BY <1>1, <1>3, <2>2
  <2>4. ASSUME NEW i \in 1 .. Len(left) PROVE (left \o rest)[i] = left[i]
    BY <2>1, <2>2
  <2>5. ASSUME NEW i \in 1 .. Len(rest) PROVE (left \o rest)[Len(left) + i] = rest[i]
    <3>1. Len(left) + i \in 1 .. Len(left) + Len(rest) /\ ~(Len(left) + i <= Len(left))
          /\ Len(left) + i - Len(left) = i
      BY <2>2
    <3> QED BY <2>1, <3>1
  <2> QED BY <2>1, <2>3, <2>4, <2>5
<1>6. ASSUME NEW i \in 1 .. Len(left \o rest)
      PROVE  (left \o rest)[i] = (b \o x)[i + 1]
  <2>1. CASE i \in 1 .. Len(left)
    <3>1. Len(b) \in Nat /\ n \in Nat /\ i \in Nat
      BY <2>1
    <3>2. i + 1 \in 1 .. Len(b) + n
      BY <1>3, <2>1, <3>1
    <3>3. (left \o rest)[i] = received[i + 1]
      BY <1>3, <1>5, <2>1
    <3>4. (b \o x)[i + 1] = received[i + 1]
      BY <1>4, <3>2
    <3> QED BY <3>3, <3>4
  <2>2. CASE i \notin 1 .. Len(left)
    <3>0. /\ Len(left) \in Nat /\ Len(rest) \in Nat
          /\ i \in 1 .. Len(left) + Len(rest)
      <4>1. left \in Seq(Messages) /\ rest \in Seq(Messages)
        BY <1>1, <1>3
      <4> QED BY <4>1, ConcatProperties
    <3>1. PICK j \in 1 .. Len(rest) : i = Len(left) + j
      <4>1. i - Len(left) \in 1 .. Len(rest) /\ i = Len(left) + (i - Len(left))
        BY <2>2, <3>0
      <4> QED BY <4>1
    <3>2. (left \o rest)[i] = x[j + n]
      BY <1>1, <1>5, <3>1
    <3>3. i + 1 = Len(b) + (j + n) /\ j + n \in 1 .. Len(x)
      BY <1>1, <1>3, <3>1
    <3>4. (b \o x)[Len(b) + (j + n)] = x[j + n]
      BY <3>3
    <3> QED BY <3>2, <3>3, <3>4
  <2> QED BY <2>1, <2>2
<1>7. Drops(b \o x, 1, left \o rest)
  BY <1>4, <1>5, <1>6 DEF Drops
<1>8. Len(b \o x) >= 1 /\ Head(received) = (b \o x)[1]
  <2>1. /\ Len(b) \in Nat /\ Len(x) \in Nat /\ n \in Nat /\ Len(x) >= 1
        /\ 1 \in 1 .. Len(b) + n
    OBVIOUS
  <2> QED BY <1>3, <1>4, <2>1
<1>9. /\ left \in Seq(Messages) /\ rest \in Seq(Messages)
      /\ Len(b \o x) >= 1 /\ b \o x \in Seq(Messages)
      /\ Head(received) = (b \o x)[1]
      /\ Drops(b \o x, 1, left \o rest)
  BY <1>1, <1>3, <1>4, <1>7, <1>8
<1> QED BY <1>9 DEF left, received, rest, first

LEMMA Added ==
  ASSUME NEW b \in Seq(Messages), NEW x \in Seq(Messages), NEW m \in Messages
  PROVE  LET p == b \o x
             q == b \o Append(x, m)
         IN  /\ Append(x, m) \in Seq(Messages) /\ Len(q) = Len(p) + 1
             /\ Len(p) \in Nat /\ q[Len(p) + 1] = m
             /\ \A i \in 1 .. Len(p) : q[i] = p[i]
OBVIOUS

----------------------------------------------------------------------------
(* Every step keeps the invariant.                                         *)

LEMMA InitInv == ASSUME Init PROVE IndInv
<1>1. TypeOK
  <2>1. 0 \in 0 .. MaxNoise
    BY FirmwareAssumption
  <2>2. "none" \in Results
    BY DEF Results
  <2>3. <<>> \in Seq(Messages)
    OBVIOUS
  <2> QED BY <2>1, <2>2, <2>3 DEF Init, TypeOK
<1>2. Pipe = <<>>
  BY DEF Init, Pipe
<1>3. Stages /\ Before(Pipe) /\ After(Pipe) /\ Ready(Pipe)
  BY <1>2 DEF Init, Stages, Before, After, Ready
<1>4. Told
  BY DEF Init, Told, Verdict
<1> QED BY <1>1, <1>3, <1>4 DEF IndInv

\* The verdict on a result.
LEMMA Verdicts ==
  /\ result = "none" <=> Verdict = "none"
  /\ result = "success" <=> Verdict = "applied"
  /\ result \in PreparationErrors \union BeforeTransmission \union MinerErrors
       <=> Verdict = "notApplied"
  /\ Verdict \in {"none", "applied", "notApplied", "unknown"}
BY DEF Verdict, PreparationErrors, BeforeTransmission, MinerErrors

\* Until the upload connection is open, nothing is under way on it.
LEMMA PreparationStep ==
  ASSUME IndInv, Begin \/ Authenticated \/ VersionKnown \/ PreparationFails
  PROVE  IndInv'
<1>1. /\ pc \in {"start", "auth", "version"} /\ result = "none"
      /\ miner = "idle" /\ ~transmitted
  BY DEF Begin, Authenticated, VersionKnown, PreparationFails, IndInv, Stages
<1>2. /\ gen' = gen /\ image' = image /\ transmitted' = transmitted
      /\ buffer' = buffer /\ inbox' = inbox /\ noise' = noise /\ Pipe' = Pipe
  BY DEF Begin, Authenticated, VersionKnown, PreparationFails, OpenConnection,
         connection, Pipe
<1>3. \/ /\ pc' \in {"auth", "version"} /\ result' = "none"
         /\ miner' = miner /\ peer' = peer
      \/ pc' = "upload" /\ result' = "none" /\ miner' = "asked" /\ peer' = "open"
      \/ /\ pc' = "done" /\ result' \in PreparationErrors
         /\ miner' = miner /\ peer' = peer
  BY <1>1 DEF Begin, Authenticated, VersionKnown, PreparationFails, OpenConnection,
              Finish, connection, PreparationErrors
<1>4. TypeOK'
  <2>1. credential' \in BOOLEAN
    BY DEF Begin, Authenticated, VersionKnown, PreparationFails, IndInv, TypeOK
  <2>2. result' \in Results
    BY <1>3 DEF Results
  <2> QED BY <1>2, <1>3, <2>1, <2>2 DEF IndInv, TypeOK
<1>5. Stages'
  BY <1>1, <1>2, <1>3 DEF IndInv, Stages, PreparationErrors
<1>6. Before(Pipe)' /\ After(Pipe)' /\ Ready(Pipe)'
  BY <1>1, <1>2, <1>3 DEF IndInv, Before, After, Ready
<1>7. Told'
  BY <1>1, <1>2, <1>3 DEF Told, PreparationErrors
<1> QED BY <1>4, <1>5, <1>6, <1>7 DEF IndInv

\* Messages that were looked at are gone; the rest of the flow is as it was.
LEMMA FlowRests ==
  ASSUME IndInv, NEW n \in Nat, Drops(Pipe, n, Pipe'), Pipe \in Seq(Messages),
         UNCHANGED <<gen, miner, transmitted>>
  PROVE  Before(Pipe)' /\ After(Pipe)' /\ Ready(Pipe)'
<1>1. /\ Len(Pipe') \in Nat /\ Len(Pipe) \in Nat
      /\ \A i \in 1 .. Len(Pipe') : i + n \in 1 .. Len(Pipe) /\ Pipe'[i] = Pipe[i + n]
  BY DEF Drops
<1>2. \A i, j \in 1 .. Len(Pipe') : i + n = j + n => i = j
  BY <1>1
<1>3. Before(Pipe)'
  BY <1>1, <1>2 DEF IndInv, Before
<1>4. After(Pipe)' /\ Ready(Pipe)'
  BY <1>1 DEF IndInv, After, Ready
<1> QED BY <1>3, <1>4

\* The client reads "ready": no other answer of the miner is under way.
LEMMA FlowAtReady ==
  ASSUME IndInv, NEW n \in Nat \ {0}, Drops(Pipe, n, Pipe'), Pipe \in Seq(Messages),
         ~transmitted, transmitted', Pipe[1] = "ready", UNCHANGED <<gen, miner>>
  PROVE  /\ Before(Pipe)' /\ After(Pipe)' /\ Ready(Pipe)' /\ miner = "answered"
         /\ \A i \in 2 .. Len(Pipe) : Pipe[i] \notin Answers
<1>1. /\ Len(Pipe') \in Nat /\ Len(Pipe) \in Nat /\ Len(Pipe) = Len(Pipe') + n
      /\ \A i \in 1 .. Len(Pipe') : i + n \in 2 .. Len(Pipe) /\ Pipe'[i] = Pipe[i + n]
      /\ 1 \in 1 .. Len(Pipe)
  BY DEF Drops
<1>2. miner = "answered" /\ \A i \in 2 .. Len(Pipe) : Pipe[i] \notin Answers
  BY <1>1 DEF IndInv, Before, Answers
<1> QED BY <1>1, <1>2 DEF Before, After, Ready, Answers

LEMMA ReadV3Step ==
  ASSUME IndInv, NEW n \in 1 .. Len(inbox), gen = "v3", pc = "upload",
         inbox' = SubSeq(inbox, n + 1, Len(inbox)), ReadV3(SubSeq(inbox, 1, n)),
         UNCHANGED <<gen, image, peer, miner, noise>>
  PROVE  IndInv'
<1> DEFINE chunk == SubSeq(inbox, 1, n)
<1>1. /\ inbox \in Seq(Messages) /\ buffer = <<>> /\ buffer' = <<>>
      /\ Len(inbox) \in Nat /\ n \in Nat \ {0}
      /\ Pipe = inbox /\ Pipe' = inbox' /\ inbox' \in Seq(Messages)
      /\ Drops(Pipe, n, Pipe') /\ Pipe \in Seq(Messages)
  BY Suffix DEF IndInv, TypeOK, Stages, ReadV3, Pipe, Drops
<1>2. /\ Len(chunk) = n /\ \A i \in 1 .. n : chunk[i] = inbox[i]
      /\ Head(chunk) = inbox[1] /\ inbox[1] \in Messages /\ 1 \in 1 .. Len(inbox)
  BY <1>1, Suffix
<1> HIDE DEF chunk
<1>3. miner # "idle" /\ result = "none"
  BY DEF IndInv, Stages
<1>4. CASE transmitted' = transmitted /\ credential' \in BOOLEAN /\ pc' = "done"
           /\ \/ result' = "ERR_API_V3_FRAME_LENGTH_INVALID"
              \/ transmitted /\ result' = UploadResult(inbox[1])
              \/ ~transmitted /\ inbox[1] # "ready" /\ result' = ReadyResult(inbox[1])
  <2>1. result' \in Results /\ result' # "none"
    BY <1>4 DEF UploadResult, ReadyResult, Results, DecodingErrors, MinerErrors,
                BeforeTransmission
  <2>2. TypeOK'
    BY <1>1, <1>4, <2>1 DEF IndInv, TypeOK
  <2>3. Stages'
    BY <1>1, <1>3, <1>4, <2>1 DEF IndInv, Stages
  <2>4. Before(Pipe)' /\ After(Pipe)' /\ Ready(Pipe)'
    BY <1>1, <1>4, FlowRests
  <2>5. Told'
    <3>1. transmitted => /\ inbox[1] # "ready"
                         /\ inbox[1] = "ok" => miner = "flashed"
                         /\ inbox[1] \in {"denied", "fail"} => miner = "refused"
      BY <1>1, <1>2 DEF IndInv, After
    <3>2. CASE result' = "ERR_API_V3_FRAME_LENGTH_INVALID"
      BY <3>2 DEF Told, Verdict, PreparationErrors, BeforeTransmission, MinerErrors
    <3>3. CASE transmitted /\ result' = UploadResult(inbox[1])
      BY <1>2, <3>1, <3>3
         DEF Told, Verdict, UploadResult, PreparationErrors, BeforeTransmission, MinerErrors
    <3>4. CASE ~transmitted /\ inbox[1] # "ready" /\ result' = ReadyResult(inbox[1])
      BY <1>4, <3>4 DEF Told, ReadyResult
    <3> QED BY <1>4, <3>2, <3>3, <3>4
  <2> QED BY <2>2, <2>3, <2>4, <2>5 DEF IndInv
<1>5. CASE /\ ~transmitted /\ inbox[1] = "ready" /\ transmitted' = TRUE
           /\ credential' = credential
           /\ IF n > 1 THEN pc' = "done" /\ result' = UploadResult(inbox[2])
              ELSE pc' = pc /\ result' = result
  <2>1. /\ Before(Pipe)' /\ After(Pipe)' /\ Ready(Pipe)' /\ miner = "answered"
        /\ \A i \in 2 .. Len(inbox) : inbox[i] \notin Answers
    BY <1>1, <1>5, FlowAtReady
  <2>2. n > 1 => result' = "ERR_API_RESPONSE_INVALID"
    <3>1. n > 1 => 2 \in 2 .. Len(inbox)
      BY <1>1
    <3> QED BY <1>5, <2>1, <3>1 DEF UploadResult, Answers
  <2>3. TypeOK'
    BY <1>1, <1>5, <2>2 DEF IndInv, TypeOK, Results, DecodingErrors
  <2>4. Stages'
    BY <1>1, <1>3, <1>5, <2>2 DEF IndInv, Stages
  <2>5. Told'
    BY <1>1, <1>3, <1>5, <2>2
       DEF Told, Verdict, PreparationErrors, BeforeTransmission, MinerErrors
  <2> QED BY <2>1, <2>3, <2>4, <2>5 DEF IndInv
<1> QED
  <2>1. credential \in BOOLEAN
    BY DEF IndInv, TypeOK
  <2>2. ReadV3(chunk)
    BY DEF chunk
  <2>3. CASE "badLength" \in ToSet(chunk)
    BY <1>4, <2>1, <2>2, <2>3 DEF ReadV3, Finish
  <2>4. CASE "badLength" \notin ToSet(chunk) /\ transmitted
    <3>1. transmitted' = transmitted /\ credential' = credential
          /\ pc' = "done" /\ result' = UploadResult(inbox[1])
      BY <1>2, <2>2, <2>4 DEF ReadV3, Finish
    <3> QED BY <1>4, <2>1, <2>4, <3>1
  <2>5. CASE "badLength" \notin ToSet(chunk) /\ ~transmitted /\ inbox[1] # "ready"
    <3>1. transmitted' = transmitted /\ credential' = (credential /\ inbox[1] # "denied")
          /\ pc' = "done" /\ result' = ReadyResult(inbox[1])
      BY <1>2, <2>2, <2>5 DEF ReadV3, Finish
    <3>2. credential' \in BOOLEAN
      BY <3>1
    <3> QED BY <1>4, <2>5, <3>1, <3>2
  <2>6. CASE "badLength" \notin ToSet(chunk) /\ ~transmitted /\ inbox[1] = "ready"
    <3>1. /\ transmitted' = TRUE /\ credential' = credential
          /\ IF n > 1 THEN pc' = "done" /\ result' = UploadResult(chunk[2])
             ELSE pc' = pc /\ result' = result
      BY <1>2, <2>2, <2>6 DEF ReadV3, Finish, Transmit
    <3>2. n > 1 => chunk[2] = inbox[2]
      BY <1>1, <1>2
    <3> QED BY <1>5, <2>6, <3>1, <3>2
  <2> QED BY <2>3, <2>4, <2>5, <2>6

LEMMA ReadV2Step ==
  ASSUME IndInv, NEW n \in 1 .. Len(inbox), gen = "v2", pc = "upload",
         inbox' = SubSeq(inbox, n + 1, Len(inbox)), ReadV2(SubSeq(inbox, 1, n)),
         UNCHANGED <<gen, image, peer, miner, noise>>
  PROVE  IndInv'
<1> DEFINE m == Pipe[1]
<1>1. /\ inbox \in Seq(Messages) /\ buffer \in Seq(Messages)
      /\ buffer' = Tail(buffer \o SubSeq(inbox, 1, n))
      /\ m = Head(buffer \o SubSeq(inbox, 1, n))
      /\ buffer' \in Seq(Messages) /\ inbox' \in Seq(Messages)
      /\ Pipe \in Seq(Messages) /\ Drops(Pipe, 1, Pipe')
      /\ 1 \in 1 .. Len(Pipe) /\ m \in Messages
  <2>1. buffer \in Seq(Messages) /\ inbox \in Seq(Messages)
    BY DEF IndInv, TypeOK
  <2>2. buffer' = Tail(buffer \o SubSeq(inbox, 1, n))
    BY DEF ReadV2
  <2>3. /\ m = Head(buffer \o SubSeq(inbox, 1, n))
        /\ buffer' \in Seq(Messages) /\ inbox' \in Seq(Messages)
        /\ Len(Pipe) >= 1 /\ Pipe \in Seq(Messages) /\ Drops(Pipe, 1, Pipe')
    <3> DEFINE received == buffer \o SubSeq(inbox, 1, n)
               rest == SubSeq(inbox, n + 1, Len(inbox))
    <3>1. /\ Tail(received) \in Seq(Messages) /\ rest \in Seq(Messages)
          /\ Len(buffer \o inbox) >= 1 /\ buffer \o inbox \in Seq(Messages)
          /\ Head(received) = (buffer \o inbox)[1]
          /\ Drops(buffer \o inbox, 1, Tail(received) \o rest)
      BY <2>1, Joined
    <3>2. Pipe = buffer \o inbox /\ Pipe' = Tail(received) \o rest
      BY <2>2 DEF Pipe
    <3>3. /\ m = Head(received) /\ Len(Pipe) >= 1 /\ Pipe \in Seq(Messages)
          /\ Drops(Pipe, 1, Pipe')
      BY <3>1, <3>2
    <3>4. buffer' \in Seq(Messages) /\ inbox' \in Seq(Messages)
      BY <2>2, <3>1
    <3> QED BY <3>3, <3>4
  <2>4. 1 \in 1 .. Len(Pipe) /\ m \in Messages
    <3>1. Pipe \in Seq(Messages) /\ Len(Pipe) >= 1
      BY <2>3
    <3> QED BY <3>1
  <2> QED BY <2>1, <2>2, <2>3, <2>4
<1>2. /\ credential' = credential
      /\ \/ m = "ready" /\ ~transmitted /\ transmitted' = TRUE /\ pc' = pc /\ result' = result
         \/ /\ pc' = "done" /\ transmitted' = transmitted
            /\ \/ (m = "ok" \/ (m = "ready" /\ transmitted)) /\ result' = "success"
               \/ m = "fail" /\ result' = "ERR_FIRMWARE_UPDATE_FAILED"
               \/ m \in {"denied", "garbled", "badLength"} /\ result' = "RAW"
  BY <1>1 DEF ReadV2, Finish, Transmit
<1> HIDE DEF m
<1>3. miner # "idle" /\ result = "none"
  BY DEF IndInv, Stages
<1>4. TypeOK'
  BY <1>1, <1>2 DEF IndInv, TypeOK, Results, DecodingErrors, MinerErrors
<1>5. Stages'
  BY <1>1, <1>2, <1>3 DEF IndInv, Stages
<1>6. CASE m = "ready" /\ ~transmitted
  <2>1. Before(Pipe)' /\ After(Pipe)' /\ Ready(Pipe)'
    BY <1>1, <1>2, <1>6, FlowAtReady DEF m
  <2>2. Told'
    BY <1>2, <1>3, <1>6
       DEF Told, Verdict, PreparationErrors, BeforeTransmission, MinerErrors
  <2> QED BY <1>4, <1>5, <2>1, <2>2 DEF IndInv
<1>7. CASE ~(m = "ready" /\ ~transmitted)
  <2>1. Before(Pipe)' /\ After(Pipe)' /\ Ready(Pipe)'
    BY <1>1, <1>2, <1>7, FlowRests
  <2>2. /\ transmitted => /\ m # "ready" /\ (m = "ok" => miner = "flashed")
                          /\ m = "fail" => miner = "refused"
        /\ ~transmitted /\ "v2" \notin EarlyOk => m # "ok"
    BY <1>1 DEF IndInv, After, Ready, m
  <2>3. Told'
    BY <1>2, <1>7, <2>2
       DEF Told, Verdict, PreparationErrors, BeforeTransmission, MinerErrors
  <2> QED BY <1>4, <1>5, <2>1, <2>3 DEF IndInv
<1> QED BY <1>6, <1>7

LEMMA SocketStep ==
  ASSUME IndInv, NEW event \in {"timeout", "error", "end"}, SocketEvent(event)
  PROVE  IndInv'
<1>1. /\ gen' = gen /\ image' = image /\ credential' = credential
      /\ transmitted' = transmitted /\ buffer' = buffer /\ inbox' = inbox
      /\ peer' = peer /\ miner' = miner /\ noise' = noise
      /\ pc = "upload" /\ pc' = "done" /\ Pipe' = Pipe
  BY DEF SocketEvent, Finish, connection, Pipe
<1>2. \/ transmitted /\ result' = "ERR_FIRMWARE_OUTCOME_UNKNOWN"
      \/ ~transmitted /\ result' \in BeforeTransmission
  BY DEF SocketEvent, Finish, FailureCode, BeforeTransmission
<1>3. TypeOK'
  BY <1>1, <1>2 DEF IndInv, TypeOK, Results
<1>4. Stages'
  BY <1>1, <1>2 DEF IndInv, Stages, BeforeTransmission
<1>5. Before(Pipe)' /\ After(Pipe)' /\ Ready(Pipe)'
  BY <1>1 DEF IndInv, Before, After, Ready
<1>6. Told'
  BY <1>1, <1>2
     DEF Told, Verdict, PreparationErrors, BeforeTransmission, MinerErrors
<1> QED BY <1>3, <1>4, <1>5, <1>6 DEF IndInv

\* The miner says something, or nothing.
LEMMA SaysIs ==
  ASSUME IndInv, NEW m \in Messages, Says(m), buffer' = buffer
  PROVE  /\ inbox' \in Seq(Messages) /\ Len(Pipe) \in Nat /\ Len(Pipe') \in Nat
         /\ \A i \in 1 .. Len(Pipe') :
              Pipe'[i] = IF i \in 1 .. Len(Pipe) THEN Pipe[i] ELSE m
         /\ \A i, j \in 1 .. Len(Pipe') :
              i \notin 1 .. Len(Pipe) /\ j \notin 1 .. Len(Pipe) => i = j
<1>1. buffer \in Seq(Messages) /\ inbox \in Seq(Messages)
  BY DEF IndInv, TypeOK
<1>2. CASE pc # "upload"
  <2>1. inbox' = inbox /\ Pipe' = Pipe /\ Len(Pipe) \in Nat
    BY <1>1, <1>2, ConcatProperties DEF Says, Pipe
  <2> QED BY <1>1, <2>1
<1>3. CASE pc = "upload"
  <2>1. inbox' = Append(inbox, m) /\ Pipe = buffer \o inbox
        /\ Pipe' = buffer \o Append(inbox, m)
    BY <1>3 DEF Says, Pipe
  <2>2. /\ inbox' \in Seq(Messages) /\ Len(Pipe') = Len(Pipe) + 1
        /\ Len(Pipe) \in Nat /\ Pipe'[Len(Pipe) + 1] = m
        /\ \A i \in 1 .. Len(Pipe) : Pipe'[i] = Pipe[i]
    BY <1>1, <2>1, Added
  <2> QED BY <2>2
<1> QED BY <1>2, <1>3

LEMMA MinerStep == ASSUME IndInv, Miner PROVE IndInv'
<1>1. /\ gen' = gen /\ image' = image /\ credential' = credential /\ pc' = pc
      /\ transmitted' = transmitted /\ buffer' = buffer /\ result' = result
  BY DEF Miner, MinerAnswers, MinerFlashes, MinerRefusesImage, MinerGarbles, MinerCloses
<1>2. Told /\ Verdict' = Verdict
  BY <1>1 DEF IndInv, Verdict
<1>3. ASSUME inbox' \in Seq(Messages), peer' \in {"off", "open", "closed"},
             miner' \in {"idle", "asked", "answered", "flashed", "refused"},
             miner = "idle" <=> miner' = "idle", noise' \in 0 .. MaxNoise
      PROVE  TypeOK' /\ Stages'
  BY <1>1, <1>3 DEF IndInv, TypeOK, Stages
<1>4. CASE MinerAnswers
  <2>1. PICK m \in FirstAnswers : Says(m)
    BY <1>4 DEF MinerAnswers
  <2>2. m \in Answers /\ m \in Messages /\ (m = "ok" => gen \in EarlyOk)
    BY DEF FirstAnswers, Answers, Messages
  <2>3. miner = "asked" /\ miner' = "answered" /\ peer' = peer /\ noise' = noise
    BY <1>4 DEF MinerAnswers
  <2>4. ~transmitted /\ \A i \in 1 .. Len(Pipe) : Pipe[i] \notin Answers
    BY <2>3 DEF IndInv, Before, After
  <2>5. Before(Pipe)' /\ After(Pipe)' /\ Ready(Pipe)'
    BY <1>1, <2>1, <2>2, <2>3, <2>4, SaysIs DEF IndInv, Before, After, Ready, Answers
  <2>6. TypeOK' /\ Stages'
    BY <1>1, <1>3, <2>1, <2>2, <2>3, SaysIs DEF IndInv, TypeOK
  <2>7. Told'
    BY <1>1, <1>2, <2>3, <2>4 DEF Told
  <2> QED BY <2>5, <2>6, <2>7 DEF IndInv
<1>5. CASE MinerFlashes \/ MinerRefusesImage
  <2>1. /\ transmitted /\ miner = "answered" /\ peer' = peer /\ noise' = noise
        /\ \/ miner' = "flashed" /\ (inbox' = inbox \/ Says("ok"))
           \/ miner' = "refused" /\ (inbox' = inbox \/ Says("fail") \/ Says("denied"))
    BY <1>5 DEF MinerFlashes, MinerRefusesImage, Arrives
  <2>2. \A i \in 1 .. Len(Pipe) : Pipe[i] \notin Answers
    BY <2>1 DEF IndInv, After, Answers
  <2>3. inbox' \in Seq(Messages) /\ Before(Pipe)' /\ After(Pipe)' /\ Ready(Pipe)'
    <3>1. CASE inbox' = inbox
      <4>1. Pipe' = Pipe
        BY <1>1, <3>1 DEF Pipe
      <4> QED BY <1>1, <2>1, <2>2, <3>1, <4>1
              DEF IndInv, TypeOK, Before, After, Ready, Answers
    <3>2. ASSUME NEW m \in {"ok", "fail", "denied"}, Says(m),
                 miner' = IF m = "ok" THEN "flashed" ELSE "refused"
          PROVE  inbox' \in Seq(Messages) /\ Before(Pipe)' /\ After(Pipe)' /\ Ready(Pipe)'
      <4>1. m \in Messages
        BY DEF Messages
      <4> QED BY <1>1, <2>1, <2>2, <3>2, <4>1, SaysIs DEF Before, After, Ready, Answers
    <3> QED BY <2>1, <3>1, <3>2
  <2>4. TypeOK' /\ Stages'
    BY <1>1, <1>3, <2>1, <2>3 DEF IndInv, TypeOK
  <2>5. Told'
    BY <1>1, <1>2, <2>1 DEF Told
  <2> QED BY <2>3, <2>4, <2>5 DEF IndInv
<1>6. CASE MinerGarbles
  <2>1. PICK m \in {"garbled", "badLength"} : Says(m)
    BY <1>6 DEF MinerGarbles
  <2>2. m \in Messages \ Answers
    BY DEF Messages, Answers
  <2>3. miner' = miner /\ peer' = peer /\ noise' \in 0 .. MaxNoise
    BY <1>6, FirmwareAssumption DEF MinerGarbles, IndInv, TypeOK
  <2>4. Before(Pipe)' /\ After(Pipe)' /\ Ready(Pipe)'
    BY <1>1, <2>1, <2>2, <2>3, SaysIs DEF IndInv, Before, After, Ready, Answers
  <2>5. TypeOK' /\ Stages'
    BY <1>1, <1>3, <2>1, <2>2, <2>3, SaysIs DEF IndInv, TypeOK
  <2>6. Told'
    BY <1>1, <1>2, <2>3 DEF Told
  <2> QED BY <2>4, <2>5, <2>6 DEF IndInv
<1>7. CASE MinerCloses
  <2>1. inbox' = inbox /\ miner' = miner /\ peer' = "closed" /\ noise' = noise
    BY <1>7 DEF MinerCloses
  <2>2. TypeOK' /\ Stages'
    BY <1>1, <1>3, <2>1 DEF IndInv, TypeOK
  <2>3. Before(Pipe)' /\ After(Pipe)' /\ Ready(Pipe)' /\ Told'
    BY <1>1, <1>2, <2>1 DEF IndInv, Before, After, Ready, Told, Pipe
  <2> QED BY <2>2, <2>3 DEF IndInv
<1> QED BY <1>4, <1>5, <1>6, <1>7 DEF Miner

LEMMA NextInv == ASSUME IndInv, [Next]_vars PROVE IndInv'
<1>1. CASE UNCHANGED vars
  <2>1. /\ gen' = gen /\ image' = image /\ credential' = credential /\ pc' = pc
        /\ transmitted' = transmitted /\ buffer' = buffer /\ inbox' = inbox
        /\ peer' = peer /\ miner' = miner /\ noise' = noise /\ result' = result
        /\ Pipe' = Pipe
    BY <1>1 DEF vars, Pipe
  <2> QED BY <2>1 DEF IndInv, TypeOK, Stages, Before, After, Ready, Told, Verdict
<1>2. CASE Data
  <2>1. PICK n \in 1 .. Len(inbox) :
          /\ inbox' = SubSeq(inbox, n + 1, Len(inbox))
          /\ IF gen = "v3" THEN ReadV3(SubSeq(inbox, 1, n)) ELSE ReadV2(SubSeq(inbox, 1, n))
    BY <1>2 DEF Data
  <2>2. pc = "upload" /\ UNCHANGED <<gen, image, peer, miner, noise>>
    BY <1>2 DEF Data
  <2>3. gen \in {"v2", "v3"}
    BY FirmwareAssumption DEF IndInv, TypeOK
  <2>4. CASE gen = "v3"
    BY <2>1, <2>2, <2>4, ReadV3Step
  <2>5. CASE gen = "v2"
    BY <2>1, <2>2, <2>5, ReadV2Step
  <2> QED BY <2>3, <2>4, <2>5
<1> QED BY <1>1, <1>2, PreparationStep, SocketStep, MinerStep DEF Next, Client, Finished

THEOREM Invariance == Spec => []IndInv
<1>1. Init => IndInv
  BY InitInv
<1>2. IndInv /\ [Next]_vars => IndInv'
  BY NextInv
<1> QED BY <1>1, <1>2, PTL DEF Spec

\* Type correctness of the upload, for any amount of noise.
THEOREM TypeCorrect == Spec => []TypeOK
<1>1. IndInv => TypeOK
  BY DEF IndInv
<1> QED BY <1>1, Invariance, PTL

----------------------------------------------------------------------------
(* The refinement.                                                         *)

Upload == {"upload"}

LEMMA ContractInit == ASSUME Init PROVE Contract!Init
BY DEF Init, Contract!Init, Verdict, PreparationErrors, BeforeTransmission, MinerErrors

LEMMA ContractStep ==
  ASSUME "v2" \notin EarlyOk, IndInv, IndInv', [Next]_vars
  PROVE  [Contract!Next]_Contract!vars
<1> DEFINE issued == IF pc = "start" THEN {} ELSE Upload
           applied == [c \in Upload |-> IF miner = "flashed" THEN 1 ELSE 0]
           verdict == [c \in Upload |-> Verdict]
<1> USE DEF Upload
<1>1. /\ result = "none" <=> Verdict = "none"
      /\ result' = "none" <=> Verdict' = "none"
      /\ Verdict = "applied" <=> result = "success"
      /\ Verdict' = "applied" <=> result' = "success"
      /\ Verdict' \in {"none", "applied", "notApplied", "unknown"}
  BY DEF Verdict, PreparationErrors, BeforeTransmission, MinerErrors
<1>2. CASE /\ pc = "start" <=> pc' = "start"
           /\ miner = "flashed" <=> miner' = "flashed"
           /\ result' = result
  <2>1. Verdict' = Verdict
    BY <1>2 DEF Verdict
  <2> QED BY <1>2, <2>1 DEF Contract!vars
<1>3. CASE pc = "start" /\ pc' # "start" /\ miner' = miner /\ result' = result
  <2>1. Verdict' = Verdict
    BY <1>3 DEF Verdict
  <2>2. Contract!Issue("upload")
    BY <1>3, <2>1 DEF Contract!Issue
  <2> QED BY <2>2 DEF Contract!Next
<1>4. CASE /\ pc # "start" /\ pc' # "start" /\ miner' = miner
           /\ result = "none" /\ result' # "none"
  <2>1. Contract!Truthful("upload", Verdict')
    <3>1. Verdict' = "applied" => miner = "flashed"
      BY <1>1, <1>4 DEF IndInv, Told
    <3>2. Verdict' = "notApplied" => miner # "flashed"
      BY <1>4 DEF IndInv, Told, Before
    <3> QED BY <3>1, <3>2 DEF Contract!Truthful
  <2>2. Contract!Report("upload")
    BY <1>1, <1>4, <2>1 DEF Contract!Report, Contract!Verdicts
  <2> QED BY <2>2 DEF Contract!Next
<1>5. CASE /\ pc # "start" /\ pc' = pc /\ result' = result
           /\ miner # "flashed" /\ miner' = "flashed" /\ transmitted /\ miner # "refused"
  <2>1. Verdict' = Verdict
    BY <1>5 DEF Verdict
  <2>2. Verdict \in {"none", "unknown"}
    BY <1>1, <1>5, <2>1 DEF IndInv, Told
  <2>3. Contract!Apply("upload")
    BY <1>5, <2>1, <2>2 DEF Contract!Apply
  <2> QED BY <2>3 DEF Contract!Next
<1>6. CASE Begin
  BY <1>3, <1>6 DEF Begin, connection
<1>7. CASE Authenticated \/ VersionKnown \/ PreparationFails
  <2>1. /\ pc \in {"auth", "version"} /\ result = "none" /\ miner = "idle"
        /\ pc' # "start" /\ miner' \in {"idle", "asked"}
        /\ \/ miner' = miner
           \/ result' = result
    BY <1>7 DEF Authenticated, VersionKnown, PreparationFails, OpenConnection, Finish,
                connection, IndInv, Stages
  <2> QED BY <1>2, <1>4, <2>1
<1>8. CASE Data \/ \E event \in {"timeout", "error", "end"} : SocketEvent(event)
  <2>1. /\ pc = "upload" /\ miner' = miner /\ pc' \in {"upload", "done"}
        /\ result = "none"
    BY <1>8 DEF Data, SocketEvent, Finish, connection, ReadV3, ReadV2, IndInv, Stages
  <2> QED BY <1>2, <1>4, <2>1
<1>9. CASE MinerFlashes
  <2>1. /\ pc' = pc /\ result' = result /\ transmitted
        /\ miner = "answered" /\ miner' = "flashed"
    BY <1>9 DEF MinerFlashes, Arrives
  <2>2. pc # "start"
    BY <2>1 DEF IndInv, Stages
  <2> QED BY <1>5, <2>1, <2>2
<1>10. CASE MinerAnswers \/ MinerRefusesImage \/ MinerGarbles \/ MinerCloses
  <2>1. /\ pc' = pc /\ result' = result
        /\ miner = "flashed" <=> miner' = "flashed"
    BY <1>10 DEF MinerAnswers, MinerRefusesImage, MinerGarbles, MinerCloses
  <2> QED BY <1>2, <2>1
<1>11. CASE UNCHANGED vars
  BY <1>2, <1>11 DEF vars
<1> QED BY <1>6, <1>7, <1>8, <1>9, <1>10, <1>11 DEF Next, Client, Miner, Finished

\* The result of an upload is never contradicted by what becomes of the image,
\* if the first success of a v2 miner is "ready".
THEOREM Contracted == ASSUME "v2" \notin EarlyOk PROVE Spec => KeepsContract
<1>1. Init => Contract!Init
  BY ContractInit
<1>2. IndInv /\ IndInv' /\ [Next]_vars => [Contract!Next]_Contract!vars
  BY ContractStep
<1> QED BY <1>1, <1>2, Invariance, PTL DEF Spec, KeepsContract, Contract!Spec
============================================================================
