--------------------------- MODULE FirmwareUpload ---------------------------
(***************************************************************************)
(* updateFirmware on one miner, for both API generations.  The client asks *)
(* for the control-board platform, picks the matching payload of the       *)
(* image, sends update_firmware, waits for "ready", sends the image on the *)
(* same connection and waits for the result.                               *)
(*                                                                         *)
(* The two clients differ in the order of the preparations and in how they *)
(* read the connection: the v3 transport decodes every frame of a chunk    *)
(* and is undone by one bad length, the v2 client takes one JSON object    *)
(* from the buffer per chunk and looks at "transmitted" only for "ready".  *)
(*                                                                         *)
(* The miner and the network are the environment.  The miner is trusted to *)
(* flash only an image it received and to report the flashing truthfully;  *)
(* it may answer nonsense, close, reset or fall silent at any point.       *)
(***************************************************************************)
EXTENDS Naturals, Sequences, SequencesExt

CONSTANTS
  Generations,    \* the API generations of the run, of {"v2", "v3"}
  EarlyOk,        \* generations whose miner may answer the command with a
                  \* success that is not "ready"
  MaxNoise        \* bound: undecodable messages the miner may add

ASSUME FirmwareAssumption ==
  /\ Generations \subseteq {"v2", "v3"}
  /\ EarlyOk \subseteq Generations
  /\ MaxNoise \in Nat

VARIABLES
  gen,            \* the client's API generation
  image,          \* what readFirmware finds for the platform
  credential,     \* is a v2 token or a v3 salt stored?
  pc,             \* progress of updateFirmware
  transmitted,    \* the flag of the same name: size and image were written
  buffer,         \* v2: messages received and not yet taken from the buffer
  inbox,          \* messages on their way from the miner
  peer,           \* the miner's end: off, open, closed
  miner,          \* the miner: idle, asked, answered, flashed, refused
  noise,          \* undecodable messages added so far
  result          \* what updateFirmware resolved to

vars == <<gen, image, credential, pc, transmitted, buffer, inbox, peer,
          miner, noise, result>>

connection == <<transmitted, buffer, inbox, peer, miner, noise>>

Messages == {"ready", "ok", "denied", "fail", "garbled", "badLength"}

\* whole, or cut off by the end of the file, or nothing, or for other boards
Images == {"whole", "short", "empty", "foreign"}

PreparationErrors ==
  {"ERR_AUTH", "ERR_VERSION", "ERR_INVALID_FIRMWARE", "ERR_FIRMWARE_SIZE_INVALID"}

BeforeTransmission ==
  {"ERR_API_V3_TIMEOUT", "ERR_API_V3_CONNECTION", "ERR_API_V3_FRAME_INCOMPLETE",
   "ERR_FIRMWARE_UPDATE_TIMEOUT", "ERR_FIRMWARE_UPDATE_CONNECTION",
   "ERR_FIRMWARE_READY_INVALID"}

\* The miner said no, before or after the transmission.
MinerErrors == {"ERR_NO_PERMISSION", "ERR_FAIL", "ERR_FIRMWARE_UPDATE_FAILED"}

\* The answer could not be decoded.  RAW is the message of a SyntaxError,
\* which is not an ERR_ code.
DecodingErrors == {"ERR_API_V3_FRAME_LENGTH_INVALID", "ERR_API_RESPONSE_INVALID", "RAW"}

Results == {"none", "success", "ERR_FIRMWARE_OUTCOME_UNKNOWN"}
  \union PreparationErrors \union BeforeTransmission \union MinerErrors
  \union DecodingErrors

Init ==
  /\ gen \in Generations
  /\ image \in Images
  /\ credential \in BOOLEAN
  /\ pc = "start"
  /\ transmitted = FALSE
  /\ buffer = <<>>
  /\ inbox = <<>>
  /\ peer = "off"
  /\ miner = "idle"
  /\ noise = 0
  /\ result = "none"

----------------------------------------------------------------------------
(* Preparation: everything before the upload connection.                   *)

Finish(r) ==
  /\ pc' = "done"
  /\ result' = r

\* v2 takes the token first and asks for the version with it in hand; v3 asks
\* for the version first and fetches a salt, when it has none, last.
Begin ==
  /\ pc = "start"
  /\ pc' = IF gen = "v2" /\ ~credential THEN "auth" ELSE "version"
  /\ UNCHANGED <<gen, image, credential, result, connection>>

\* The upload connection is opened and the command written to it.
OpenConnection ==
  /\ pc' = "upload"
  /\ peer' = "open"
  /\ miner' = "asked"
  /\ UNCHANGED <<result, transmitted, buffer, inbox, noise>>

Authenticated ==
  /\ pc = "auth"
  /\ credential' = TRUE
  /\ IF gen = "v2"
     THEN pc' = "version" /\ UNCHANGED <<result, connection>>
     ELSE OpenConnection
  /\ UNCHANGED <<gen, image>>

\* readFirmware finds no payload for the platform, or (v3) an empty one.
Unusable == image = "foreign" \/ (gen = "v3" /\ image = "empty")

VersionKnown ==
  /\ pc = "version"
  /\ CASE Unusable ->
            /\ Finish(IF image = "foreign" THEN "ERR_INVALID_FIRMWARE"
                      ELSE "ERR_FIRMWARE_SIZE_INVALID")
            /\ UNCHANGED connection
       [] ~Unusable /\ gen = "v3" /\ ~credential ->
            pc' = "auth" /\ UNCHANGED <<result, connection>>
       [] OTHER -> OpenConnection
  /\ UNCHANGED <<gen, image, credential>>

PreparationFails ==
  /\ pc \in {"auth", "version"}
  /\ Finish(IF pc = "auth" THEN "ERR_AUTH" ELSE "ERR_VERSION")
  /\ UNCHANGED <<gen, image, credential, connection>>

----------------------------------------------------------------------------
(* The upload connection, client side.                                     *)

\* The size and the image are written to the socket.
Transmit == transmitted' = TRUE

\* The v3 client's reading of a frame other than "ready" while it waits for
\* "ready" ...
ReadyResult(m) ==
  CASE m = "denied" -> "ERR_NO_PERMISSION"
    [] m = "fail" -> "ERR_FAIL"
    [] m = "garbled" -> "ERR_API_RESPONSE_INVALID"
    [] OTHER -> "ERR_FIRMWARE_READY_INVALID"

\* ... and of any frame once the image was sent.
UploadResult(m) ==
  CASE m \in {"ok", "ready"} -> "success"
    [] m = "denied" -> "ERR_NO_PERMISSION"
    [] m = "fail" -> "ERR_FAIL"
    [] OTHER -> "ERR_API_RESPONSE_INVALID"

\* FrameDecoder.push runs over the whole chunk before any frame is looked at:
\* an invalid length anywhere in it rejects the frames before it, too.
ReadV3(chunk) ==
  /\ UNCHANGED buffer
  /\ IF "badLength" \in ToSet(chunk)
     THEN /\ Finish("ERR_API_V3_FRAME_LENGTH_INVALID")
          /\ UNCHANGED <<transmitted, credential>>
     ELSE \/ /\ transmitted
             /\ Finish(UploadResult(Head(chunk)))
             /\ UNCHANGED <<transmitted, credential>>
          \/ /\ ~transmitted /\ Head(chunk) # "ready"
             /\ Finish(ReadyResult(Head(chunk)))
             /\ credential' = (credential /\ Head(chunk) # "denied")
             /\ UNCHANGED transmitted
          \/ /\ ~transmitted /\ Head(chunk) = "ready"
             /\ Transmit
             /\ UNCHANGED credential
             /\ IF Len(chunk) > 1 THEN Finish(UploadResult(chunk[2]))
                ELSE UNCHANGED <<pc, result>>

\* Mutant: a decoded answer of any code ends the upload as a success.
MutReadV2IgnoresCode(chunk) ==
  /\ buffer' = Tail(buffer \o chunk)
  /\ IF Head(buffer \o chunk) = "ready" /\ ~transmitted
     THEN Transmit /\ UNCHANGED <<pc, result>>
     ELSE Finish("success") /\ UNCHANGED transmitted
  /\ UNCHANGED credential

\* The v2 client takes one object from the buffer and leaves the others there
\* until more data arrives.  An answer that is not encrypted cannot be decoded.
ReadV2(chunk) ==
  LET received == buffer \o chunk
      m == Head(received)
  IN  /\ buffer' = Tail(received)
      /\ UNCHANGED credential
      /\ \/ /\ m = "ready" /\ ~transmitted
            /\ Transmit
            /\ UNCHANGED <<pc, result>>
         \/ /\ m = "ok" \/ (m = "ready" /\ transmitted)
            /\ Finish("success")
            /\ UNCHANGED transmitted
         \/ /\ m = "fail"
            /\ Finish("ERR_FIRMWARE_UPDATE_FAILED")
            /\ UNCHANGED transmitted
         \/ /\ m \in {"denied", "garbled", "badLength"}
            /\ Finish("RAW")
            /\ UNCHANGED transmitted

\* A chunk arrives: one or more of the messages under way.
Data ==
  /\ pc = "upload"
  /\ \E n \in 1 .. Len(inbox) :
       /\ inbox' = SubSeq(inbox, n + 1, Len(inbox))
       /\ IF gen = "v3" THEN ReadV3(SubSeq(inbox, 1, n)) ELSE ReadV2(SubSeq(inbox, 1, n))
  /\ UNCHANGED <<gen, image, peer, miner, noise>>

\* Mutant: the flag is not looked at.
MutFailureCodeForgetsFlag(event) ==
  IF gen = "v3"
  THEN CASE event = "timeout" -> "ERR_API_V3_TIMEOUT"
         [] event = "error" -> "ERR_API_V3_CONNECTION"
         [] OTHER -> "ERR_API_V3_FRAME_INCOMPLETE"
  ELSE IF event = "timeout" THEN "ERR_FIRMWARE_UPDATE_TIMEOUT"
       ELSE "ERR_FIRMWARE_UPDATE_CONNECTION"

\* Mutant: the code of the other sockets of the v2 client.
MutFailureCodeOfRead(event) ==
  IF transmitted THEN "ERR_FIRMWARE_OUTCOME_UNKNOWN" ELSE "ERR_API_V2_TIMEOUT"

FailureCode(event) ==
  CASE transmitted -> "ERR_FIRMWARE_OUTCOME_UNKNOWN"
    [] ~transmitted /\ gen = "v3" ->
         (CASE event = "timeout" -> "ERR_API_V3_TIMEOUT"
            [] event = "error" -> "ERR_API_V3_CONNECTION"
            [] OTHER -> "ERR_API_V3_FRAME_INCOMPLETE")
    [] OTHER -> IF event = "timeout" THEN "ERR_FIRMWARE_UPDATE_TIMEOUT"
                ELSE "ERR_FIRMWARE_UPDATE_CONNECTION"

\* Mutant: no timeout is armed once the image is on its way.
MutSocketEventUntimed(event) ==
  /\ pc = "upload"
  /\ event = "end" => peer = "closed" /\ inbox = <<>>
  /\ event # "end" => ~transmitted
  /\ Finish(FailureCode(event))
  /\ UNCHANGED <<gen, image, credential, connection>>

\* The socket times out, fails, or ends after everything it carried was read.
\* The client's end is destroyed; the miner keeps what reached it.
SocketEvent(event) ==
  /\ pc = "upload"
  /\ event = "end" => peer = "closed" /\ inbox = <<>>
  /\ Finish(FailureCode(event))
  /\ UNCHANGED <<gen, image, credential, connection>>

Client ==
  \/ Authenticated \/ VersionKnown \/ PreparationFails \/ Data
  \/ \E event \in {"timeout", "error", "end"} : SocketEvent(event)

----------------------------------------------------------------------------
(* The miner.                                                              *)

\* The miner's message reaches only a connection that is still open.
Says(m) == inbox' = IF pc = "upload" THEN Append(inbox, m) ELSE inbox

FirstAnswers == {"ready", "denied", "fail"} \union IF gen \in EarlyOk THEN {"ok"} ELSE {}

MinerAnswers ==
  /\ miner = "asked" /\ peer = "open"
  /\ miner' = "answered"
  /\ \E m \in FirstAnswers : Says(m)
  /\ UNCHANGED <<gen, image, credential, pc, transmitted, buffer, peer, noise, result>>

\* The whole image arrived: v2 announces the size in the file's header, which
\* the bytes of an image that was cut off never fill.
Arrives == transmitted /\ ~(gen = "v2" /\ image \in {"short", "empty"})

MinerFlashes ==
  /\ miner = "answered" /\ peer = "open" /\ Arrives
  /\ miner' = "flashed"
  /\ UNCHANGED inbox \/ Says("ok")
  /\ UNCHANGED <<gen, image, credential, pc, transmitted, buffer, peer, noise, result>>

MinerRefusesImage ==
  /\ miner = "answered" /\ peer = "open" /\ Arrives
  /\ miner' = "refused"
  /\ UNCHANGED inbox \/ \E m \in {"fail", "denied"} : Says(m)
  /\ UNCHANGED <<gen, image, credential, pc, transmitted, buffer, peer, noise, result>>

MinerGarbles ==
  /\ peer = "open" /\ noise < MaxNoise
  /\ noise' = noise + 1
  /\ \E m \in {"garbled"} \union IF gen = "v3" THEN {"badLength"} ELSE {} : Says(m)
  /\ UNCHANGED <<gen, image, credential, pc, transmitted, buffer, peer, miner, result>>

MinerCloses ==
  /\ peer = "open"
  /\ peer' = "closed"
  /\ UNCHANGED <<gen, image, credential, pc, transmitted, buffer, inbox, miner, noise, result>>

Miner == MinerAnswers \/ MinerFlashes \/ MinerRefusesImage \/ MinerGarbles \/ MinerCloses

Finished ==
  /\ pc = "done" /\ peer # "open"
  /\ UNCHANGED vars

Next == Begin \/ Client \/ Miner \/ Finished

\* Every wait of the client is on a socket with a timeout.
Fairness == WF_vars(Client)

Spec == Init /\ [][Next]_vars /\ Fairness

----------------------------------------------------------------------------
(* Properties.                                                             *)

TypeOK ==
  /\ gen \in Generations
  /\ image \in Images
  /\ credential \in BOOLEAN
  /\ pc \in {"start", "auth", "version", "upload", "done"}
  /\ transmitted \in BOOLEAN
  /\ buffer \in Seq(Messages)
  /\ inbox \in Seq(Messages)
  /\ peer \in {"off", "open", "closed"}
  /\ miner \in {"idle", "asked", "answered", "flashed", "refused"}
  /\ noise \in 0 .. MaxNoise
  /\ result \in Results

\* What the caller may conclude from the result.
Verdict ==
  CASE result = "none" -> "none"
    [] result = "success" -> "applied"
    [] result \in PreparationErrors \union BeforeTransmission \union MinerErrors -> "notApplied"
    [] OTHER -> "unknown"

Contract == INSTANCE WriteContract WITH
  Calls <- {"upload"},
  issued <- IF pc = "start" THEN {} ELSE {"upload"},
  applied <- [c \in {"upload"} |-> IF miner = "flashed" THEN 1 ELSE 0],
  verdict <- [c \in {"upload"} |-> Verdict]

\* mdk-contract.json, lines 170 to 174, and the order of the upload: a code
\* that names a failure before the transmission, or the miner's refusal, is
\* never followed by the flashing of the image, and success is reported only
\* for an image that was flashed, at whatever point the connection was lost.
KeepsContract == Contract!Spec

\* An update that was begun ends, whatever the miner and the network do.
Termination == pc # "start" ~> pc = "done"

\* mdk-contract.json, line 174: once the image was transmitted, an update the
\* miner neither confirmed nor refused ends as ERR_FIRMWARE_OUTCOME_UNKNOWN.
UnconfirmedIsUnknown ==
  pc = "done" /\ transmitted =>
    result \in MinerErrors \union {"success", "ERR_FIRMWARE_OUTCOME_UNKNOWN"}

=============================================================================
