---------------------------- MODULE StreamReader ----------------------------
(***************************************************************************)
(* How the answer of a miner is cut out of the bytes of a connection, which*)
(* arrive in chunks of any size:                                           *)
(*   request  v3: a frame with its length in front (FrameDecoder)          *)
(*   binary   v3: such a frame, then an archive of the announced size      *)
(*   log      v2: a JSON object, found by matching its braces, then an     *)
(*            archive of the announced size                                *)
(* The stream is chosen first and delivered chunk by chunk, so that the    *)
(* outcome can be compared with what the whole stream says.                *)
(*                                                                         *)
(* Bytes are 0 and 1 in the length of a frame and in archives, and "other" *)
(* bytes of JSON are left out, so that short streams reach every case; a   *)
(* length has HeaderSize digits.  Decoding a message is reduced to whether *)
(* it refuses the request and to the size that it announces.               *)
(***************************************************************************)
EXTENDS Integers, Sequences, SequencesExt

CONSTANTS
  MaxStream,      \* bound: length of a stream of bytes
  MaxText,        \* bound: length of a stream of JSON
  MaxFrame,       \* maxFrameSize
  MaxArchive      \* maxBinarySize, maxLogSize

ASSUME BoundsAreNat == {MaxStream, MaxText, MaxFrame, MaxArchive} \subseteq Nat

VARIABLES
  kind,           \* which reader
  stream,         \* all that the miner will send before it ends the connection
  taken,          \* how many bytes of it were delivered
  buffer,         \* the reader's buffer
  expected,       \* expectedLength, or Unset
  outcome         \* what the promise was settled with

vars == <<kind, stream, taken, buffer, expected, outcome>>

HeaderSize == 2
Unset == -1

Bytes == {"0", "1"}
Text == {"open", "close", "quote", "backslash"}   \* { } " \

Result(code, data) == [code |-> code, data |-> data]
Failed(code) == Result(code, <<>>)
Pending == Failed("none")

Kinds == {"request", "binary", "log"}

Streams == IF kind = "log" THEN SeqOf(Text, MaxText) ELSE SeqOf(Bytes, MaxStream)

Init ==
  /\ kind \in Kinds
  /\ stream \in Streams
  /\ taken = 0
  /\ buffer = <<>>
  /\ expected = Unset
  /\ outcome = Pending

----------------------------------------------------------------------------
(* Frames.                                                                 *)

\* readUInt32LE, of two binary digits
Digit(c) == IF c = "1" THEN 1 ELSE 0
LengthAt(b, i) == Digit(b[i + 1]) + 2 * Digit(b[i + 2])

FrameEnd(b, i) == i + HeaderSize + LengthAt(b, i)
HasHeader(b, i) == Len(b) - i >= HeaderSize
BadHeader(b, i) == HasHeader(b, i) /\ (LengthAt(b, i) = 0 \/ LengthAt(b, i) > MaxFrame)

\* Mutant: the last byte of a frame must be followed by another one.
MutHasFrameLate(b, i) == HasHeader(b, i) /\ Len(b) > FrameEnd(b, i)

HasFrame(b, i) == HasHeader(b, i) /\ Len(b) >= FrameEnd(b, i)

\* FrameDecoder.push: all the frames that are complete, where the rest of the
\* buffer begins, and whether an invalid length was met, which undoes the call.
Cuts(b) ==
  LET cut[i \in 0 .. Len(b)] ==
        IF HasFrame(b, i) /\ ~BadHeader(b, i)
        THEN [cut[FrameEnd(b, i)] EXCEPT
                !.frames = <<SubSeq(b, i + HeaderSize + 1, FrameEnd(b, i))>> \o @]
        ELSE [frames |-> <<>>, rest |-> i, bad |-> BadHeader(b, i)]
  IN  cut

push(b) == Cuts(b)[0]

(* JSON objects.                                                           *)

Outside == [started |-> FALSE, depth |-> 0, inString |-> FALSE, escaped |-> FALSE,
            at |-> 0, end |-> -1]

\* Mutant: an escaped quote ends the string.
MutInStringIgnoresEscape(scan, char) == [scan EXCEPT !.inString = char # "quote"]

InString(scan, char) ==
  [scan EXCEPT !.escaped = ~scan.escaped /\ char = "backslash",
               !.inString = scan.escaped \/ char # "quote"]

InObject(scan, char) ==
  [scan EXCEPT !.inString = (char = "quote"),
               !.depth = IF char = "open" THEN @ + 1 ELSE IF char = "close" THEN @ - 1 ELSE @,
               !.end = IF char = "close" /\ scan.depth = 1 THEN scan.at ELSE @]

\* One byte of findJSONObjectEnd's loop, which ends at the first end.
ScanChar(scan, char) ==
  LET s == [scan EXCEPT !.at = @ + 1]
  IN  IF s.end >= 0 THEN s
      ELSE IF ~s.started THEN [s EXCEPT !.started = (char = "open"), !.depth = 1]
      ELSE IF s.inString THEN InString(s, char)
      ELSE InObject(s, char)

\* The state of the loop after i bytes.
Scan(b) ==
  LET scan[i \in 0 .. Len(b)] ==
        IF i = 0 THEN Outside ELSE ScanChar(scan[i - 1], b[i])
  IN  scan

findJSONObjectEnd(b) == Scan(b)[Len(b)].end

(* Messages, reduced: one byte refuses, the length announces.              *)

\* A text with bytes before the object does not parse.
Decodes(m) == kind # "log" \/ Head(m) = "open"
Refuses(m) == IF kind = "log" THEN m[2] = "open" ELSE Head(m) = "1"
Announced(m) == Len(m) - 1

----------------------------------------------------------------------------
(* The readers.                                                            *)

Settle(r) == outcome' = r

\* request: the first frame of a chunk settles the promise.
ReadFrame(b) ==
  LET p == push(b)
  IN  /\ buffer' = SubSeq(b, p.rest + 1, Len(b))
      /\ Settle(CASE p.bad -> Failed("ERR_API_V3_FRAME_LENGTH_INVALID")
                  [] ~p.bad /\ p.frames # <<>> -> Result("ok", Head(p.frames))
                  [] OTHER -> Pending)
      /\ UNCHANGED expected

\* Where the message in front of an archive begins, and where it ends, or 0.
MessageBegin == IF kind = "log" THEN 1 ELSE HeaderSize + 1

MessageEnd(b) ==
  CASE kind = "log" -> IF findJSONObjectEnd(b) < 0 THEN 0 ELSE findJSONObjectEnd(b)
    [] kind # "log" /\ HasFrame(b, 0) -> FrameEnd(b, 0)
    [] OTHER -> 0

\* Mutant: any size will do.
MutSizeInvalidNever(size) == FALSE

SizeInvalid(size) == size > MaxArchive

MessageError(m) ==
  CASE ~Decodes(m) -> "ERR_RESPONSE_INVALID"
    [] Decodes(m) /\ Refuses(m) -> "ERR_CODE"
    [] Decodes(m) /\ ~Refuses(m) /\ SizeInvalid(Announced(m)) -> "ERR_LOG_DOWNLOAD_SIZE_INVALID"
    [] OTHER -> "none"

\* The archive is complete once size bytes of it are there.
Deliver(b, size) ==
  /\ buffer' = b
  /\ expected' = size
  /\ Settle(IF Len(b) >= size THEN Result("ok", SubSeq(b, 1, size)) ELSE Pending)

GiveUp(b, code) ==
  /\ buffer' = b
  /\ Settle(Failed(code))
  /\ UNCHANGED expected

\* requestBinary and _requestLogDownload: consume
Consume(b) ==
  LET m == SubSeq(b, MessageBegin, MessageEnd(b))
  IN  CASE expected # Unset -> Deliver(b, expected)
        [] expected = Unset /\ kind = "binary" /\ BadHeader(b, 0) ->
             GiveUp(b, "ERR_API_V3_FRAME_LENGTH_INVALID")
        [] OTHER ->
             CASE MessageEnd(b) = 0 -> buffer' = b /\ UNCHANGED <<expected, outcome>>
               [] MessageEnd(b) > 0 /\ MessageError(m) # "none" -> GiveUp(b, MessageError(m))
               [] OTHER -> Deliver(SubSeq(b, MessageEnd(b) + 1, Len(b)), Announced(m))

Data(n) ==
  /\ outcome = Pending
  /\ taken' = taken + n
  /\ LET b == buffer \o SubSeq(stream, taken + 1, taken + n)
     IN  IF kind = "request" THEN ReadFrame(b) ELSE Consume(b)
  /\ UNCHANGED <<kind, stream>>

IncompleteCode(e) ==
  IF kind = "log" \/ e # Unset THEN "ERR_LOG_DOWNLOAD_INCOMPLETE"
  ELSE "ERR_API_V3_FRAME_INCOMPLETE"

\* The connection ends after its last byte was delivered.
End ==
  /\ outcome = Pending
  /\ taken = Len(stream)
  /\ Settle(Failed(IncompleteCode(expected)))
  /\ UNCHANGED <<kind, stream, taken, buffer, expected>>

\* The connection is lost, or silent for too long.
Lost ==
  /\ outcome = Pending
  /\ \E code \in {"TIMEOUT", "CONNECTION"} : Settle(Failed(code))
  /\ UNCHANGED <<kind, stream, taken, buffer, expected>>

Settled ==
  /\ outcome # Pending
  /\ UNCHANGED vars

Next == (\E n \in 1 .. Len(stream) - taken : Data(n)) \/ End \/ Lost \/ Settled

Spec == Init /\ [][Next]_vars

----------------------------------------------------------------------------
(* What a stream says, taken as a whole.                                   *)

Joined(firsts, seconds) == {first \o second : first \in firsts, second \in seconds}
Enclosed(left, inner, right) == Joined(Joined({<<left>>}, inner), {<<right>>})

\* The inside of a string of n bytes: quotes and backslashes are escaped.
StringBodies[n \in 0 .. MaxText] ==
  IF n = 0 THEN {<<>>}
  ELSE Joined({<<"open">>, <<"close">>}, StringBodies[n - 1])
       \union IF n = 1 THEN {}
              ELSE Joined({<<"backslash", c>> : c \in Text}, StringBodies[n - 2])

\* Sequences of strings and objects of n bytes.
Items[n \in 0 .. MaxText] ==
  IF n = 0 THEN {<<>>}
  ELSE UNION {Joined(Enclosed("quote", StringBodies[k - 2], "quote")
                     \union Enclosed("open", Items[k - 2], "close"), Items[n - k]) : k \in 2 .. n}

Objects(n) == IF n < 2 THEN {} ELSE Enclosed("open", Items[n - 2], "close")

\* The ends of the message at the front of s: none, or one.
MessageEnds(s) ==
  IF kind = "log" THEN {n \in 1 .. Len(s) : SubSeq(s, 1, n) \in Objects(n)}
  ELSE {n \in HeaderSize + 1 .. Len(s) : LengthAt(s, 0) = n - HeaderSize}

\* Streams with a message, or the beginning of a frame, at their front.
WellFormed(s) ==
  IF kind = "log" THEN MessageEnds(s) # {}
  ELSE ~BadHeader(s, 0)

\* The outcome that s, complete or not, calls for.
Says(s) ==
  IF MessageEnds(s) = {} THEN Pending
  ELSE LET end == CHOOSE n \in MessageEnds(s) : TRUE
           m == SubSeq(s, MessageBegin, end)
           size == Announced(m)
       IN  CASE kind = "request" -> Result("ok", m)
             [] kind # "request" /\ Refuses(m) -> Failed("ERR_CODE")
             [] kind # "request" /\ ~Refuses(m) /\ size > MaxArchive ->
                  Failed("ERR_LOG_DOWNLOAD_SIZE_INVALID")
             [] OTHER -> IF Len(s) < end + size THEN Pending
                         ELSE Result("ok", SubSeq(s, end + 1, end + size))

\* The frame after the first is looked at, too, if the same chunk brings it.
NextFrameIsBad ==
  /\ kind = "request"
  /\ outcome.code = "ERR_API_V3_FRAME_LENGTH_INVALID"
  /\ \E n \in 1 .. taken : push(SubSeq(stream, 1, n)).bad

----------------------------------------------------------------------------
(* Properties.                                                             *)

Codes == {"none", "ok", "ERR_API_V3_FRAME_LENGTH_INVALID", "ERR_API_V3_FRAME_INCOMPLETE",
          "ERR_LOG_DOWNLOAD_INCOMPLETE", "ERR_LOG_DOWNLOAD_SIZE_INVALID",
          "ERR_CODE", "ERR_RESPONSE_INVALID", "TIMEOUT", "CONNECTION"}

TypeOK ==
  /\ kind \in Kinds
  /\ taken \in 0 .. Len(stream)
  /\ buffer \in Seq(Bytes \union Text)
  /\ expected \in {Unset} \union 0 .. MaxArchive
  /\ outcome \in [code : Codes, data : Seq(Bytes \union Text)]

Delivered == SubSeq(stream, 1, taken)

\* The way the bytes were cut into chunks does not show: a stream with a
\* message at its front gives the outcome that the message calls for, with the
\* archive byte for byte, unless the connection was lost before.
ChunksDoNotShow ==
  outcome.code \notin {"none", "TIMEOUT", "CONNECTION", "ERR_API_V3_FRAME_INCOMPLETE",
                       "ERR_LOG_DOWNLOAD_INCOMPLETE"}
    /\ WellFormed(stream)
    => outcome = Says(Delivered) \/ NextFrameIsBad

\* No answer that is complete is left waiting in the buffer until the timeout,
\* and none is reported as incomplete.
AnswersPromptly ==
  outcome.code \in {"none", "ERR_API_V3_FRAME_INCOMPLETE", "ERR_LOG_DOWNLOAD_INCOMPLETE"}
    /\ WellFormed(stream)
    => Says(Delivered) = Pending

=============================================================================
