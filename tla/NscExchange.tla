----------------------------- MODULE NscExchange -----------------------------
(***************************************************************************)
(* One exchange of the agent with the NSC at the level of bytes: a request *)
(* of coapSRCPro is built, given its tracking token and read by the NSC;   *)
(* the NSC answers with the options it likes; the answer, perhaps damaged  *)
(* on the line, loses its tracking token, is parsed, and its payload goes  *)
(* to JausBridge, which passes joystick reports on to the service loop.    *)
(***************************************************************************)
EXTENDS SrcProRequests, JoystickReport

CONSTANTS
    Requests,      \* calls of coapSRCPro
    ReplyOptions,  \* lists of options the NSC puts into answers
    Readings,      \* what the handheld reports
    Contents,      \* other payloads of the NSC
    Bursts         \* patterns of up to 16 bits by which the line flips bits

ASSUME RequestsAssumption ==
    \A r \in Requests :
        /\ r.port \in Short /\ r.method \in {GET, POST}
        /\ r.observe \in BOOLEAN /\ r.value \in Short /\ r.format \in Short
        /\ \A parts \in {r.segments, r.queries} :
              /\ parts \in Seq(Seq(Byte))
              /\ \A i \in DOMAIN parts : Len(parts[i]) \in Short
        /\ r.payload \in Seq(Byte)

\* the NSC orders its options, as the format demands
ASSUME AnswersAssumption ==
    /\ \A options \in ReplyOptions :
          /\ options \in Seq([number : Short, value : Seq(Byte)])
          /\ \A i \in 2 .. Len(options) :
                options[i - 1].number <= options[i].number
    /\ \A content \in Contents : content \in Seq(Byte)
    /\ Readings \subseteq ReadingValues

\* a burst flips at least one bit and spans at most sixteen
ASSUME BurstsAssumption == Bursts \subseteq Word16 \ {0}

JS_MID == 12288

NoRequest == Get(0, NONE, <<>>)

Idle == [step |-> "idle", request |-> NoRequest, bytes |-> <<>>,
         options |-> <<>>, content |-> <<>>]

VARIABLES
    exchange,   \* the step of the exchange, and the bytes on the line
    readings,   \* the reading in the answer, if it is a report
    damaged,    \* the answer was damaged on the line
    lastJs,     \* the last report postInput saw
    parsed,     \* port and payload given to evaluateCoapJausMessage in this step
    posted      \* the reading put into the queue in this step

vars == <<exchange, readings, damaged, lastJs, parsed, posted>>

Init ==
    /\ exchange = Idle
    /\ readings = {}
    /\ damaged = FALSE
    /\ lastJs = ForcedLast
    /\ parsed = {}
    /\ posted = {}

Quiet == parsed' = {} /\ posted' = {} /\ UNCHANGED lastJs

\* the builder of the payload throws and nothing is sent
BuilderThrows(r) ==
    /\ exchange.step = "idle"
    /\ ~Built(r)
    /\ exchange' = [Idle EXCEPT !.step = "thrown", !.request = r]
    /\ UNCHANGED <<readings, damaged>>
    /\ Quiet

\* build, sendSRCRequest and the token part of udpToSerial
sendRequest(r) ==
    /\ exchange.step = "idle"
    /\ Built(r)
    /\ exchange' = [Idle EXCEPT
            !.step = "asked", !.request = r,
            !.bytes = InsertTracking(buildMessage(r, JS_MID), r.port)]
    /\ UNCHANGED <<readings, damaged>>
    /\ Quiet

\* the NSC answers, or notifies again; the token is that of the request
Answers(options, content, about) ==
    /\ exchange.step \in {"asked", "waiting"}
    /\ exchange' = [exchange EXCEPT
            !.step = "answered", !.options = options, !.content = content,
            !.bytes = WriteReply(JS_MID, Tracking(exchange.request.port),
                                 options, content)]
    /\ readings' = about
    /\ damaged' = FALSE
    /\ Quiet

\* a pattern put at a bit offset, low bits first: what byte i gets of it
PatternByte(pattern, offset, i) ==
    LET k == i - 1 - offset \div 8
    IN IF k \in 0 .. 2
       THEN ((pattern * 2^(offset % 8)) \div 256^k) % 256 ELSE 0

Flipped(bytes, pattern, offset) ==
    [i \in DOMAIN bytes |-> BitXor(bytes[i], PatternByte(pattern, offset, i))]

\* the payload of an answer is damaged by one burst
Damage(pattern, offset) ==
    /\ exchange.step = "answered"
    /\ ~damaged
    /\ readings # {}
    /\ damaged' = TRUE
    /\ LET head == Len(exchange.bytes) - ReportSize
       IN exchange' = [exchange EXCEPT !.bytes =
              SubSeq(@, 1, head)
              \o Flipped(SubSeq(@, head + 1, Len(@)), pattern, offset)]
    /\ UNCHANGED readings
    /\ Quiet

\* evaluateCoapJausMessage, of which only the reports have an effect, with
\* postInput
Evaluate(port, payload) ==
    LET report == SubSeq(payload, 1, ReportSize)
    IN /\ parsed' = {[port |-> port, payload |-> payload]}
       /\ IF /\ port = COMBINEDJOYSTICKKEYPAD
             /\ decode_combined_payload(payload)
             /\ report # lastJs
          THEN /\ lastJs' = report
               /\ posted' = IF PassedOn(Reading(report)) THEN {Reading(report)}
                            ELSE {}
          ELSE posted' = {} /\ UNCHANGED lastJs

\* serialDataReceived, with the token part of serialToUdp
serialDataReceived ==
    /\ exchange.step = "answered"
    /\ HasTracking(exchange.bytes)
    /\ exchange' = [exchange EXCEPT !.step = "evaluated", !.bytes = <<>>]
    /\ Evaluate(TrackedPort(exchange.bytes),
                parseObserveReply(RemoveTracking(exchange.bytes)).payload)
    /\ UNCHANGED <<readings, damaged>>

\* the agent waits for a notification, or asks for something else
Done(next) ==
    /\ exchange' = next
    /\ readings' = {}
    /\ damaged' = FALSE
    /\ Quiet

Settles ==
    /\ exchange.step = "evaluated"
    /\ Done([Idle EXCEPT !.step = "waiting", !.request = exchange.request])

Ends ==
    /\ exchange.step \in {"waiting", "thrown"}
    /\ Done(Idle)

Next ==
    \/ \E r \in Requests : sendRequest(r)
    \/ \E r \in Requests : BuilderThrows(r)
    \/ /\ exchange.request.port = COMBINEDJOYSTICKKEYPAD
       /\ exchange.request.value = 0
       /\ \E options \in ReplyOptions, reading \in Readings :
            Answers(options, WriteReport(reading), {reading})
    \/ \E options \in ReplyOptions, content \in Contents :
            Answers(options, content, {})
    \/ \E pattern \in Bursts, offset \in 0 .. 8 * ReportSize - 16 :
            Damage(pattern, offset)
    \/ serialDataReceived
    \/ Settles
    \/ Ends

Spec == Init /\ [][Next]_vars

-----------------------------------------------------------------------------
(* Properties *)

Heard == ReadMessage(exchange.bytes)

\* The NSC reads what the agent asked: resource, options in their order and
\* payload come through the encoder and through the insertion of the tracking
\* bytes, with segments and queries of any length class.
RequestUnderstood ==
    exchange.step = "asked" =>
        /\ looksLikeCoap(exchange.bytes)
        /\ Heard.code = exchange.request.method
        /\ Heard.mid = JS_MID
        /\ Heard.token = Tracking(exchange.request.port)
        /\ Heard.options = Options(exchange.request)
        /\ Heard.payload = Payload(exchange.request)

FitsOneByte(options) == \A i \in DOMAIN options : Len(options[i].value) < 256

\* extractUriPath reads back the path of any request whose options are below
\* 256 bytes, the limit of its uint8_t length.
PathReadBack ==
    exchange.step = "asked" /\ FitsOneByte(Options(exchange.request)) =>
        extractUriPath(exchange.bytes) = exchange.request.segments

\* neither the number nor the length of an option needs an extended byte
Plain(options) ==
    \A i \in DOMAIN options :
        /\ Len(options[i].value) < 13
        /\ options[i].number - (IF i = 1 THEN 0 ELSE options[i - 1].number) < 13

\* The payload JausBridge gets is the one the NSC sent and the port the one of
\* the resource that was asked for, if no option of the answer is extended
\* (the simplification of parseObserveReply); a report that follows extended
\* options is missed or read wrong.
ReplyParsed ==
    \A message \in parsed :
        ~damaged /\ Plain(exchange.options) =>
            message = [port    |-> exchange.request.port,
                       payload |-> exchange.content]

\* A report that one burst of up to 16 bits damaged is never passed on, in
\* either half and across both (decode_combined_payload).
DamagedNeverPosted == damaged => posted = {}

\* What is passed on is what the handheld read: sign and flags of every axis
\* survive the packing, and what looks like a report without being one (all
\* zeros pass both CRCs) never gets through.
PostedIsRead == posted # {} => posted = readings

\* what a reader of "[ line0(18) | line1(18) | half(1) ]" makes of a payload
\* with a two-byte head
LinesShown(payload) == <<SubSeq(payload, 3, 20), SubSeq(payload, 21, 38)>>

\* Two full lines arrive as two lines of 18 characters with their half,
\* however long the texts are (cborEncodeTwoLines18); a shorter line is not
\* padded and is left out here.
DisplayReadBack ==
    LET lines == exchange.request.lines
    IN exchange.step = "asked" /\ lines # <<>>
        /\ (\A i \in DOMAIN lines : Len(lines[i]) >= 18) =>
            /\ Len(Heard.payload) = 39
            /\ LinesShown(Heard.payload) = [i \in 1 .. 2 |-> Cut(lines[i], 18)]

\* The rooms of the CBOR encoders are enough for the largest arguments; only
\* the metadata of a firmware file can be larger than its room
\* (cborEncodeFileMetadata), when its numbers take more than 16 bits.
OnlyMetadataThrows ==
    exchange.step = "thrown" =>
        exchange.request.port = FIRMWAREFILEMETADATA

=============================================================================
