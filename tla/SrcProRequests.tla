--------------------------- MODULE SrcProRequests ---------------------------
(***************************************************************************)
(* The requests of coapSRCPro, as they are given to Coap::buildMessage,    *)
(* with the CBOR payloads and the room each encoder gives them. Names and  *)
(* texts only matter by their length. A request carries the JausPort its   *)
(* answers are for, and the lines its caller wanted shown.                 *)
(***************************************************************************)
EXTENDS CoapMessage, FiniteSetsExt

Name(n) == [k \in 1 .. n |-> 97 + (k % 25)]

DIAGNOSTICS == 902
SERIALNUMBER == 917
DISPLAYMODE == 923
VIBRATIONBOTH == 926
FIRMWAREFILEMETADATA == 928
COMBINEDJOYSTICKKEYPAD == 931
DISPLAYTEXT == 933
FSODATA == 936

TEXT_PLAIN == 0
OCTET_STREAM == 42
CBOR == 60

-----------------------------------------------------------------------------
(* CBOR items of tinycbor, and what the builders make of them *)

CborHead(major, n) ==
    IF n < 24 THEN <<32 * major + n>>
    ELSE IF n < 256 THEN <<32 * major + 24, n>>
    ELSE IF n < 65536 THEN <<32 * major + 25>> \o TwoBytes(n)
    ELSE <<32 * major + 26>> \o TwoBytes(n \div 65536) \o TwoBytes(n % 65536)

Unsigned(n)  == CborHead(0, n)
Binary(data) == CborHead(2, Len(data)) \o data
Text(text)   == CborHead(3, Len(text)) \o text
Array(n)     == CborHead(4, n)
Map(n)       == CborHead(5, n)

Encoded(bytes, room) == [bytes |-> bytes, room |-> room]

Cut(text, n) == SubSeq(text, 1, Min({n, Len(text)}))

encodeUserSettings(key, value) ==
    Encoded(Array(2) \o Unsigned(key) \o Unsigned(value), 32)

cborEncodeFileMetadata(filename, length, crc32) ==
    Encoded(Map(3) \o Text(Name(8)) \o Text(filename)
                \o Text(Name(6)) \o Unsigned(length)
                \o Text(Name(5)) \o Unsigned(crc32),
            Len(filename) + 32)

\* mutant: the room of a text alone
cborEncodeDisplaySegment_SmallRoom(line, segment, text) ==
    LET t == Cut(text, 6)
    IN Encoded(Map(1) \o Text(Name(12)) \o Array(3) \o Unsigned(line)
                   \o Unsigned(segment) \o Text(t),
               Len(t) + 16)

cborEncodeDisplaySegment(line, segment, text) ==
    LET t == Cut(text, 6)
    IN Encoded(Map(1) \o Text(Name(12)) \o Array(3) \o Unsigned(line)
                   \o Unsigned(segment) \o Text(t),
               Len(t) + 32)

Half(upper) == IF upper THEN 1 ELSE 0

\* mutant: a long line is not cut
cborEncodeTwoLines18_NoCut(line0, line1, upper) ==
    LET raw == line0 \o line1 \o <<Half(upper)>>
    IN Encoded(Binary(raw), Len(raw) + 16)

\* lines are cut to 18 characters, and not padded
cborEncodeTwoLines18(line0, line1, upper) ==
    LET raw == Cut(line0, 18) \o Cut(line1, 18) \o <<Half(upper)>>
    IN Encoded(Binary(raw), Len(raw) + 16)

-----------------------------------------------------------------------------
(* Requests *)

Get(port, format, segments) ==
    [port |-> port, method |-> GET, format |-> format, segments |-> segments,
     queries |-> <<>>, payload |-> <<>>, observe |-> FALSE, value |-> 0,
     room |-> 0, lines |-> <<>>]

\* the value is 0 to subscribe and 1 to unsubscribe
Observing(get, value) == [get EXCEPT !.observe = TRUE, !.value = value]

Post(port, format, segments, payload) ==
    [Get(port, format, segments) EXCEPT
        !.method = POST, !.payload = payload, !.room = Len(payload)]

PostCbor(port, segments, encoded) ==
    [Post(port, CBOR, segments, encoded.bytes) EXCEPT !.room = encoded.room]

getSMCUSafetyDiagnostics ==
    Get(DIAGNOSTICS, CBOR, <<Name(2), Name(1), Name(1), Name(18)>>)

getSerialNumber == Get(SERIALNUMBER, TEXT_PLAIN, <<Name(3), Name(5), Name(12)>>)

\* its payload is lost: Payload(r) of a GET is empty
getDisplayMode ==
    [Get(DISPLAYMODE, CBOR, <<Name(3), Name(5), Name(12)>>)
        EXCEPT !.payload = <<99>>, !.room = 1]

getCombinedJoystickKeypad ==
    Get(COMBINEDJOYSTICKKEYPAD, OCTET_STREAM, <<Name(2), Name(8), Name(8)>>)

postUserSettings(port, key) ==
    PostCbor(port, <<Name(3), Name(5), Name(12)>>, encodeUserSettings(key, 1))

postDisplayMode  == postUserSettings(DISPLAYMODE, 99)
postVibrateBoth  == postUserSettings(VIBRATIONBOTH, 12)

postFirmwareFileMetadata(filename, length, crc32) ==
    PostCbor(FIRMWAREFILEMETADATA, <<Name(2), Name(8)>>,
             cborEncodeFileMetadata(filename, length, crc32))

postDisplayTextRawLines(line0, line1, upper) ==
    [PostCbor(DISPLAYTEXT, <<Name(2), Name(7), Name(4)>>,
              cborEncodeTwoLines18(line0, line1, upper))
        EXCEPT !.lines = <<line0, line1>>]

postDisplayTextSegment(line, segment, text) ==
    PostCbor(DISPLAYTEXT, <<Name(2), Name(7), Name(4)>>,
             cborEncodeDisplaySegment(line, segment, text))

postFsoData(der) ==
    Post(FSODATA, TEXT_PLAIN, <<Name(3), Name(3), Name(3), Name(4)>>, der)

\* the payload fits the encoder's room; else its size comes out wrong and
\* resizing the vector to it throws
Built(r) == Len(r.payload) <= r.room

=============================================================================
