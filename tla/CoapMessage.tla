----------------------------- MODULE CoapMessage -----------------------------
(***************************************************************************)
(* CoAP messages as bytes: what Coap::buildMessage writes, what            *)
(* parseObserveReply and extractUriPath read, and what the tracker's       *)
(* rewriting does to the bytes; with a reader and a writer of the whole    *)
(* format (RFC 7252), which the peer has, as the reference.                *)
(***************************************************************************)
EXTENDS Bits, Sequences, SequencesExt, FiniteSetsExt

CON == 0
ACK == 2
GET == 1
POST == 2
NONE == 65535  \* Coap::Format::NONE

Observe == 6
UriPath == 11
ContentFormat == 12
UriQuery == 15

PayloadMarker == 255

-----------------------------------------------------------------------------
(* Writing *)

\* mutant: 269 is taken to fit the one byte of an extension
Nibble_Off(n) == IF n < 13 THEN n ELSE IF n <= 269 THEN 13 ELSE 14

Nibble(n) == IF n < 13 THEN n ELSE IF n < 269 THEN 13 ELSE 14

Extended(n) ==
    IF n < 13 THEN <<>>
    ELSE IF n < 269 THEN <<n - 13>>
    ELSE <<(n - 269) \div 256, (n - 269) % 256>>

TwoBytes(n) == <<n \div 256, n % 256>>

\* the value of encodeUintOption; its callers pass 16 bits
UintValue(n) ==
    IF n > 255 THEN TwoBytes(n) ELSE IF n > 0 THEN <<n>> ELSE <<>>

Option(number, value) == [number |-> number, value |-> value]

encodeOption(delta, value) ==
    <<16 * Nibble(delta) + Nibble(Len(value))>>
        \o Extended(delta) \o Extended(Len(value)) \o value

\* mutant: lastNumber is not advanced
encodeOptions_SameLast(options) ==
    FlattenSeq([i \in DOMAIN options |->
        encodeOption(options[i].number, options[i].value)])

encodeOptions(options) ==
    FlattenSeq([i \in DOMAIN options |->
        encodeOption(
            options[i].number - (IF i = 1 THEN 0 ELSE options[i - 1].number),
            options[i].value)])

Header(type, code, mid, token) ==
    <<64 + 16 * type + (Len(token) % 16), code>> \o TwoBytes(mid) \o token

\* the options buildMessage writes for a request, in the order of their numbers
Options(r) ==
    (IF r.observe THEN <<Option(Observe, UintValue(r.value))>> ELSE <<>>)
    \o [i \in DOMAIN r.segments |-> Option(UriPath, r.segments[i])]
    \o (IF r.format = NONE THEN <<>>
        ELSE <<Option(ContentFormat, UintValue(r.format))>>)
    \o [i \in DOMAIN r.queries |-> Option(UriQuery, r.queries[i])]

\* a GET has no payload, whatever was passed
Payload(r) == IF r.method = POST THEN r.payload ELSE <<>>

buildMessage(r, mid) ==
    Header(CON, r.method, mid, <<>>) \o encodeOptions(Options(r))
    \o (IF Payload(r) = <<>> THEN <<>> ELSE <<PayloadMarker>> \o Payload(r))

-----------------------------------------------------------------------------
(* Reading *)

TokenLength(bytes) == bytes[1] % 16
Token(bytes)       == SubSeq(bytes, 5, 4 + TokenLength(bytes))
getMid(bytes)      == 256 * bytes[3] + bytes[4]

looksLikeCoap(bytes) ==
    /\ Len(bytes) >= 4 + TokenLength(bytes)
    /\ bytes[1] \div 64 = 1
    /\ TokenLength(bytes) <= 8

AtEnd(bytes, at) == at > Len(bytes) \/ bytes[at] = PayloadMarker

\* The extension of a nibble, and the delta or length it and its extension at
\* byte j give, kept in a variable of the given size. 16 is the size of a
\* nibble: nothing is extended, and it stands for itself.
Width(size, nibble) ==
    IF size = 16 THEN 0
    ELSE IF nibble = 13 THEN 1 ELSE IF nibble = 14 THEN 2 ELSE 0

Field(bytes, size, nibble, j) ==
    CASE Width(size, nibble) = 0 -> nibble
      [] Width(size, nibble) = 1 -> (13 + bytes[j]) % size
      [] OTHER -> (269 + 256 * bytes[j] + bytes[j + 1]) % size

\* One turn of a reader's loop: the option from byte s.at on, after option
\* number s.number; path collects the segments of the Uri-Path.
ReadOption(bytes, size, s) ==
    LET high   == bytes[s.at] \div 16
        low    == bytes[s.at] % 16
        lowAt  == s.at + 1 + Width(size, high)
        start  == lowAt + Width(size, low)
        number == (s.number + Field(bytes, size, high, s.at + 1)) % ShortSize
        length == Field(bytes, size, low, lowAt)
        value  == SubSeq(bytes, start, Min({start + length - 1, Len(bytes)}))
    IN [at |-> start + length, number |-> number,
        options |-> Append(s.options, Option(number, value)),
        path |-> IF number = UriPath THEN Append(s.path, value) ELSE s.path]

\* the loop over the options from byte from on, after k turns
Turns(bytes, size, from) ==
    LET turn[k \in Nat] ==
            IF k = 0
            THEN [at |-> from, number |-> 0, options |-> <<>>, path |-> <<>>]
            ELSE LET s == turn[k - 1]
                 IN IF AtEnd(bytes, s.at) THEN s ELSE ReadOption(bytes, size, s)
    IN turn

\* ... and when it ends; every option has a byte
ReadOptions(bytes, size, from) ==
    LET turn == Turns(bytes, size, from)
    IN turn[CHOOSE k \in 0 .. Len(bytes) : AtEnd(bytes, turn[k].at)]

\* mutant: options are taken to have no value
parseObserveReply_NoSkip(bytes) ==
    LET marker[i \in Nat] ==
            IF AtEnd(bytes, i) THEN i ELSE marker[i + 1]
    IN [mid |-> getMid(bytes), token |-> Token(bytes),
        payload |-> SubSeq(bytes, marker[5 + TokenLength(bytes)] + 1, Len(bytes))]

\* options are skipped by the low nibble of their first byte, as if no number
\* or length were ever extended
parseObserveReply(bytes) ==
    LET marker == ReadOptions(bytes, 16, 5 + TokenLength(bytes)).at
    IN IF looksLikeCoap(bytes)
       THEN [mid |-> getMid(bytes), token |-> Token(bytes),
             payload |-> SubSeq(bytes, marker + 1, Len(bytes))]
       ELSE [mid |-> 0, token |-> <<>>, payload |-> <<>>]

\* CoapPortTracker::extractUriPath, whose delta and length are uint8_t; the
\* segments are kept apart instead of joined by a slash
extractUriPath(bytes) == ReadOptions(bytes, 256, 5 + TokenLength(bytes)).path

-----------------------------------------------------------------------------
(* The tracker's rewriting, on bytes *)

\* one bit of a CRC-8 with the polynomial 7
ShiftMarker(crc) ==
    IF crc >= 128 THEN BitXor((2 * crc) % 256, 7) ELSE 2 * crc

ShiftFour(crc) == ShiftMarker(ShiftMarker(ShiftMarker(ShiftMarker(crc))))
ShiftEight(crc) == ShiftFour(ShiftFour(crc))

markerByte(low, high) == ShiftEight(BitXor(ShiftEight(low), high))

Tracking(port) ==
    <<markerByte(port % 256, port \div 256), port % 256, port \div 256>>

\* mutant: the three bytes are written over what follows the header
InsertTracking_Overwrites(bytes, port) ==
    <<bytes[1] + 3>> \o SubSeq(bytes, 2, 4) \o Tracking(port)
        \o SubSeq(bytes, 8, Len(bytes))

InsertTracking(bytes, port) ==
    <<bytes[1] + 3>> \o SubSeq(bytes, 2, 4) \o Tracking(port)
        \o SubSeq(bytes, 5, Len(bytes))

HasTracking(bytes) ==
    TokenLength(bytes) >= 3 /\ bytes[5] = markerByte(bytes[6], bytes[7])

TrackedPort(bytes) == bytes[6] + 256 * bytes[7]

RemoveTracking(bytes) ==
    <<bytes[1] - 3>> \o SubSeq(bytes, 2, 4) \o SubSeq(bytes, 8, Len(bytes))

-----------------------------------------------------------------------------
(* The peer: a complete reader and writer *)

ReadMessage(bytes) ==
    LET read == ReadOptions(bytes, ShortSize, 5 + TokenLength(bytes))
    IN [code |-> bytes[2], mid |-> getMid(bytes), token |-> Token(bytes),
        options |-> read.options,
        payload |-> SubSeq(bytes, read.at + 1, Len(bytes))]

WriteReply(mid, token, options, payload) ==
    Header(ACK, 69, mid, token) \o encodeOptions(options)
    \o (IF payload = <<>> THEN <<>> ELSE <<PayloadMarker>> \o payload)

=============================================================================
