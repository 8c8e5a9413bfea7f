------------------------- MODULE MCCoapPortTracker -------------------------
(* Instances of CoapPortTracker for TLC, with the CRC-8 of the code.         *)
EXTENDS CoapPortTracker, Bitwise

\* one step of boost::crc_optimal<8, 0x07>
ShiftCrc(crc) ==
    IF crc >= 128 THEN ((crc * 2) % 256) ^^ 7 ELSE crc * 2

RECURSIVE Shifts(_, _)
Shifts(crc, n) == IF n = 0 THEN crc ELSE Shifts(ShiftCrc(crc), n - 1)

CRC8Table == [byte \in Byte |-> Shifts(byte, 8)]

CRC8(lo, hi) == CRC8Table[CRC8Table[lo] ^^ hi]

M(type, code, mid, token) ==
    [type |-> type, code |-> code, mid |-> mid, token |-> token]

Short     == <<9>>
Long      == <<1, 2, 3, 4, 5>>
Lookalike == <<CRC8(1, 2), 1, 2, 4, 5, 6>>

MCTokens == {<<>>, Short, Long, Lookalike}

\* two ports with the low byte in common
MCClients == {904, 34952}

\* requests with and without room for tracking, a response to the NSC, an
\* acknowledgement that takes a message ID over, and a reserved code
MCMessages ==
    {M("CON", "request", 1, Short), M("NON", "request", 1, Short),
     M("NON", "request", 1, Long), M("CON", "request", 2, Lookalike),
     M("CON", "response", 2, Short), M("ACK", "empty", 1, <<>>),
     M("CON", "reserved", 1, <<>>)}

=============================================================================
