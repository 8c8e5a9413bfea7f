-------------------------------- MODULE Bits --------------------------------
(***************************************************************************)
(* Bytes and shorts, and the bitwise exclusive or of the CRCs and of a     *)
(* damaged line: a recursion over the bits of the first number, of which   *)
(* the last is the sum of the last bits without carry.                     *)
(***************************************************************************)
EXTENDS Integers

Byte == 0 .. 255

ShortSize == 65536  \* the values of a uint16_t
Short     == {n \in Nat : n < ShortSize}

BitXor(a, b) ==
    LET xor[m \in Nat] ==
            IF m = 0 THEN [n \in Nat |-> n]
            ELSE [n \in Nat |-> 2 * xor[m \div 2][n \div 2] + ((m + n) % 2)]
    IN xor[a][b]

=============================================================================
