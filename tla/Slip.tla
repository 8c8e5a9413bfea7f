-------------------------------- MODULE Slip --------------------------------
(***************************************************************************)
(* The SLIP framing of the serial link: the encoder and one step of the    *)
(* byte-by-byte decoder of FortAgentSlip.                                  *)
(***************************************************************************)
EXTENDS Integers, Sequences, SequencesExt

CONSTANT BufSize  \* size of the decoder's buffer, slip_desc.buf_size

ASSUME BufSizeAssumption == BufSize \in Nat \ {0}

END         == 192  \* SLIP_SPECIAL_BYTE_END
ESC         == 219  \* SLIP_SPECIAL_BYTE_ESC
ESCAPED_END == 220  \* SLIP_ESCAPED_BYTE_END
ESCAPED_ESC == 221  \* SLIP_ESCAPED_BYTE_ESC

Escape(byte) ==
    IF byte = END THEN <<ESC, ESCAPED_END>>
    ELSE IF byte = ESC THEN <<ESC, ESCAPED_ESC>>
    ELSE <<byte>>

Escaped(data) == FlattenSeq([i \in DOMAIN data |-> Escape(data[i])])

\* mutant: frames are only terminated, as the first form of the protocol did
createSlipEncodedMessage_NoLeadingEnd(data) == Escaped(data) \o <<END>>

createSlipEncodedMessage(data) == <<END>> \o Escaped(data) \o <<END>>

-----------------------------------------------------------------------------
(* The decoder: what is in its buffer, and whether an ESC was just read      *)

reset_rx == [escaped |-> FALSE, data |-> <<>>]

\* a byte too many drops the frame so far, and itself
put_byte_to_buffer(rx, byte) ==
    IF Len(rx.data) >= BufSize THEN reset_rx
    ELSE [escaped |-> FALSE, data |-> Append(rx.data, byte)]

\* the messages handed to recv_message by this byte: none or one
Delivers(rx, byte) ==
    IF ~rx.escaped /\ byte = END /\ Len(rx.data) >= 2 THEN {rx.data} ELSE {}

\* an unknown escape drops the frame so far and the byte, even an END
slip_read_byte(rx, byte) ==
    CASE rx.escaped /\ byte = ESCAPED_END -> put_byte_to_buffer(rx, END)
      [] rx.escaped /\ byte = ESCAPED_ESC -> put_byte_to_buffer(rx, ESC)
      [] rx.escaped /\ byte \notin {ESCAPED_END, ESCAPED_ESC} -> reset_rx
      [] ~rx.escaped /\ byte = END -> reset_rx
      [] ~rx.escaped /\ byte = ESC -> [rx EXCEPT !.escaped = TRUE]
      [] ~rx.escaped /\ byte \notin {END, ESC} -> put_byte_to_buffer(rx, byte)

=============================================================================
