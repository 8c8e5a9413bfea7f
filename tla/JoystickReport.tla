--------------------------- MODULE JoystickReport ---------------------------
(***************************************************************************)
(* The combined joystick and keypad report: the CRC-16 that guards its two *)
(* halves, decode_combined_payload, and what of it JausBridge::postInput   *)
(* passes on. Bytes are those of frc_combined_data_t: buttons, their CRC,  *)
(* six axes, their CRC, each of two bytes, low byte first.                 *)
(***************************************************************************)
EXTENDS Bits, Sequences, SequencesExt

ReportSize == 18  \* sizeof(frc_combined_data_t)

Word16 == 0 .. 65535

Word(bytes, i) == bytes[i] + 256 * bytes[i + 1]
Bytes(word)    == <<word % 256, word \div 256>>

ShiftCrc(crc) ==
    IF crc % 2 = 1 THEN BitXor(crc \div 2, 40961) ELSE crc \div 2

ShiftFourBits(crc) == ShiftCrc(ShiftCrc(ShiftCrc(ShiftCrc(crc))))

\* the inner loop of compute_crc16, over the bits of a byte
ShiftByte(crc) == ShiftFourBits(ShiftFourBits(crc))

\* mutant: a plain sum of the bytes
compute_crc16_Sum(data) ==
    LET sum[i \in 0 .. Len(data)] == IF i = 0 THEN 0 ELSE sum[i - 1] + data[i]
    IN sum[Len(data)]

compute_crc16(data) ==
    LET crc[i \in 0 .. Len(data)] ==
            IF i = 0 THEN 0 ELSE ShiftByte(BitXor(crc[i - 1], data[i]))
    IN crc[Len(data)]

Keypad(report) == SubSeq(report, 1, 2)
Axes(report)   == SubSeq(report, 5, 16)

\* mutant: a short payload is read all the same
decode_combined_payload_KeypadOnly(payload) ==
    /\ Len(payload) >= ReportSize
    /\ compute_crc16(Keypad(payload)) = Word(payload, 3)

decode_combined_payload(payload) ==
    /\ Len(payload) >= ReportSize
    /\ compute_crc16(Axes(payload)) = Word(payload, 17)
    /\ compute_crc16(Keypad(payload)) = Word(payload, 3)

\* jsCal_t: twelve bits of data, signed, and the flag dataOK
Axis(word) ==
    [data   |-> IF word % 4096 >= 2048 THEN (word % 4096) - 4096 ELSE word % 4096,
     dataOK |-> (word \div 4096) % 2 = 1]

AxisValues    == [data : -2048 .. 2047, dataOK : BOOLEAN]
ReadingValues == [buttons : Word16, axes : [1 .. 6 -> AxisValues]]

Reading(report) ==
    [buttons |-> Word(report, 1),
     axes    |-> [k \in 1 .. 6 |-> Axis(Word(report, 3 + 2 * k))]]

PausePressed(reading) == (reading.buttons \div 2) % 2 = 1

\* mutant: dataOK is not looked at
PassedOn_AnyData(reading) == ~PausePressed(reading)

\* the last branch of postInput
PassedOn(reading) == reading.axes[1].dataOK /\ ~PausePressed(reading)

\* the value the constructor of the service loop gives lastJs
ForcedLast == <<255, 255>> \o [k \in 1 .. 16 |-> 0]

-----------------------------------------------------------------------------
(* The handheld *)

AxisWord(axis) ==
    ((axis.data + 4096) % 4096) + (IF axis.dataOK THEN 4096 ELSE 0)

Guarded(bytes) == bytes \o Bytes(compute_crc16(bytes))

WriteReport(reading) ==
    Guarded(Bytes(reading.buttons))
    \o Guarded(FlattenSeq([k \in 1 .. 6 |-> Bytes(AxisWord(reading.axes[k]))]))

=============================================================================
