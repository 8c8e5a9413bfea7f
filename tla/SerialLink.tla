----------------------------- MODULE SerialLink -----------------------------
(***************************************************************************)
(* SerialHandler's way to the serial port: the circular write buffer, the  *)
(* chain of asynchronous writes that empties it, and a reader that decodes *)
(* what comes out of the line. Both ends of the real line run this framing;*)
(* here the agent's writer is joined to the agent's reader.                *)
(*                                                                         *)
(* The io thread sends what UDP clients ask for and runs the completion    *)
(* handlers; the service thread of JausBridge sends through the same       *)
(* object (displayTextOnJoystick, vibrateJoystick) and nothing is locked.  *)
(* A call is split where it touches shared state: one step per byte pushed,*)
(* one for the test of writeInProgress and one for the start of a write.   *)
(*                                                                         *)
(* Bytes carry, for the properties only, the frame they belong to and      *)
(* their place in it.                                                      *)
(***************************************************************************)
EXTENDS Slip, FiniteSets

CONSTANTS
    Sends(_),      \* the messages that a thread sends
    TxSize,        \* TX_BUFFER_SIZE, and the size of the command buffer
    MaxFrames,     \* bound: messages sent
    MaxFaults,     \* bound: writes and reads that fail, bytes lost or changed
    NoiseBytes     \* what a changed byte becomes

Threads  == {"io", "service"}
Payloads == Sends("io") \cup Sends("service")

ASSUME BoundsAssumption ==
    /\ TxSize \in Nat \ {0}
    /\ MaxFrames \in Nat /\ MaxFaults \in Nat
\* a CoAP message has at least four bytes, the decoder wants two; the encoded
\* message fits the command buffer, beyond which the code is undefined
ASSUME PayloadsAssumption ==
    \A m \in Payloads :
        /\ m \in Seq(0 .. 255)
        /\ Len(m) \in 2 .. BufSize
        /\ Len(createSlipEncodedMessage(m)) <= TxSize

ASSUME NoiseAssumption == NoiseBytes \subseteq 0 .. 255

VARIABLES
    state,            \* SerialHandler::state
    writeBuffer,      \* bytes to be written ...
    head,             \* ... and where in their storage they begin
    writeInProgress,
    writes,           \* outstanding async_write_some: the bytes of each
    pc, todo,         \* per thread: where it is, what it still has to push
    frames,           \* history: the messages sent, and which were cut short
    overlapped,       \* history: two threads were inside the object at once
    line,             \* bytes on the serial line
    rx,               \* slip_handle of the reader
    delivered,        \* what the last byte read made the reader deliver
    track,            \* history: frame and place of the last byte in sequence
    noise, errors     \* how much of the environment's budget is used

writer == <<state, writeBuffer, head, writeInProgress, writes, pc, todo,
            frames, overlapped, errors>>
reader == <<rx, delivered, track>>
vars   == <<writer, line, reader, noise>>

Labels == {"idle", "push", "test", "start", "completed", "clear"}

NoPlace == [frame |-> 0, at |-> 0]

Tagged(frame, bytes) ==
    [k \in 1 .. Len(bytes) |-> [byte |-> bytes[k], frame |-> frame, at |-> k]]

Init ==
    /\ state = "OPERATIONAL"
    /\ writeBuffer = <<>>
    /\ head = 0
    /\ writeInProgress = FALSE
    /\ writes = <<>>
    /\ pc = [t \in Threads |-> "idle"]
    /\ todo = [t \in Threads |-> <<>>]
    /\ frames = <<>>
    /\ overlapped = FALSE
    /\ line = <<>>
    /\ rx = reset_rx
    /\ delivered = {}
    /\ track = NoPlace
    /\ noise = 0
    /\ errors = 0

\* a thread goes on; the other may be inside as well
Goto(t, label) ==
    /\ pc' = [pc EXCEPT ![t] = label]
    /\ overlapped' = (overlapped \/ \A u \in Threads : pc'[u] # "idle")

Free == TxSize - Len(writeBuffer)

-----------------------------------------------------------------------------
(* Sending *)

\* the room is compared with the message before it is encoded; a message that
\* is refused here leaves no trace
asyncSendMessageToSerialPort(t, m) ==
    /\ m \in Sends(t)
    /\ pc[t] = "idle"
    /\ state = "OPERATIONAL"
    /\ Len(frames) < MaxFrames
    /\ Free >= Len(m)
    /\ frames' = Append(frames, [message |-> m, cut |-> FALSE])
    /\ todo' = [todo EXCEPT ![t] =
                    Tagged(Len(frames) + 1, createSlipEncodedMessage(m))]
    /\ Goto(t, "push")
    /\ UNCHANGED <<state, writeBuffer, head, writeInProgress, writes, errors,
                   line, reader, noise>>

\* mutant: a full buffer is overwritten
PushByte_WhenFull(t) ==
    /\ pc[t] = "push"
    /\ todo[t] # <<>>
    /\ writeBuffer' = Append(writeBuffer, Head(todo[t]))
    /\ todo' = [todo EXCEPT ![t] = Tail(@)]
    /\ Goto(t, "push")
    /\ UNCHANGED <<state, head, writeInProgress, writes, frames, errors, line,
                   reader, noise>>

\* asyncSendDataToSerialPort, the loop that pushes ...
PushByte(t) ==
    /\ pc[t] = "push"
    /\ todo[t] # <<>>
    /\ Free > 0
    /\ writeBuffer' = Append(writeBuffer, Head(todo[t]))
    /\ todo' = [todo EXCEPT ![t] = Tail(@)]
    /\ Goto(t, "push")
    /\ UNCHANGED <<state, head, writeInProgress, writes, frames, errors, line,
                   reader, noise>>

\* ... and its end; the number of bytes pushed is returned, and ignored
PushEnds(t) ==
    /\ pc[t] = "push"
    /\ todo[t] = <<>> \/ Free <= 0
    /\ frames' = IF todo[t] = <<>> THEN frames
                 ELSE [frames EXCEPT ![Head(todo[t]).frame].cut = TRUE]
    /\ todo' = [todo EXCEPT ![t] = <<>>]
    /\ Goto(t, "test")
    /\ UNCHANGED <<state, writeBuffer, head, writeInProgress, writes, errors,
                   line, reader, noise>>

TestInProgress(t) ==
    /\ pc[t] = "test"
    /\ Goto(t, IF writeInProgress THEN "idle" ELSE "start")
    /\ UNCHANGED <<state, writeBuffer, head, writeInProgress, writes, todo,
                   frames, errors, line, reader, noise>>

\* array_one: the bytes up to the wrap of the circular buffer
Region ==
    LET n == TxSize - head
    IN  IF Len(writeBuffer) <= n THEN writeBuffer ELSE SubSeq(writeBuffer, 1, n)

StartWrite(t) ==
    /\ pc[t] = "start"
    /\ writeInProgress' = TRUE
    /\ writes' = Append(writes, Region)
    /\ Goto(t, "idle")
    /\ UNCHANGED <<state, writeBuffer, head, todo, frames, errors, line,
                   reader, noise>>

-----------------------------------------------------------------------------
(* asyncWriteToSerialPortCb, on the io thread *)

\* the n bytes of a write that reached the line
Transferred(region) == IF region = <<>> THEN {0} ELSE 1 .. Len(region)

Completes(i) ==
    /\ state = "OPERATIONAL"
    /\ pc["io"] = "idle"
    /\ writes' = RemoveAt(writes, i)
    /\ UNCHANGED <<state, todo, frames, reader, noise>>

WriteCompletes(i) ==
    /\ Completes(i)
    /\ \E n \in Transferred(writes[i]) :
        /\ line' = SubSeq(writes[i], 1, n)
        /\ writeBuffer' = SubSeq(writeBuffer, n + 1, Len(writeBuffer))
        /\ head' = (head + n) % TxSize
    /\ Goto("io", "completed")
    /\ UNCHANGED <<writeInProgress, errors>>

\* mutant: what was handed to the port is given up with the write
WriteFails_Erases(i) ==
    /\ noise + errors < MaxFaults
    /\ Completes(i)
    /\ errors' = errors + 1
    /\ writeInProgress' = FALSE
    /\ writeBuffer' = SubSeq(writeBuffer, Len(writes[i]) + 1, Len(writeBuffer))
    /\ head' = (head + Len(writes[i])) % TxSize
    /\ UNCHANGED <<pc, overlapped, line>>

\* the bytes stay where they are until the next message is sent
WriteFails(i) ==
    /\ noise + errors < MaxFaults
    /\ Completes(i)
    /\ errors' = errors + 1
    /\ writeInProgress' = FALSE
    /\ UNCHANGED <<writeBuffer, head, pc, overlapped, line>>

\* mutant: what is left waits for the next message
TestEmpty_NoNextWrite ==
    /\ pc["io"] = "completed"
    /\ Goto("io", "clear")
    /\ UNCHANGED <<state, writeBuffer, head, writeInProgress, writes, todo,
                   frames, errors, line, reader, noise>>

\* what is left is written next
TestEmpty ==
    /\ pc["io"] = "completed"
    /\ \/ /\ writeBuffer = <<>>
          /\ Goto("io", "clear")
          /\ UNCHANGED writes
       \/ /\ writeBuffer # <<>>
          /\ writes' = Append(writes, Region)
          /\ Goto("io", "idle")
    /\ UNCHANGED <<state, writeBuffer, head, writeInProgress, todo, frames,
                   errors, line, reader, noise>>

ClearInProgress ==
    /\ pc["io"] = "clear"
    /\ writeInProgress' = FALSE
    /\ Goto("io", "idle")
    /\ UNCHANGED <<state, writeBuffer, head, writes, todo, frames, errors,
                   line, reader, noise>>

\* a failed read ends the io thread with an exception
operationalFailure ==
    /\ state = "OPERATIONAL"
    /\ pc["io"] = "idle"
    /\ noise + errors < MaxFaults
    /\ errors' = errors + 1
    /\ state' = "OPERATIONAL_ERROR"
    /\ UNCHANGED <<writeBuffer, head, writeInProgress, writes, pc, todo,
                   frames, overlapped, line, reader, noise>>

-----------------------------------------------------------------------------
(* The line and the reader *)

\* the byte continues the frame the reader was in, or begins one
InSequence(e) ==
    e.at = 1 \/ (e.at > 1 /\ track = [frame |-> e.frame, at |-> e.at - 1])

Reads(e) ==
    /\ rx' = slip_read_byte(rx, e.byte)
    /\ delivered' = Delivers(rx, e.byte)
    /\ track' = IF InSequence(e) THEN [frame |-> e.frame, at |-> e.at]
                ELSE NoPlace

\* listenToSerialPort: its buffer is emptied in the handler that filled it, so
\* the bytes of one read are decoded one by one
ReadByte ==
    /\ line # <<>>
    /\ Reads(Head(line))
    /\ line' = Tail(line)
    /\ UNCHANGED <<writer, noise>>

LoseByte ==
    /\ line # <<>>
    /\ noise + errors < MaxFaults
    /\ noise' = noise + 1
    /\ line' = Tail(line)
    /\ UNCHANGED <<writer, reader>>

ChangeByte(byte) ==
    /\ line # <<>>
    /\ noise + errors < MaxFaults
    /\ noise' = noise + 1
    /\ Reads([byte |-> byte, frame |-> 0, at |-> 0])
    /\ line' = Tail(line)
    /\ UNCHANGED writer

-----------------------------------------------------------------------------
Sending(t) == PushByte(t) \/ PushEnds(t) \/ TestInProgress(t) \/ StartWrite(t)

Completing ==
    \/ \E i \in DOMAIN writes : WriteCompletes(i)
    \/ TestEmpty
    \/ ClearInProgress

Reading == ReadByte \/ LoseByte \/ \E byte \in NoiseBytes : ChangeByte(byte)

Writing ==
    \/ \E t \in Threads, m \in Payloads : asyncSendMessageToSerialPort(t, m)
    \/ \E t \in Threads : Sending(t)
    \/ Completing
    \/ \E i \in DOMAIN writes : WriteFails(i)
    \/ operationalFailure

\* The writer never looks at the line, nor the reader at the writer, so their
\* steps commute: the line is read as soon as there is something on it.
Next ==
    \/ Reading
    \/ line = <<>> /\ Writing

\* both threads run, started writes complete and the line is read
Fairness ==
    /\ \A t \in Threads : WF_vars(Sending(t))
    /\ WF_vars(Completing)
    /\ WF_vars(ReadByte)

Spec == Init /\ [][Next]_vars /\ Fairness

-----------------------------------------------------------------------------
(* Properties *)

Tags == [byte : 0 .. 255, frame : 0 .. MaxFrames, at : Nat]

\* Every variable has its type; no buffer grows beyond its size.
TypeOK ==
    /\ state \in {"OPERATIONAL", "OPERATIONAL_ERROR"}
    /\ writeBuffer \in Seq(Tags) /\ Len(writeBuffer) <= TxSize
    /\ head \in 0 .. TxSize - 1
    /\ writeInProgress \in BOOLEAN
    /\ writes \in Seq(Seq(Tags))
    /\ pc \in [Threads -> Labels]
    /\ todo \in [Threads -> Seq(Tags)]
    /\ frames \in Seq([message : Payloads, cut : BOOLEAN])
    /\ Len(frames) <= MaxFrames
    /\ overlapped \in BOOLEAN
    /\ line \in Seq(Tags)
    /\ rx \in [escaped : BOOLEAN, data : Seq(0 .. 255)]
    /\ Len(rx.data) <= BufSize
    /\ track \in [frame : 0 .. MaxFrames, at : Nat]
    /\ noise \in 0 .. MaxFaults /\ errors \in 0 .. MaxFaults

\* the reader has just read all the bytes of a frame, one after the other
ReadWhole(f) ==
    track = [frame |-> f,
             at |-> Len(createSlipEncodedMessage(frames[f].message))]

\* A frame whose bytes arrive whole is delivered as it was sent, whatever
\* garbage, half frame or stray escape came before it (the leading END and
\* the resets of slip_read_byte).
WholeFramesDelivered ==
    \A f \in DOMAIN frames : ReadWhole(f) => delivered = {frames[f].message}

\* the reader is not in the middle of a frame
Settled == track = NoPlace \/ \E f \in DOMAIN frames : ReadWhole(f)

\* everything that was accepted has left the writer and the line
Flushed ==
    writeBuffer = <<>> /\ line = <<>> /\ \A t \in Threads : todo[t] = <<>>

\* The reader delivers anything else, or nothing for a frame, or the frames
\* in another order, only when there was a reason: noise, a frame cut short
\* for lack of room, or two threads inside the object at once. Partial and
\* failed writes are none.
Explained ==
    noise > 0 \/ overlapped \/ \E f \in DOMAIN frames : frames[f].cut

DeliveredInOrder ==
    ~Explained =>
        /\ \A f \in DOMAIN frames : delivered = {frames[f].message} \/ ~ReadWhole(f)
        /\ delivered # {} => \E f \in DOMAIN frames : ReadWhole(f)
        /\ line # <<>> => /\ InSequence(Head(line))
                           /\ Head(line).at = 1 =>
                                Settled /\ Head(line).frame = track.frame + 1
        /\ Flushed => Settled /\ track.frame = Len(frames)

\* The buffer is empty again and again, unless a write failed, the port is
\* gone, or two threads were inside the object at once: between the test of
\* emptiness and the reset of writeInProgress nothing may be pushed.
Flushes ==
    []<>(writeBuffer = <<>> \/ errors > 0 \/ overlapped)

-----------------------------------------------------------------------------
(* What the comments say and the code does not do *)

\* "begin a new async serial write if no write is already in progress": there
\* is never more than one.
OneWrite == Len(writes) <= 1

=============================================================================
