# Verification of the FORT agent

The FORT agent (`src/src`, `src/include/fort_agent`, `src/apps`) joins an NSC,
the radio of a handheld joystick, to an IP network. CoAP messages of UDP
clients go over a serial line to the NSC and back; the agent also subscribes to
the joystick itself and uses its reports to take over and drive a vehicle that
speaks JAUS. The project here models the agent in TLA+, checks the models with
TLC and proves the main results with TLAPS.

Contents: [the system](#the-system), [the modules](#the-modules),
[the runs](#the-runs), [fairness](#fairness), [the proofs](#the-proofs),
[disagreements](#where-code-and-comments-disagree),
[what is left out](#what-is-left-out), [the plan](#the-plan).

## The system

Three kinds of thread share one process:

- **io**: the thread of `main` in `ioService.run()`. It runs all handlers of the
  serial port, the UDP socket and the timers.
- **service**: started by `JausBridge::startServiceLoop`. It pops one message at
  a time and runs the handler of the current vehicle state. These handlers show
  texts and vibrate, and so call `UartCoapBridge::sendSRCRequest`: the service
  thread runs the tracker and the serial handler next to the io thread, without
  a lock.
- **OpenJAUS**: the callbacks of the JAUS library.

`main` is the io thread: it makes the two singletons, starts the JAUS component
and the service thread, runs the io loop until an exception leaves it, and
returns into the static destructors.

```
 UDP clients          io thread                                serial line   NSC
 -----------> UartCoapBridge --> CoapPortTracker --> SerialHandler --SLIP-->
 <-----------       |  ^               ^                 |
                    |  |  sendSRCRequest                 |
     reserved ports |  +---- coapSRCPro <--- displayTextOnJoystick, vibrate
                    v                                    ^
               JausBridge --queue--> service thread: VehicleStateMachine
                    ^                                    |  JAUSClientImpl
                    +---- postJAUSResponse <-- OpenJAUS callbacks <--> vehicle
```

### Inventory

| Component | State it keeps | Operations | What is hard about it | What makes it correct |
|---|---|---|---|---|
| `CoapPortTracker` | `mids`: message ID to port and time; expiry timer | `udpToSerial`, `serialToUdp`, `trackMid`, `removeOldMids` | IDs reused by several ports, answers late or twice, timer late, long tokens that look like tracking bytes, called from two threads | an answer goes to the port that asked, with the token it sent; entries expire |
| `coapHelpers` | none | `buildMessage`, token and tracking bytes, `parseObserveReply` | option encoding at 13 and 269, simplified parser | what is built is what a CoAP peer reads |
| `slip` | decoder state and buffer | encode, `slip_read_byte` | noise, unknown escapes, oversize, resynchronisation | whole frames are delivered as sent |
| `SerialHandler` | `state`, `writeBuffer`, `writeInProgress` | send, completion of a write, read | partial and failed writes, two threads, little room | frames in order, whole, and the buffer empties |
| `UartCoapBridge` | socket, retry timer, thinned logs | bind, receive, send, serial data, own requests | socket failing and being bound again, exceptions, two kinds of port | one outstanding receive; each answer on its side; exits only with a reason |
| `JausBridge` | `running`, `inputQueue`, `queueMutex`, `queueCV`, `lastJs` | `start/stopServiceLoop`, `serviceLoop`, `postInput`, `postJAUSResponse`, `evaluateCoapJausMessage` | three threads, a condition variable, drops of duplicates and paused reports | no wake-up is lost; every message is taken; the last stick position arrives; stop returns |
| `main` and the singletons | `ioService`, the two singletons | construction, start, io loop, exit | callbacks before the service thread exists, destruction in an open order while threads still run | nothing is used before it is made; the queue outlives its reader |
| `VehicleStateMachine` and states | active state; per state its edge detector and requests | `handleInput`, `handleResponse`, `next` | answers that are bare tokens and arrive in a later state | only a vehicle that confirmed and was READY is driven |
| `JAUSClientImpl` | `requestPending`, `controlGranted`, `currentStatus`, server address | requests and callbacks | flags written by two threads without a lock | the pending flag is true exactly while something is outstanding |
| `FORTJoystickHelpers` | none | `decode_combined_payload`, battery decoding, display, vibrate | CRCs, packed layout | a damaged report moves nothing |
| `coapSRCPro` | none | about fifty request builders, six CBOR encoders | buffers with fixed room | payloads fit and read back |
| `SpammyLogMsg` | count and threshold | `log`, `clear` | failure for ever | logarithmic output |
| console buffer, configuration, tracing | queue of lines; options | | | not modelled, see below |

`PROJECT.json` lists every component with its status, and the hazards of the
code at their lines with the properties that would catch them.

## The modules

| Module | Models | Relation |
|---|---|---|
| `Handover` | what the agent promises about a vehicle, without threads or messages | abstract specification |
| `BridgeQueue` | what a queue with one reader and a stop promises, without mutex or condition variable | abstract specification |
| `VehicleControl` | `JausBridge` queue and threads, state machine, `JAUSClientImpl` flags; operator, network and vehicle | implements `Handover` and `BridgeQueue` |
| `VehiclePress` | a history of R-Down next to `VehicleControl` | extends it |
| `AgentThreads` | `main`, service and OpenJAUS threads around the mutex and the condition variable; construction and destruction of what they share | implements `BridgeQueue` |
| `CoapPortTracker` | the tracker and an NSC that answers as it likes | |
| `UartCoapBridge` | socket, dispatch, own requests, exits | composes `CoapPortTracker` |
| `Slip` | SLIP encoder and decoder | pure |
| `SerialLink` | `SerialHandler` and a reader behind a noisy line | uses `Slip` |
| `Bits` | bytes, shorts and the exclusive or | pure |
| `CoapMessage` | CoAP encoding, tracking bytes, both parsers | pure, uses `Bits` |
| `SrcProRequests` | the requests and CBOR payloads of `coapSRCPro` | uses `CoapMessage` |
| `JoystickReport` | layout and CRCs of a report, `decode_combined_payload` | pure, uses `Bits` |
| `NscExchange` | one exchange with the NSC, byte by byte | composes the three above |
| `SequenceInduction` | lemmas: induction over data, what `FlattenSeq` computes | for the proofs about bytes |
| `MC*` | the instances for TLC | |
| `*_proofs` | theorems | |

Operators written as mutants (`Name_Change`, with a comment `mutant:`) are
plausible mistakes in the operation they are named after. Nothing uses them;
each shows that a property is sensitive to the code it is about.

### VehicleControl

The variables are the members of the same name; `pc` is where the service
thread is inside a handler, and `callback` where the OpenJAUS thread is. The
granularity follows the sharing. The queue is guarded by `queueMutex`, so a pop
and a push are each one step, and state that only the service thread touches is
changed in the step of the pop. A JAUS request is two steps, the message
(`sendRequestControl`, `queryStatus`) and the assignment of `requestPending`
(`setPending`); a callback is three, the result, the flag, and the post. The
network is a bag: JAUS messages are reordered, and lost up to `MaxLosses`.
`Faults` names what else may happen: `earlyReply` (a callback between the two
steps of a request), `vehicleDies`, `revokes` (a vehicle that had confirmed
rejects) and `stop`. `interference` counts status reports nobody asked for.

A press of R-Down is an edge that each state detects for itself; entering a
state clears the detector, so a held button with a moving stick counts as a
press again, as in the code. Of a report, the model keeps the button, the pause
key, `dataOK` of the left X axis, which is the only axis `postInput` looks at,
and the stick. `effort`, `confirmed` and `wasReady` are history.

`VehiclePress` adds `held`, the button of the report the service thread took
last, to every step, so that a press can be spoken of across states.

### AgentThreads and BridgeQueue

`VehicleControl` takes a pop for one step. `AgentThreads` is the same queue at
the grain of its synchronisation, without the handlers: taking `queueMutex` is
a step, what is done under it and the release is the next, a notification comes
after the release as in `postInput` and `postJAUSResponse`, and the wait of
`serviceLoop` is split into taking the mutex, the predicate, going to sleep
(which releases the mutex in the same step, as the C++ standard says of
`wait`), and waking by a notification or spuriously. `running` is read by the
loop without the mutex. A paused report notifies without a message, as
`postInput` does. The labels in `at` are the places in the code.

Around it is the life of the process: `main` makes `JausBridge`, then
`UartCoapBridge`, whose constructor may throw; `startServiceLoop` sends the
first requests, starts the JAUS component, whose callbacks may post from then
on, sets `running` and starts the thread; an exception leaves the io loop;
`ioService` goes when `main` returns, and the two singletons, statics of two
source files, go in either order. `live` is what exists. `Uses` says what a
thread touches where it is; a use of what is gone is undefined in the program,
so threads that would need the destroyed mutex stop there, and the handlers,
one step each, are taken to return. Both modules are shown to implement
`BridgeQueue`: `AgentThreads` for the synchronisation, `VehicleControl` for the
handlers and their requests.

### CoapPortTracker

An item is a message in transit with its history: the port and the token of its
owner, whether the map stands for it, and its age in periods of the expiry
timer. `udpToSerial` and `serialToUdp` are the two calls of the tracker with
the whole path to the serial line: token rewriting, tracking of the message ID
for requests without room or of type CON, for CON responses and for empty
messages, and the four branches of the way back. Tokens are byte sequences,
because what matters is which of them look like tracking bytes; ports are split
into bytes. The NSC may answer piggybacked, separately with an ID of its own,
more than once, late, or not at all, and starts requests of its own. The timer
may be late by `MaxLateness` periods.

### UartCoapBridge

Every action that passes a message through the tracker is the tracker's action
conjoined with what the bridge does around it. `receives` counts outstanding
receives and `retry` is the pending timer. `serialDataReceived` sends the
datagram of the tracker to one of two sides: ports strictly between
`JausPort::START` and `END` go to `evaluateCoapJausMessage`, the others to the
socket, where they are lost when it is closed. The comment above that test reserves 900 to 1100
(`ReservedPorts`), which is more than the code takes; no property says where
the answers to a client with a port in that range go. The battery decoder may
throw something that is no `CoapException`; that, and a failing serial port,
leaves `main`. The calls of the service thread into the tracker are atomic here: what
two threads do inside a `std::map` without a lock is undefined and has no
states. The log of `bindLocal` is a `SpammyLogMsg`; the logs of failed sends,
which exist per port and are reset by the next message, are left out.

### Slip and SerialLink

A call of `asyncSendMessageToSerialPort` is one step per byte pushed, one for
the test of `writeInProgress` and one for starting a write; the completion
handler is split at the test for an empty buffer and the reset of the flag. `head` is
where the bytes begin in the circular storage, so that a write takes what
`array_one` gives, the bytes up to the wrap (`Region`); it completes with at
least one byte, or fails. The single member functions of the circular buffer
are taken as atomic, and the encoded message is taken to fit the command buffer
of 512 bytes, beyond which the code is undefined. The agent's own requests do
fit. A forwarded datagram need not: up to 512 bytes are received, the tracker
may add three, and two delimiters and the escapes come on top. What the
agent writes is read by the agent's own reader: the two directions of the line
use the same framing, and the writer and the reader share no state, so the
model reads the line as soon as there is something on it. The line may lose or
change bytes.

### CoapMessage, SrcProRequests, JoystickReport, NscExchange

Here messages are bytes, because the questions are about encodings: the code
that builds a request is joined to an independent reader (`ReadMessage`, the
NSC), an independent writer of answers (`WriteReply`, `WriteReport`) to the
code that reads. An exchange builds a request, inserts the tracking bytes, lets
the NSC answer with some options, possibly damages the report by a burst, and
follows the answer through `serialToUdp`, `parseObserveReply`,
`decode_combined_payload` and `postInput`. The CBOR encoders are modelled with
the room of their buffers, since a result larger than the room makes
`buf.resize` throw. The exclusive or, `BitXor` of `Bits`, is a recursive function
over the bits, so that the same definition serves TLC and the proofs (the
operator of the community modules is one no theorem can reach). The readers are one loop, `Turns`, a function from the number of
turns to the state of the loop; they differ in where a length is extended and in
the width of the variables that keep it (`Width`, `Field`).

## The runs

All bounds are constants of the cfg. `violation` runs check one statement of a
comment that the code does not keep.

| Run | Question | Bounds, and why they are enough |
|---|---|---|
| `VehicleControl_any` | Is the agent's authority sound whatever happens? (`EffortAuthorised`, `RetriesBounded`, `OnlyReportRevives`, refinement of `Handover`) | all five kinds of report; all faults; two unsolicited reports, so that they meet each other and a retry; one loss, which is enough to wedge the agent; one report waiting, because reports are handled one at a time and responses are not bounded. 1 189 610 states |
| `VehicleControl_threads` | Does the machinery between the threads work? (`PendingExact`, `PressBeforeRequest`, `ResumeBeforeReady`, `StickReaches`, refinement of `BridgeQueue` with its liveness) | two stick positions and two reports waiting, so that a newer report can queue behind an older one; one unsolicited report. 316 922 states |
| `VehicleControl_live` | Does a persistent operator get the vehicle? (`EventuallyReady`) | rejections without limit and two unsolicited reports; no loss, see the hazards. 36 970 states |
| `VehicleControl_pending_flag` | violation: "true if a JAUS request is waiting on a response" | an answer between the two steps of a request |
| `VehicleControl_heartbeat` | violation: "A missed heartbeat triggers EmergencyState" | a vehicle that dies |
| `VehicleControl_held` | violation: "On the first R-Down press a JAUS RequestControl command is sent" | reports with R-Down up and down and two stick positions; no fault is needed |
| `AgentThreads_queue` | Are the mutex, the condition variable and the order of start and exit enough? (`NoLostWakeup`, `MadeBeforeUse`, `DanglingOnlyAtExit`, `StopReturns`, refinement of `BridgeQueue` with its liveness) | two OpenJAUS threads, so that they contend with `main`, with the service thread and with each other; up to four messages waiting or about to be pushed, so that some arrive while another is handled; spurious wake-ups without limit. 17 563 states |
| `CoapPortTracker_route` | Where do answers go? (`ResponsesReachClient`, `TokensTellClientsApart`, `AstrayOnlyIfExplained`, `MappingsExpire`) | two ports that agree in one byte, two IDs so that one is reused while the other is not, tokens empty, short, five bytes, and one that looks like tracking bytes; timeout of two periods with a timer up to one late; two messages in transit, the number that can contend for one ID. The CRC-8 is the code's. 992 757 states |
| `SerialLink_send` | Do frames arrive? (`WholeFramesDelivered`, `DeliveredInOrder`, `Flushes`) | one thread sends a plain message, four bytes once encoded, the other one that is escaped, five bytes, up to two in all; a buffer of nine bytes, which holds both frames whole, wraps behind the first, and cuts the second when the first was the escaped one twice; one fault, a failed write, a failed read or a noise event, placed anywhere, so that a frame is also accepted behind what a failed write left. 3 349 519 states |
| `SerialLink_two_writes` | violation: "if no write is already in progress" | two senders |
| `UartCoapBridge_route` | Do both sides get their answers, and does the agent keep listening? (`OneLifeline`, `SidesKeptApart`, `OnlyOwnEvaluated`, `ExitsExplained`, `LogsThin`, `EventuallyListens`) | the agent on 931, a client on 945, which the comment reserves and the code does not take, and one on 1101, the first port behind the range of the comment; one message ID, so that all share it; a long token that looks like the battery port and one that looks like nothing; four failures of `bindLocal` in a row, so that the log skips one. 272 490 states |
| `NscExchange_bytes` | Do the encoders and parsers agree? (`RequestUnderstood`, `PathReadBack`, `ReplyParsed`, `DamagedNeverPosted`, `PostedIsRead`, `DisplayReadBack`, `OnlyMetadataThrows`) | option lengths 0, 12, 13, 255, 256, 268, 269 and payloads up to 300; lines of 0, 17, 18, 19 and 24 characters; bursts of one, two and sixteen bits at every bit of a report (reports are damaged only in answers about the joystick). 93 752 states |

The invariants that exist to carry a proof, `AuthorityChain`, `ThreadsInOrder`,
`Routable` and `KnownPorts`, and the action property `NoPopAfterStop`, which
the refinement of `BridgeQueue` implies, are proved for every instance
(`ChainHolds`, `OrderHolds`, `AlwaysRoutable`, `OnlyKnownPorts`,
`NothingPoppedAfterStop`) and are in no cfg; each held in TLC before it was
proved.

What a reader may take from them beyond the tables:

- `RetriesBounded` shows that answers and retries do not multiply on their own.
  Every unsolicited report does add one exchange that goes on for as long as
  the state lasts, because any report clears the flag and is answered by a
  retry; the bound counts these.
- `AstrayOnlyIfExplained` lists all reasons for a misrouted answer: an ID that
  another port took, an answer older than the timeout, and a long token that
  looks like tracking bytes.
- `SidesKeptApart` and `OnlyOwnEvaluated` are the two directions of the
  dispatch: an answer of each side reaches its side, and `JausBridge`, which
  moves the vehicle by what it is given, is given nothing of a client's, except
  for the causes it lists. A mapping that has expired is none of them: an answer
  that comes too late goes to the server's port, never to the agent.
- `OnlyReportRevives` says what a lost message costs. The code has no timeout:
  from the moment an answer cannot come any more, no press, no queued response
  and no other answer makes the agent ask again, only a report nobody asked for.
- `NoLostWakeup` holds because `stopServiceLoop` clears `running` under the
  mutex: cleared without it, the notification can fall between the predicate
  and the wait (the mutant `stopServiceLoop_NoLock`). That the notification
  comes after the release does no harm.
- `DanglingOnlyAtExit` names the three places where the exit of the process
  touches what is gone: a handler of the service thread after `main` has
  returned or `~UartCoapBridge` has run, `~UartCoapBridge` itself when it closes
  what belonged to `ioService`, and a callback between the destruction of the
  queue and that of the client (the members of `JausBridge` go in reverse order
  of declaration). Nothing else ever does, and the service loop has always ended
  before its queue goes.
- `PostedIsRead` depends on `dataOK`: a report of eighteen zero bytes passes
  both CRCs, and only the test of `dataOK` keeps it from driving the vehicle.
- `OnlyMetadataThrows` is as strong as the code: `cborEncodeFileMetadata`
  (coapSRCPro.cpp:170-182) gives the text 32 bytes more, which is too little
  when the length or the checksum needs more than 16 bits; the encoder then
  reports a size that `resize` cannot honour, and throws.

`CHECK_DEADLOCK FALSE` is set where the system may stop: after
`stopServiceLoop` has ended the service thread (the two runs of
`VehicleControl` with `stop`), when all messages are sent (the runs of
`SerialLink`), after the process has left `main` (`UartCoapBridge_route`), and
after it has exited (`AgentThreads_queue`).

## Fairness

- `VehicleControl!ThreadFairness`: the operating system schedules the service
  and the OpenJAUS thread. `StickReaches` and `ImplementsQueue` use only this.
- `AgentThreads!Fairness`: threads are scheduled, and a thread that waits for
  `queueMutex` gets it although others take it again and again (strong fairness
  of the acquisitions). Nobody has to post, to throw or to wake spuriously, and
  handlers return.
- `VehicleControl!VehicleFairness` and `OperatorFairness`, for `EventuallyReady`
  and for the heartbeat run: a vehicle that is up answers; one that is asked
  again and again finally confirms, and finally handles Resume (strong fairness,
  as rejections may come in between); an operator who wants the vehicle keeps
  pressing. These are statements about the environment without which the code
  promises nothing.
- `SerialLink!Fairness`: threads run, a started write completes, the line is
  read. A write may complete with a single byte. `Flushes` says that the buffer is
  empty again and again, unless a write or read failed or two threads overlapped.
- `UartCoapBridge!Spec`: the io thread runs the handler of an expired timer.
  `EventuallyListens` also uses the bound `MaxBindFailures`: at most that many
  attempts fail in a row. What it shows is that no path leaves the agent without
  a receive and without a timer, not that an address becomes free.

## The proofs

All theorems hold for every value of the constants that satisfies the ASSUMEs
of the module, which state what the code gives: ports are 16-bit, tokens have
up to eight bytes, threads are distinct, bounds are naturals. The marker byte of the tracker is an
arbitrary function of two bytes, so nothing depends on the CRC.

**VehicleControl_proofs.** `TypeCorrect` is by one lemma per thread.
`EffortIsAuthorised` needs more than `EffortAuthorised`: that ControlState moves
on only with `controlGranted` says nothing unless the flag has its cause at the
vehicle. `AuthorityChain` adds the causes: each reply in the network and each
flag of the client stands for something the vehicle did, a request on its way
for a state that was reached, and a call under way for the state it was made
from. Both together with `TypeOK` are inductive (`Authority`), and `ChainHolds`,
`EffortIsAuthorised` follow. `HandoverImplemented` uses the same invariant: each
step maps to a step of `Handover` or a stutter. `NothingPoppedAfterStop` is an
action property, step by step. `QueueImplemented` is the refinement of
`BridgeQueue` by the handlers and callbacks, as `AgentThreads_proofs` has it for
the synchronisation: each step is a step of the abstract queue or a stutter
(`ImplementsQueue` adds fairness, which is left to the run).

The second half of the module counts. `PushCount` and `PopCount` say
what a push and a pop do to the number of messages of a kind in the queue,
`NetChange` and `NetAnswer` what sending, taking and answering do to the number
of messages in the network. `RetriesBounded` alone is not inductive, because a
press in InitializeState requests nothing and `sendRequestControl` returns
whether the server is known; `MachineKnows` adds that. `RetriesAreBounded`
follows, one lemma per thread (`RetriesStep`). As long as no report was
unsolicited the bound is one, so whatever is on its way goes back to a press
(`TrafficNeedsPress`): `PressComesFirst` and `ResumeComesFirst`, under losses
and early answers. `PendingIsExact` assumes what its run assumes, no early
answer and no loss, and strengthens `PendingExact` by the moment between the
message and the flag (`Pending`). `OnlyAReportRevives` shows that each step
leaves the agent wedged or adds an unsolicited report.

**AgentThreads_proofs.** `ThreadsInOrder` is inductive with `TypeOK`: each
position that needs the mutex has it, what the predicate found is still true
when the thread acts on it, a sleeper with something to do has a notification
on its way, and the order of construction and destruction. `NoWakeupIsLost`,
`NothingUsedUnmade` and `OnlyKnownDangling` follow from it, for every number of
OpenJAUS threads, and `QueueImplemented`: every step is a step of `BridgeQueue`
or a stutter (its fairness is left to the run).

**SequenceInduction.** The library's induction theorems take an operator as a
parameter and cannot be used here. `SetInduction` takes a set instead, and
follows from the library's well-foundedness of the naturals. From it:
`FlattenSeq` of the community modules, which chooses a recursive function, is
what one expects (`FlattenIs`, `FlattenAppend`, `FlattenPrefix`,
`FlattenPiece`, `FlattenLength`). The proofs about encoders rest on these.

**SerialLink_proofs.** The framing first: what the encoder writes for every
message, byte by byte, and what the decoder makes of it from every state it can
be in. `TypeCorrect` needs only the ranges. `WholeFramesAlwaysDelivered`
follows from `InPlace`: at place n of a frame the decoder is where the first n
bytes of the encoding leave it. It holds for every message of at least two
bytes that fits the decoder's buffer, and for every noise, because the leading
END puts the decoder in its place whatever came before.
`AlwaysDeliveredInOrder` needs that nothing is lost between the pushes and the
line, and so that there is one write. `Turn` says that without an overlap at
most one thread is inside the object, and `Chain` that the one write is then a
first part of the buffer (`OneWriteUnlessOverlapped`). `Ordered` follows the
bytes from `todo` through the buffer to the line: without noise and cut frames
they continue, frame after frame, what the reader has read.
With the io thread as the only sender (`Sends("service") = {}`),
`NeverOverlappedAlone` removes the excuse `overlapped`, and `OneWriteAlone` shows that there is never
more than one write; `SerialLink_two_writes` shows this fail with two senders.

**CoapPortTracker_proofs.** First lemmas on bytes: a port is recovered from its
two bytes (`PortBytes`), and tracking bytes put before a token are found, give
the port and leave the token (`TrackingRoundTrip`, `TrackingInjective`). Then
`TypeCorrect`, which includes that a rewritten token has at most eight bytes,
the limit at which `setTokenLength` would throw, and the inductive invariant
`Routable`: everything in transit carries the port of its owner in its token, as
`udpToSerial` wrote it, or has a mapping no older than itself
(`AlwaysRoutable`). From it follow, looking only at the step that sends,
`TrackedResponsesReachClient`, `OnlyKnownReasons`, `OnlyKnownPorts` and
`TokensSeparateClients`; `NoStaleMapping` is inductive alone. `OwnMapping` is a
second invariant, without ages: as long as a mapping still stands for an item,
it is its owner's. `OnlyToOwnerOrServer` follows: expiry sends an answer to the
server's port and never to another client.

**UartCoapBridge_proofs.** The bridge is built from the tracker's actions, so
its behaviours are behaviours of the tracker by construction
(`BridgeRunsTracker`): a lemma, used only to carry the tracker's theorems over.
An instance of `CoapPortTracker_proofs`, with the agent's ports as further
clients, makes them facts about the bridge (`SameSpec`, `TrackerConstants`,
`BridgeRoutesResponses`, `BridgeKnowsPorts`, `BridgeKeepsOwners`).
`SidesStayApart` adds that each datagram is handed to exactly one side
(`Dispatched`), and that the ports the code takes lie inside those its comment
reserves (`JausReserved`); `OnlyOwnIsEvaluated` follows from the same and
`OnlyToOwnerOrServer`; `ExitsAreExplained` that a process that has left main without a
serial failure has just been given a datagram for the battery port
(`ExitsAtBattery`), which `KnownPorts` explains. `LifelineHolds` strengthens
`OneLifeline` by the ranges of its variables. `TypeCorrect` carries the types
of the tracker over and adds those of the bridge.

`BindLogThin` strengthens `LogsThin` to `Thinned`: the threshold is the next
power of two and the count of lines its exponent.

**JoystickReport_proofs.** The exclusive or and the CRC-16 from their
definitions, with the polynomial of the code:

- `BitXor` is a commutative and associative operation within any number of bits
  that is its own inverse (`XorHalves` and what follows it, by induction over the
  numbers).
- One bit of `compute_crc16` is linear (`ShiftLinear`), so eight bits are, and the
  difference between two registers is the register of the difference
  (`FeedsLinear`): to ask whether damage is seen is to ask whether the register
  of what was flipped, fed to an empty one, ends with zero. The register of a
  half followed by its own CRC is zero (`HalfFeeds`).
- Eight shifts take nothing but zero to zero, because the polynomial has its
  highest bit set (`ShiftKeeps`, `ByteKeeps`). A burst is one number, a pattern of
  sixteen bits shifted within a byte (`Burst`, `FlawAt`); fed over its two or
  three bytes it leaves a register that is not zero (`ByteBurst`), and nothing
  that follows changes that (`BurstStays`). A burst that runs over the border of
  the halves is cut in two, and one of the parts is enough (`ReportDetects`).
- `BurstsDetected` and `ReadingsReadBack` (every sign, flag and button survives
  the packing) are the results, for every reading.

**NscExchange_proofs.** What the encoders and readers compute for every input:

- `OptionsReadBack`, the heart: from any list of options in the order of their
  numbers, with values of any length below the limit of the reader, a reader's
  loop over `encodeOptions` finds those options and ends behind the last. By
  induction over the turns of the loop (`EveryTurn`); one turn is `OneTurn`,
  which rests on `FieldRead`: the nibble and its extension are read as they were
  written, across 13 and 269, in a variable wide enough. One lemma serves the
  three readers.
- `MessageParts`, `TrackingInserted`, `TrackingRemoved`: where header, token,
  options and payload are, before and after the tracker rewrites them.
- `ExchangeInvariant` is inductive: the record keeps its shape; the bytes on the
  line are those of the request, or of the answer with the payload as the line
  left it (`Answer`, `OnLine`); an answer is the report of a reading or another
  payload of the NSC (`About`). `ReplyParsed` alone is not inductive, since it
  speaks of a step that reads bytes an earlier step wrote. TLC checked it before
  it was proved, with the witnesses of the quantifiers written out.
- `RequestsUnderstood`, `PathsReadBack` and `RepliesParsed` join the two.
- `DamageNeverPosts` and `PostedReadings` bring in the CRCs. `BurstTouches` turns
  pattern and offset of `Damage` into three bytes that make one number, a pattern
  shifted within a byte; `StruckReply` carries the burst from the bytes of an
  answer to its payload; `DamageSeen` applies `BurstsDetected`; and
  `WholeIfDecoded` says what is left when a payload decodes. Both are stated for
  options without extension (`Plain`), the ones `parseObserveReply` can skip:
  with others it cuts the payload somewhere else, and what it then finds depends
  on the NSC's bytes. `PostedReadings` assumes that no other payload of the NSC
  passes for a report (`Forged`), which the code cannot know: without the
  assumption `Posts`, a part of the invariant, says that either the reading or
  such a payload is behind what is posted.
- `OnlyTheMetadataThrows` and `DisplaysReadBack` speak of the builders of
  payloads, so they assume of `Requests` what the code gives, that each comes
  from a builder (`Called`; `BuildersCall` shows that the requests without a
  payload qualify). They hold for every text, key and setting.

The assumptions are those of the module: fields in the range of their C++ types
and options shorter than 65 536 bytes (`RequestsAssumption`); answers whose
options are in the order of their numbers, as the format demands, with readings
in the range of `jsCal_t` (`AnswersAssumption`); bursts of one to sixteen bits
(`BurstsAssumption`).

**Only model-checked**: all liveness (`EventuallyReady`, `StickReaches`,
`Flushes`, `EventuallyListens`, `StopReturns`, the fairness of `BridgeQueue`),
since the prover handles neither fairness nor ENABLED; and what
`DamagedNeverPosted` and `PostedIsRead` say of answers with extended options,
which holds for the option lists of the run and not for all. Every other
invariant a run checks is a theorem.

## Where code and comments disagree

Four runs end in a violation on purpose; `findings` quotes both sides:

1. `requestPending` is set after the request is sent, so a fast answer leaves it
   set for ever (JausClientImpl.cpp:104).
2. A missed heartbeat has no effect: `update()` is never called (JausBridge.cpp:90).
3. A press of R-Down that is held while the stick moves is taken for a new press
   by the next state (ControlState.h:29).
4. Two writes can be in progress (serialHandler.cpp:104).

Seen while modelling, and not made a run:

- coapPortTracker.cpp:150-155 says of codes that are neither request, response nor
  empty "Log error and don't send"; they are sent, unchanged and untracked.
- serialHandler.cpp:61 wants "enough free space in the buffer for the whole
  command" and compares the length before SLIP encoding: a message of escapes is
  accepted and cut (`frames[f].cut` in `SerialLink`).
- JausBridge.h:68 says the destructor "ensures cleanup" of the loop; the three
  places of `DanglingOnlyAtExit` remain.
- `clearFailedToSendToRemote` follows every `sendToRemote` (uartCoapBridge.cpp:109),
  so that failures on a closed socket are never counted beyond the first, and
  each is logged.
- `URIs::FirmareFileData` (coapSRCPro.h:87-89) writes a path as
  `{{"fs","data"},{filename}}`, which makes one string of two unrelated pointers;
  constructing it is undefined. The agent never calls it.
- coapPortTracker.h:26-27 and coapPortTracker.cpp:174 disagree about tokens of
  five bytes, which would leave room for tracking; the code tracks up to four.
- JausClient.h:26 speaks of suppressing duplicate requests, and an unsolicited
  status report re-opens the gate (JausClientImpl.cpp:282).
- coapSRCPro.cpp:207 describes two lines of 18 characters; the code cuts longer
  lines and does not pad shorter ones, so the second line of a short pair does
  not start at its place. `DisplayReadBack` is stated for full lines.
- `getDisplayMode` passes a payload to a GET, which `buildMessage` drops;
  `getRadioStatus` asks for the path of the radio channel; some radio paths are
  built from two segments. `NscExchange` models the first.
- `extractUriPath` keeps extended lengths in eight bits; only tests call it.
- uartCoapBridge.cpp:91 says "The port range 900-1100 is reserved for JAUS
  messages"; the next line takes 901..944 (`START` is 900 and `END` 945, both
  excluded). A client whose source port lies in 901..944 loses its answers to
  `JausBridge`; one on 900 or 945..1100, reserved according to the comment, gets
  them on the socket. Which of the two is meant the repository does not say. The
  properties leave the answers to a client in 900..1100 open, so they neither
  endorse the code's range nor would notice another inside the comment's.
- All requests of the agent use one message ID, `JS_MID`.

## What is left out

- `ConsoleBuffer`, configuration, log set-up, tracing and version: they print or
  run once before the threads start. `CoapPortTracker::clear`,
  `createResetMsg` and `handleReleaseControlResponse` have no caller.
- `EmergencyState` is in the type of `state` and unreachable; `ShutdownState` is
  never constructed.
- Scaling of an axis to percent and the layout of JAUS messages: the vehicle's
  side is not in the repository.
- The data races inside the map and the circular buffer: undefined
  behaviour of the containers has no finite set of outcomes. The races on
  `requestPending` and `writeInProgress` are modelled.
- Lost JAUS messages are in the safety runs; the code has no timeout, so
  no liveness is claimed for them.
- Opening and configuring the serial port; that `std::thread` cannot start.
- The logs of failed sends, per port, in `UartCoapBridge`.
- Of the fifty request builders, those that differ from a modelled one only in
  path and port: a table of constants without behaviour.
- `docs/html`, the output of Doxygen with its scripts, the only JavaScript in
  the repository: generated, and no part of the agent, which is C++.

## The plan

In order of importance; the first nine steps are done.

1. `Handover`, `VehicleControl` and its proofs: what the agent does to a vehicle.
2. `CoapPortTracker` and its proofs: where answers go.
3. `Slip`, `SerialLink`: what reaches the line.
4. `UartCoapBridge`: the composition around the tracker, and its proofs.
5. `CoapMessage`, `SrcProRequests`, `JoystickReport`, `NscExchange`: the bytes.
6. `BridgeQueue`, `AgentThreads` and their proofs: the queue at the grain of the
   waiting thread, start and exit; `VehiclePress`.
7. The counting half of `VehicleControl_proofs`, `SerialLink_proofs` and the
   types of `UartCoapBridge`.
8. The refinement of `BridgeQueue` by `VehicleControl`; `SequenceInduction`, the
   framing and the order of `SerialLink`, the thinned log, and
   `NscExchange_proofs`.
9. `JoystickReport_proofs`: the CRCs and the packing of a report, and with them
   the last invariants of `NscExchange`.
10. Prove further: what a failed write leaves for the next message, as an action
    property of `SerialLink`. Model further: the logs of failed sends per port;
    the agent's writes inside `VehicleControl` joined to `SerialLink`.
11. Consider runs for the display of short lines and the room of the firmware
    metadata in place of weaker ones.
