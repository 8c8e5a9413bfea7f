--------------------------- MODULE UartCoapBridge ---------------------------
(***************************************************************************)
(* UartCoapBridge joins the UDP socket, the serial link, CoapPortTracker   *)
(* and JausBridge: forwarded and the agent's own requests go to the NSC    *)
(* through the tracker; what the NSC answers goes to the socket, or, when  *)
(* the tracker routes it to a port between JausPort::START and END, into   *)
(* JausBridge.                                                             *)
(*                                                                         *)
(* The tracker is the module CoapPortTracker; every action here that calls *)
(* it is one of its actions, with what the bridge does around it.          *)
(***************************************************************************)
EXTENDS Integers, Sequences, FiniteSets

CONSTANTS
    Clients,          \* source ports of the UDP clients
    OwnPorts,         \* JausPorts the agent itself sends requests for
    DefaultPort, Mids, Tokens, MarkerByte(_, _), Timeout, MaxLateness,
    MaxInTransit,     \* as in CoapPortTracker
    ClientMessages,   \* messages of the UDP clients
    OwnMessages,      \* messages of coapSRCPro
    MaxBindFailures   \* bound: failures of bindLocal in a row

START == 900  \* JausBridge::JausPort
END   == 945

BATTERYSTATUS          == 914
COMBINEDJOYSTICKKEYPAD == 931

Port == 0 .. 65535

JausPorts == {p \in Port : START < p /\ p < END}

ASSUME OwnPortsAssumption ==
    OwnPorts \subseteq JausPorts \ {BATTERYSTATUS} /\ DefaultPort \notin JausPorts
ASSUME OwnMessagesAssumption == \A m \in OwnMessages : m.token = <<>>
ASSUME BindAssumption == MaxBindFailures \in Nat \ {0}

VARIABLES
    mids, sinceExpiry, toNsc, fromNsc, sent,  \* CoapPortTracker
    alive,         \* the process has not left main
    open,          \* localSocket.is_open()
    receives,      \* outstanding async_receive_from
    retry,         \* localBindRetryTimer is pending
    bindLog,       \* failedToBindLocal
    forwarded,     \* what became of the last answer handed to sendToRemote,
    evaluated,     \* or to evaluateCoapJausMessage
    serialFailed   \* history: the serial port failed

trackerVars == <<mids, sinceExpiry, toNsc, fromNsc, sent>>
socketVars  == <<open, receives, retry, bindLog>>
outputs     == <<forwarded, evaluated>>
vars        == <<trackerVars, alive, socketVars, outputs, serialFailed>>

Tracker == INSTANCE CoapPortTracker WITH
    Clients <- Clients \cup OwnPorts,
    ClientMessages <- ClientMessages \cup OwnMessages

\* the assumptions of CoapPortTracker
ASSUME PortsAssumption == Clients \subseteq Port /\ DefaultPort \in Port
ASSUME TokensAssumption == \A t \in Tokens : t \in Seq(0 .. 255) /\ Len(t) <= 8
ASSUME MessagesAssumption ==
    ClientMessages \cup OwnMessages \subseteq Tracker!Message(Tokens)
ASSUME MarkerAssumption ==
    \A lo, hi \in 0 .. 255 : MarkerByte(lo, hi) \in 0 .. 255
ASSUME TimesAssumption ==
    Timeout \in Nat \ {0} /\ MaxLateness \in Nat /\ MaxInTransit \in Nat

\* what a payload is to evaluateCoapJausMessage: nothing, a joystick report
\* with good or bad CRCs, a CBOR map it can decode, or something else
Payloads == {"empty", "report", "badReport", "map", "other"}

-----------------------------------------------------------------------------
(* SpammyLogMsg; lines counts, for the properties only, what is logged *)

Cleared == [count |-> 0, thresh |-> 1, lines |-> 0]

\* mutant: the threshold follows the count
log_Linear(s) ==
    [count |-> s.count + 1, thresh |-> s.thresh + 1, lines |-> s.lines + 1]

log(s) ==
    IF s.count + 1 >= s.thresh
    THEN [count |-> s.count + 1, thresh |-> 2 * s.thresh, lines |-> s.lines + 1]
    ELSE [s EXCEPT !.count = @ + 1]

-----------------------------------------------------------------------------
(* The UDP socket *)

\* the constructor, which ends with bindLocal
Init ==
    /\ Tracker!Init
    /\ alive = TRUE
    /\ open \in BOOLEAN
    /\ receives = IF open THEN 1 ELSE 0
    /\ retry = ~open
    /\ bindLog = IF open THEN Cleared ELSE log(Cleared)
    /\ forwarded = {}
    /\ evaluated = {}
    /\ serialFailed = FALSE

\* mutant: the failed attempt is the last
BindFails_NoRetry ==
    /\ bindLog.count < MaxBindFailures
    /\ open' = FALSE
    /\ receives' = 0
    /\ retry' = FALSE
    /\ bindLog' = log(bindLog)

\* the catch of bindLocal
BindFails ==
    /\ bindLog.count < MaxBindFailures
    /\ open' = FALSE
    /\ receives' = 0
    /\ retry' = TRUE
    /\ bindLog' = log(bindLog)

\* a new socket is bound, and a receive started on it
Binds ==
    /\ open' = TRUE
    /\ receives' = 1
    /\ retry' = FALSE
    /\ bindLog' = Cleared

bindLocal == Binds \/ BindFails

\* mutant: a receive is started as well as the socket bound again
receiveFromRemote_Twice ==
    /\ receives' = receives + 1
    /\ UNCHANGED <<open, retry, bindLog>>

\* at the end of its handler, when its own receive is no longer outstanding;
\* when it throws, the socket is bound again
receiveFromRemote ==
    \/ receives' = 1 /\ UNCHANGED <<open, retry, bindLog>>
    \/ bindLocal

NoOutput == forwarded' = {} /\ evaluated' = {}

localBindRetry ==
    /\ retry
    /\ bindLocal
    /\ UNCHANGED <<trackerVars, alive, outputs, serialFailed>>

\* a datagram of the remote host
Received(port, m) ==
    /\ receives > 0
    /\ Tracker!udpToSerial(port, m)
    /\ receiveFromRemote
    /\ NoOutput
    /\ UNCHANGED <<alive, serialFailed>>

\* one that is empty, not CoAP or from another host, or an error
ReceivedNothing ==
    /\ receives > 0
    /\ receiveFromRemote
    /\ UNCHANGED <<trackerVars, alive, outputs, serialFailed>>

\* a request of coapSRCPro, from the main or the service thread
sendSRCRequest(port, m) ==
    /\ Tracker!udpToSerial(port, m)
    /\ NoOutput
    /\ UNCHANGED <<alive, socketVars, serialFailed>>

-----------------------------------------------------------------------------
(* The serial link *)

\* mutant: decode_combined_payload throws as well
Throws_Reports(port, payload) ==
    \/ port = BATTERYSTATUS /\ payload \notin {"empty", "map"}
    \/ port = COMBINEDJOYSTICKKEYPAD /\ payload # "report"

\* decode_battery_payload throws what serialDataReceived does not catch
Throws(port, payload) ==
    port = BATTERYSTATUS /\ payload \notin {"empty", "map"}

\* mutant: the range has no end
ToJaus_NoEnd(port) == START < port

ToJaus(port) == port \in JausPorts

evaluateCoapJausMessage(port, payload) ==
    /\ evaluated' = {[port |-> port, payload |-> payload]}
    /\ forwarded' = {}
    /\ alive' = ~Throws(port, payload)

\* a closed socket sends nothing
sendToRemote(d) ==
    /\ forwarded' = {[port |-> d.port, lost |-> ~open]}
    /\ evaluated' = {}
    /\ UNCHANGED alive

\* a frame the tracker refuses (CoapException) is only logged
serialDataReceived(i) ==
    /\ Tracker!serialToUdp(i)
    /\ \/ sent' = {} /\ NoOutput /\ UNCHANGED alive
       \/ \E d \in sent' :
            \/ /\ ToJaus(d.port)
               /\ \E payload \in Payloads : evaluateCoapJausMessage(d.port, payload)
            \/ ~ToJaus(d.port) /\ sendToRemote(d)
    /\ UNCHANGED <<socketVars, serialFailed>>

\* the exception reaches main
serialError ==
    /\ serialFailed' = TRUE
    /\ alive' = FALSE
    /\ UNCHANGED <<trackerVars, socketVars, outputs>>

-----------------------------------------------------------------------------
(* The timer of the tracker, time and the NSC *)

removeOldMids == Tracker!removeOldMids

NscOrTime ==
    \/ Tracker!Tick
    \/ \E i \in toNsc, type \in {"ACK", "CON", "NON"}, mid \in Mids :
            Tracker!NscResponds(i, type, mid)
    \/ \E i \in toNsc, type \in {"ACK", "RST"} : Tracker!NscAcknowledges(i, type)
    \/ \E i \in toNsc : Tracker!NscDrops(i)
    \/ \E code \in {"request", "reserved"}, mid \in Mids :
            Tracker!NscStarts(code, mid)

Around(action) ==
    /\ action
    /\ NoOutput
    /\ UNCHANGED <<alive, socketVars, serialFailed>>

-----------------------------------------------------------------------------
Next ==
    /\ alive
    /\ \/ localBindRetry
       \/ \E port \in Clients, m \in ClientMessages : Received(port, m)
       \/ ReceivedNothing
       \/ \E port \in OwnPorts, m \in OwnMessages : sendSRCRequest(port, m)
       \/ \E i \in fromNsc : serialDataReceived(i)
       \/ serialError
       \/ Around(removeOldMids)
       \/ Around(NscOrTime)

\* the io thread runs the handler of an expired timer
Spec == Init /\ [][Next]_vars /\ WF_vars(alive /\ localBindRetry)

-----------------------------------------------------------------------------
(* Properties *)

\* Every variable has its type; no more than one receive is outstanding.
TypeOK ==
    /\ Tracker!TypeOK
    /\ {alive, open, retry, serialFailed} \subseteq BOOLEAN
    /\ receives \in 0 .. 1
    /\ bindLog.count \in 0 .. MaxBindFailures
    /\ forwarded \subseteq [port : Port \ JausPorts, lost : BOOLEAN]
    /\ evaluated \subseteq [port : JausPorts, payload : Payloads]

\* "only a single instance of receive() is ever run at a time": exactly one
\* of a receive and the retry timer is outstanding, so the agent never stops
\* listening for good and never overwrites 'from' under another receive.
OneLifeline == receives + (IF retry THEN 1 ELSE 0) = 1 /\ (open <=> ~retry)

\* "The port range 900-1100 is reserved for JAUS messages", says the comment
\* above the dispatch, which takes the ports between START and END only: what
\* becomes of the answers to a client with another port of that range is left
\* open by the properties.
ReservedPorts == 900 .. 1100

\* A response to a request of the agent itself ends in JausBridge, and one to
\* a client outside the reserved ports is sent to that client, even when both
\* used the same message ID (tracker and dispatch).
SidesKeptApart ==
    \A d \in sent :
        d.item.msg.code = "response" /\ Len(d.item.token) < 5 =>
            /\ d.item.owner \in OwnPorts =>
                    {e.port : e \in evaluated} = {d.item.owner}
            /\ d.item.owner \in Clients \ ReservedPorts =>
                    {f.port : f \in forwarded} = {d.item.owner}

\* an acknowledgement, or a response whose token has no room for tracking
RoutedByMid(i) == i.msg.code = "response" => Len(i.token) >= 5

\* JausBridge, which moves the vehicle by what it evaluates, is only given
\* what answers the agent itself. The exceptions are a client with a reserved
\* port, a long token that looks like tracking bytes, and an answer without
\* tracking bytes whose message ID the agent took over while it was under way
\* or whose ID the NSC chose. A late answer is none: what expired is not
\* routed to the agent (tracker, expiry and dispatch together).
OnlyOwnEvaluated ==
    evaluated # {} =>
        \A d \in sent :
            \/ d.item.owner \in OwnPorts \cup ReservedPorts
            \/ Tracker!LooksTracked(d.item)
            \/ RoutedByMid(d.item) /\ d.item.unmapped

\* The agent leaves main only when the serial port failed, or when an answer
\* was routed to BATTERYSTATUS, a port it sends no request for itself: a
\* client has it as its source port, or a long token looked like tracking
\* bytes. No other message of a client or of the NSC ends the process.
ExitsExplained ==
    ~alive =>
        \/ serialFailed
        \/ \E d \in sent :
                /\ d.port = BATTERYSTATUS
                /\ BATTERYSTATUS \in Clients \/ Tracker!LooksTracked(d.item)

power2[k \in Nat] == IF k = 0 THEN 1 ELSE 2 * power2[k - 1]

\* SpammyLogMsg: "logs the first message, then only powers of 2 afterwards":
\* bindLog.lines is the number of powers of two up to the count.
LogsThin ==
    bindLog.lines =
        Cardinality({k \in 0 .. MaxBindFailures : power2[k] <= bindLog.count})

\* A closed socket is bound again: some attempt of the retry timer succeeds,
\* or the process ends.
EventuallyListens == []<>(open \/ ~alive)

=============================================================================
