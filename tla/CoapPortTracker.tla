--------------------------- MODULE CoapPortTracker ---------------------------
(***************************************************************************)
(* CoapPortTracker lets many UDP clients share one serial link: a CoAP     *)
(* message that leaves for the serial side (the NSC) carries its UDP port  *)
(* in its token where there is room, or else its message ID is mapped to   *)
(* the port for a while; what comes back is routed by token or by map.     *)
(*                                                                         *)
(* udpToSerial, serialToUdp and the expiry timer are the actions of the    *)
(* tracker; the NSC answers, retries and keeps silent as it likes. Each    *)
(* message in transit is an item that remembers, for the properties only,  *)
(* who it belongs to.                                                      *)
(***************************************************************************)
EXTENDS Integers, Sequences, FiniteSets

CONSTANTS
    Clients,         \* UDP ports messages come from (JAUS ports included)
    DefaultPort,     \* port of the CoAP server, for everything unmapped
    Mids,            \* message IDs in use
    Tokens,          \* tokens the clients choose
    ClientMessages,  \* the messages the clients send
    MarkerByte(_, _),\* CRC-8 of the two port bytes
    Timeout,         \* Coap::midTimeoutTime, in timer periods
    MaxLateness,     \* bound: periods by which the expiry handler runs late
    MaxInTransit     \* bound: items in transit

Byte == 0 .. 255
Port == 0 .. 65535

\* CON, NON, ACK, RST; the code is a class of codes (isRequest, isResponse,
\* isEmpty, and what is none of them)
Types == {"CON", "NON", "ACK", "RST"}
Codes == {"request", "response", "empty", "reserved"}

TokensUpTo8 == {t \in Seq(Byte) : Len(t) <= 8}

Message(tokens) == [type : Types, code : Codes, mid : Mids, token : tokens]

ASSUME PortsAssumption == Clients \subseteq Port /\ DefaultPort \in Port
ASSUME TokensAssumption == \A t \in Tokens : t \in Seq(Byte) /\ Len(t) <= 8
ASSUME MessagesAssumption == ClientMessages \subseteq Message(Tokens)
ASSUME MarkerAssumption == \A lo, hi \in Byte : MarkerByte(lo, hi) \in Byte
ASSUME TimesAssumption ==
    Timeout \in Nat \ {0} /\ MaxLateness \in Nat /\ MaxInTransit \in Nat

VARIABLES
    mids,         \* message ID -> [port, age]
    sinceExpiry,  \* periods since removeOldMids ran
    toNsc,        \* items on their way to the NSC, or kept by it
    fromNsc,      \* items on their way from the NSC
    sent          \* the datagram serialToUdp sends in this step, if any

vars == <<mids, sinceExpiry, toNsc, fromNsc, sent>>

-----------------------------------------------------------------------------
(* Tokens *)

LowByte(port)  == port % 256
HighByte(port) == (port \div 256) % 256

\* mutant: the high byte of the port is lost
Tracking_LowByteOnly(port) ==
    <<MarkerByte(LowByte(port), 0), LowByte(port), 0>>

\* the three bytes put before the client's own token
Tracking(port) ==
    <<MarkerByte(LowByte(port), HighByte(port)), LowByte(port), HighByte(port)>>

HasTracking(token) ==
    /\ Len(token) >= 3
    /\ token[1] = MarkerByte(token[2], token[3])

\* mutant: the port bytes are read in network order
TrackedPort_BigEndian(token) == 256 * token[2] + token[3]

TrackedPort(token) == token[2] + 256 * token[3]
OwnToken(token)    == SubSeq(token, 4, Len(token))

\* mutant: the limit is the eight bytes of a token, tracking bytes forgotten
HasRoom_UpTo8(m) == Len(m.token) <= 8

\* room for the tracking bytes; both callers of udpToSerial pass a buffer
\* three bytes longer than the message
HasRoom(m) == Len(m.token) < 5

AddsToken(m) == m.code = "request" /\ HasRoom(m)

TracksMid(m) ==
    \/ m.code = "request" /\ (~HasRoom(m) \/ m.type = "CON")
    \/ m.code = "response" /\ m.type = "CON"
    \/ m.code = "empty"

-----------------------------------------------------------------------------
(* Items *)

Item(m, owner, token, unmapped) ==
    [msg |-> m, owner |-> owner, token |-> token, unmapped |-> unmapped,
     age |-> 0]

\* the map no longer stands for items of other ports with this message ID
Overwritten(items, port, mid) ==
    {IF i.msg.mid = mid /\ i.owner # port
     THEN [i EXCEPT !.unmapped = TRUE] ELSE i : i \in items}

Aged(items) ==
    {[i EXCEPT !.age = IF @ < Timeout THEN @ + 1 ELSE @] : i \in items}

-----------------------------------------------------------------------------
(* The tracker *)

Init ==
    /\ mids = [mid \in {} |-> 0]
    /\ sinceExpiry = 0
    /\ toNsc = {}
    /\ fromNsc = {}
    /\ sent = {}

\* mutant: a mapping that exists is kept
trackMid_KeepsFirst(port, mid) ==
    [n \in DOMAIN mids \cup {mid} |->
        IF n \in DOMAIN mids THEN mids[n] ELSE [port |-> port, age |-> 0]]

\* a mapping that exists is replaced
trackMid(port, mid) ==
    [n \in DOMAIN mids \cup {mid} |->
        IF n = mid THEN [port |-> port, age |-> 0] ELSE mids[n]]

\* what udpToSerial makes of a message; codes of the reserved classes pass
\* unchanged and untracked
Rewritten(port, m) ==
    IF AddsToken(m) THEN [m EXCEPT !.token = Tracking(port) \o @] ELSE m

Outbound(port, m) == Item(Rewritten(port, m), port, m.token, ~TracksMid(m))

\* a message from a client, rewritten and handed to the serial port
udpToSerial(port, m) ==
    /\ Cardinality(toNsc) + Cardinality(fromNsc) < MaxInTransit
    /\ IF TracksMid(m)
       THEN /\ mids' = trackMid(port, m.mid)
            /\ toNsc' = Overwritten(toNsc, port, m.mid) \cup {Outbound(port, m)}
            /\ fromNsc' = Overwritten(fromNsc, port, m.mid)
       ELSE /\ toNsc' = toNsc \cup {Outbound(port, m)}
            /\ UNCHANGED <<mids, fromNsc>>
    /\ sent' = {}
    /\ UNCHANGED sinceExpiry

\* where the map sends a message ID
MappedPort(mid) ==
    IF mid \in DOMAIN mids THEN mids[mid].port ELSE DefaultPort

Extracts(m) == m.code = "response" /\ HasTracking(m.token)

Destination(m) ==
    IF m.code = "request" THEN DefaultPort
    ELSE IF Extracts(m) THEN TrackedPort(m.token)
    ELSE MappedPort(m.mid)

Restored(m) ==
    IF Extracts(m) THEN [m EXCEPT !.token = OwnToken(@)] ELSE m

Datagram(i) ==
    [port |-> Destination(i.msg), msg |-> Restored(i.msg), item |-> i]

\* a frame of a reserved class is refused (CoapException), the rest is sent
serialToUdp(i) ==
    /\ i \in fromNsc
    /\ fromNsc' = fromNsc \ {i}
    /\ sent' = IF i.msg.code = "reserved" THEN {}
               ELSE {Datagram(i)}
    /\ UNCHANGED <<mids, sinceExpiry, toNsc>>

\* mutant: a mapping goes one period early
removeOldMids_Early ==
    /\ sinceExpiry >= 1
    /\ mids' = [mid \in {n \in DOMAIN mids : mids[n].age + 1 < Timeout}
                    |-> mids[mid]]
    /\ sinceExpiry' = 0
    /\ sent' = {}
    /\ UNCHANGED <<toNsc, fromNsc>>

\* mutant: nothing is erased
removeOldMids_Keeps ==
    /\ sinceExpiry >= 1
    /\ sinceExpiry' = 0
    /\ sent' = {}
    /\ UNCHANGED <<mids, toNsc, fromNsc>>

\* the handler of the timer, re-armed for one period each time
removeOldMids ==
    /\ sinceExpiry >= 1
    /\ mids' = [mid \in {n \in DOMAIN mids : mids[n].age < Timeout}
                    |-> mids[mid]]
    /\ sinceExpiry' = 0
    /\ sent' = {}
    /\ UNCHANGED <<toNsc, fromNsc>>

-----------------------------------------------------------------------------
(* External: time and the NSC *)

Tick ==
    /\ sinceExpiry < 1 + MaxLateness
    /\ sinceExpiry' = sinceExpiry + 1
    /\ mids' = [mid \in DOMAIN mids |-> [mids[mid] EXCEPT !.age = @ + 1]]
    /\ toNsc' = Aged(toNsc)
    /\ fromNsc' = Aged(fromNsc)
    /\ sent' = {}

Emits(item) ==
    /\ Cardinality(toNsc) + Cardinality(fromNsc) < MaxInTransit
    /\ fromNsc' = fromNsc \cup {item}
    /\ sent' = {}
    /\ UNCHANGED <<mids, sinceExpiry>>

\* the NSC may answer an item more than once, or drop it
Keeps(i) == toNsc' \in {toNsc, toNsc \ {i}}

Response(i, type, mid) ==
    [i EXCEPT !.msg = [type |-> type, code |-> "response", mid |-> mid,
                       token |-> i.msg.token],
              !.unmapped = @ \/ mid # i.msg.mid]

Acknowledgement(i, type) ==
    [i EXCEPT !.msg = [type |-> type, code |-> "empty", mid |-> i.msg.mid,
                       token |-> <<>>]]

OwnFrame(code, mid) ==
    Item([type |-> "CON", code |-> code, mid |-> mid, token |-> <<>>],
         DefaultPort, <<>>, TRUE)

\* a response, piggybacked on the acknowledgement or separate with a message
\* ID of the NSC; it repeats the token of the request
NscResponds(i, type, mid) ==
    /\ i \in toNsc
    /\ i.msg.code = "request"
    /\ type = "ACK" => mid = i.msg.mid
    /\ Emits(Response(i, type, mid))
    /\ Keeps(i)

\* an empty ACK or RST for any message
NscAcknowledges(i, type) ==
    /\ i \in toNsc
    /\ Emits(Acknowledgement(i, type))
    /\ Keeps(i)

NscDrops(i) ==
    /\ i \in toNsc
    /\ toNsc' = toNsc \ {i}
    /\ sent' = {}
    /\ UNCHANGED <<mids, sinceExpiry, fromNsc>>

\* a request of the NSC to the server, or a frame of a reserved class
NscStarts(code, mid) ==
    /\ Emits(OwnFrame(code, mid))
    /\ UNCHANGED toNsc

-----------------------------------------------------------------------------
Next ==
    \/ \E port \in Clients, m \in ClientMessages : udpToSerial(port, m)
    \/ \E i \in fromNsc : serialToUdp(i)
    \/ removeOldMids
    \/ Tick
    \/ \E i \in toNsc, type \in {"ACK", "CON", "NON"}, mid \in Mids :
            NscResponds(i, type, mid)
    \/ \E i \in toNsc, type \in {"ACK", "RST"} : NscAcknowledges(i, type)
    \/ \E i \in toNsc : NscDrops(i)
    \/ \E code \in {"request", "reserved"}, mid \in Mids : NscStarts(code, mid)

Spec == Init /\ [][Next]_vars

-----------------------------------------------------------------------------
(* Properties *)

ItemType ==
    [msg : Message(TokensUpTo8), owner : Clients \cup {DefaultPort},
     token : Tokens \cup {<<>>}, unmapped : BOOLEAN, age : 0 .. Timeout]

MidsType ==
    /\ DOMAIN mids \subseteq Mids
    /\ mids \in [DOMAIN mids -> [port : Clients, age : Nat]]

\* Every variable has its type: a rewritten token never exceeds the eight
\* bytes setTokenLength accepts.
TypeOK ==
    /\ MidsType
    /\ sinceExpiry \in 0 .. 1 + MaxLateness
    /\ toNsc \subseteq ItemType
    /\ fromNsc \subseteq ItemType
    /\ sent \subseteq [port : Port, msg : Message(TokensUpTo8), item : ItemType]

\* A response to a request whose own token left room for tracking goes to the
\* client that asked, with the client's own token, however often its message
\* ID was reused, overwritten or expired in between (serialToUdp, token branch).
ResponsesReachClient ==
    \A d \in sent :
        d.item.msg.code = "response" /\ Len(d.item.token) < 5 =>
            d.port = d.item.owner /\ d.msg.token = d.item.token

\* Two requests with room for tracking that reach the NSC with the same token
\* are from the same client and had the same token: the NSC, which knows
\* exchanges by token, never mixes up two clients that chose equal tokens.
TokensTellClientsApart ==
    \A i, j \in toNsc :
        /\ i.msg.code = "request" /\ j.msg.code = "request"
        /\ Len(i.token) < 5 /\ Len(j.token) < 5
        /\ i.msg.token = j.msg.token
        => i.owner = j.owner /\ i.token = j.token

\* tokens of five to eight bytes leave no room, and may look like tracking by accident
LooksTracked(i) == i.msg.code = "response" /\ Len(i.token) >= 5
                   /\ HasTracking(i.token)

\* An answer goes astray only for one of the known reasons: nothing maps its
\* message ID (never mapped, or another port took it), it is midTimeoutTime
\* old, or a long token looks like tracking bytes. Any other answer reaches
\* its owner (serialToUdp, trackMid and removeOldMids together).
AstrayOnlyIfExplained ==
    \A d \in sent :
        ~d.item.unmapped /\ d.item.age < Timeout /\ ~LooksTracked(d.item) =>
            /\ d.port = d.item.owner
            /\ d.item.msg.code = "response" => d.msg.token = d.item.token

\* Whatever the NSC sends, and however stale the map is, a datagram leaves only
\* for the server or for a port that sent something, unless a long token looks
\* like tracking bytes (Destination over all branches of serialToUdp).
KnownPorts ==
    \A d \in sent : d.port \in Clients \cup {DefaultPort} \/ LooksTracked(d.item)

\* No mapping outlives midTimeoutTime by more than one period and the lateness
\* of the timer, so a reused message ID is not routed by an old one for ever.
MappingsExpire ==
    \A mid \in DOMAIN mids : mids[mid].age < Timeout + sinceExpiry

\* what the token of a request, or of its response, looks like on the wire
Carried(i) ==
    i.msg.token = IF Len(i.token) < 5 THEN Tracking(i.owner) \o i.token
                  ELSE i.token

MapsTo(i) ==
    /\ i.msg.mid \in DOMAIN mids
    /\ mids[i.msg.mid].port = i.owner
    /\ mids[i.msg.mid].age <= i.age

\* Everything in transit can be routed back: by the token as it was rewritten,
\* or by a mapping that is no older than the message itself.
Routable ==
    /\ \A i \in toNsc : i.msg.code = "request" => Carried(i)
    /\ \A i \in fromNsc : i.msg.code = "response" => Carried(i)
    /\ \A i \in fromNsc : i.msg.code = "request" => i.unmapped
    /\ \A i \in toNsc \cup fromNsc :
            ~i.unmapped /\ i.age < Timeout => MapsTo(i)

=============================================================================
