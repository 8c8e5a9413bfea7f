---------------------- MODULE CoapPortTracker_proofs ------------------------
(***************************************************************************)
(* Proofs about CoapPortTracker for every set of ports, message IDs and    *)
(* tokens, every marker function and every timeout: tracking bytes are     *)
(* taken off as they were put on, so tracked responses are never           *)
(* misrouted, and mapped answers go astray only for the known reasons.     *)
(***************************************************************************)
EXTENDS CoapPortTracker, SequenceTheorems, TLAPS

-----------------------------------------------------------------------------
(* Tracking bytes *)

\* The parts of a division by 256.
LEMMA Division ==
    ASSUME NEW n \in Nat
    PROVE  /\ n % 256 \in 0 .. 255
           /\ n \div 256 \in Nat
           /\ n = (n % 256) + 256 * (n \div 256)
  OBVIOUS

\* The ports, without the interval, which the provers would enumerate.
LEMMA PortIs == \A p : p \in Port <=> p \in Nat /\ p <= 65535
  <1> DEFINE top == 65535
  <1>1. Port = 0 .. top
    BY DEF Port
  <1>2. top \in Nat
    OBVIOUS
  <1> HIDE DEF top
  <1>3. \A p : p \in 0 .. top <=> p \in Nat /\ p <= top
    BY <1>2
  <1>4. \A p : p \in Port <=> p \in Nat /\ p <= top
    BY <1>1, <1>3, Zenon
  <1>5. QED
    BY <1>4 DEF top

\* The two port bytes are bytes and make up the port again.
LEMMA PortBytes ==
    ASSUME NEW port \in Port
    PROVE  /\ LowByte(port) \in Byte
           /\ HighByte(port) \in Byte
           /\ LowByte(port) + 256 * HighByte(port) = port
  <1>1. port \in Nat /\ port <= 65535
    BY PortIs
  <1>2. /\ port % 256 \in 0 .. 255
        /\ port \div 256 \in Nat
        /\ port = (port % 256) + 256 * (port \div 256)
    BY <1>1, Division
  <1>3. port \div 256 <= 255
    <2>1. PICK r \in 0 .. 255, q \in Nat :
            port \div 256 = q /\ port = r + 256 * q
      BY <1>2, ZenonT(40)
    <2>2. q <= 255
      BY <1>1, <2>1
    <2>3. QED
      BY <2>1, <2>2
  <1>4. (port \div 256) % 256 = port \div 256
    <2>1. \A q \in Nat : q <= 255 => q % 256 = q
      OBVIOUS
    <2>2. QED
      BY <1>2, <1>3, <2>1, Zenon
  <1>5. QED
    BY <1>2, <1>3, <1>4 DEF LowByte, HighByte, Byte

\* What serialToUdp takes off is what udpToSerial put on.
LEMMA TrackingRoundTrip ==
    ASSUME NEW port \in Port, NEW token \in Seq(Byte)
    PROVE  LET wire == Tracking(port) \o token
           IN  /\ wire \in Seq(Byte)
               /\ Len(wire) = Len(token) + 3
               /\ HasTracking(wire)
               /\ TrackedPort(wire) = port
               /\ OwnToken(wire) = token
  <1> DEFINE three == Tracking(port)
             wire == three \o token
  <1>1. /\ three \in Seq(Byte)
        /\ Len(three) = 3
        /\ three[1] = MarkerByte(three[2], three[3])
        /\ three[2] = LowByte(port)
        /\ three[3] = HighByte(port)
    BY PortBytes, MarkerAssumption DEF Tracking
  <1> HIDE DEF three
  <1>2. /\ wire \in Seq(Byte)
        /\ Len(wire) = Len(token) + 3
        /\ \A i \in 1 .. 3 + Len(token) :
            wire[i] = IF i <= 3 THEN three[i] ELSE token[i - 3]
    <2>1. /\ three \o token \in Seq(Byte)
          /\ Len(three \o token) = Len(three) + Len(token)
          /\ \A i \in 1 .. Len(three) + Len(token) : (three \o token)[i] =
                IF i <= Len(three) THEN three[i] ELSE token[i - Len(three)]
      BY <1>1, ConcatProperties, ZenonT(30)
    <2>2. Len(token) \in Nat
      OBVIOUS
    <2> QED
      BY <1>1, <2>1, <2>2
  <1>3. Len(token) \in Nat
    OBVIOUS
  <1>4. wire[1] = three[1] /\ wire[2] = three[2] /\ wire[3] = three[3]
    BY <1>2, <1>3
  <1>5. HasTracking(wire) /\ TrackedPort(wire) = port
    BY <1>1, <1>2, <1>3, <1>4, PortBytes DEF HasTracking, TrackedPort
  <1>6. OwnToken(wire) = token
    <2>1. CASE token = <<>>
      <3>1. Len(wire) = 3
        BY <1>2, <2>1
      <3>2. SubSeq(wire, 4, 3) = <<>>
        BY SubSeqEmpty
      <3>3. QED
        BY <2>1, <3>1, <3>2 DEF OwnToken
    <2>2. CASE token # <<>>
      <3>1. Len(token) >= 1
        BY <2>2
      <3>2. SubSeq(wire, 4, Len(token) + 3) = SubSeq(token, 1, Len(token))
        <4>1. PICK n \in Nat : n = Len(token) /\ n >= 1
          BY <1>3, <3>1
        <4>2. /\ 4 \in Len(three) + 1 .. Len(three) + Len(token)
              /\ n + 3 \in Len(three) + 1 .. Len(three) + Len(token)
          BY <1>1, <4>1
        <4>3. SubSeq(three \o token, 4, n + 3)
                = SubSeq(token, 4 - Len(three), n + 3 - Len(three))
          <5>1. \A m, k \in Len(three) + 1 .. Len(three) + Len(token) :
                    SubSeq(three \o token, m, k)
                      = SubSeq(token, m - Len(three), k - Len(three))
            BY <1>1, SubSeqOfConcat2, Zenon
          <5>2. QED
            BY <4>2, <5>1, SMT
        <4>4. 4 - Len(three) = 1 /\ n + 3 - Len(three) = n
          BY <1>1
        <4>5. QED
          BY <4>1, <4>3, <4>4
      <3>3. QED
        BY <1>2, <3>2, SubSeqFull DEF OwnToken
    <2>3. QED
      BY <2>1, <2>2
  <1>7. QED
    BY <1>2, <1>5, <1>6 DEF three

\* Different ports or tokens never give the same bytes.
LEMMA TrackingInjective ==
    ASSUME NEW p \in Port, NEW q \in Port,
           NEW s \in Seq(Byte), NEW t \in Seq(Byte),
           Tracking(p) \o s = Tracking(q) \o t
    PROVE  p = q /\ s = t
  BY TrackingRoundTrip, Zenon

\* Taking tracking bytes off a legal token leaves a legal token and a port.
LEMMA OwnTokenType ==
    ASSUME NEW token \in TokensUpTo8, HasTracking(token)
    PROVE  OwnToken(token) \in TokensUpTo8 /\ TrackedPort(token) \in Port
  <1>1. /\ token \in Seq(Byte) /\ Len(token) \in Nat
        /\ Len(token) >= 3 /\ Len(token) <= 8
    <2>1. token \in Seq(Byte) /\ Len(token) <= 8
      BY DEF TokensUpTo8
    <2>2. Len(token) \in Nat
      BY <2>1
    <2>3. Len(token) >= 3
      BY DEF HasTracking
    <2>4. QED
      BY <2>1, <2>2, <2>3
  <1>2. token[2] \in Byte /\ token[3] \in Byte
    BY <1>1
  <1>3. TrackedPort(token) \in Port
    <2>1. PICK lo \in 0 .. 255, hi \in 0 .. 255 :
            token[2] = lo /\ token[3] = hi
      BY <1>2 DEF Byte
    <2>2. lo + 256 * hi \in Port
      BY PortIs
    <2>3. TrackedPort(token) = lo + 256 * hi
      BY <2>1 DEF TrackedPort
    <2>4. QED
      BY <2>2, <2>3, Zenon
  <1>4. \A i \in 4 .. Len(token) : token[i] \in Byte
    BY <1>1
  <1>5. /\ SubSeq(token, 4, Len(token)) \in Seq(Byte)
        /\ Len(SubSeq(token, 4, Len(token)))
             = IF 4 <= Len(token) THEN Len(token) - 4 + 1 ELSE 0
    <2>1. Len(token) \in Int
      BY <1>1
    <2>2. QED
      BY <1>4, <2>1, SubSeqProperties
  <1>6. OwnToken(token) \in TokensUpTo8
    BY <1>1, <1>5 DEF OwnToken, TokensUpTo8
  <1>7. QED
    BY <1>3, <1>6

-----------------------------------------------------------------------------
(* Items in transit keep their type *)

\* Fields of an item, and of its message.
LEMMA ItemFields ==
    ASSUME NEW i \in ItemType
    PROVE  /\ i.msg \in Message(TokensUpTo8)
           /\ i.msg.mid \in Mids
           /\ i.msg.code \in Codes
           /\ i.msg.token \in TokensUpTo8
           /\ i.token \in TokensUpTo8
           /\ i.token \in Seq(Byte)
           /\ i.owner \in Port
           /\ i.age \in Nat
  <1>1. /\ i.msg \in Message(TokensUpTo8)
        /\ i.owner \in Clients \cup {DefaultPort}
        /\ i.token \in Tokens \cup {<<>>}
        /\ i.age \in 0 .. Timeout
    BY DEF ItemType
  <1>2. <<>> \in Seq(Byte) /\ Len(<<>>) <= 8
    OBVIOUS
  <1>3. i.token \in Seq(Byte) /\ Len(i.token) <= 8
    <2>1. CASE i.token \in Tokens
      BY <2>1, TokensAssumption
    <2>2. CASE i.token = <<>>
      BY <2>2, <1>2
    <2>3. QED
      BY <1>1, <2>1, <2>2
  <1>4. i.age \in Nat
    BY <1>1, TimesAssumption
  <1>5. i.owner \in Port
    BY <1>1, PortsAssumption
  <1>6. QED
    BY <1>1, <1>3, <1>4, <1>5 DEF Message, TokensUpTo8

\* What a client sends leaves as a legal message, carried by its token.
LEMMA Outgoing ==
    ASSUME NEW port \in Clients, NEW m \in ClientMessages
    PROVE  /\ Outbound(port, m) \in ItemType
           /\ Outbound(port, m).msg.mid = m.mid
           /\ m.mid \in Mids
           /\ Outbound(port, m).msg.code = m.code
           /\ m.code = "request" => Carried(Outbound(port, m))
  <1>1. /\ m \in Message(Tokens)
        /\ m.token \in Tokens
        /\ m.mid \in Mids
    BY MessagesAssumption DEF Message
  <1>2. m.token \in Seq(Byte) /\ Len(m.token) <= 8 /\ port \in Port
    BY <1>1, TokensAssumption, PortsAssumption
  <1>3. /\ Tracking(port) \o m.token \in Seq(Byte)
        /\ Len(Tracking(port) \o m.token) = Len(m.token) + 3
    BY <1>2, TrackingRoundTrip, Zenon
  <1>4. /\ Rewritten(port, m) \in Message(TokensUpTo8)
        /\ Rewritten(port, m).mid = m.mid
        /\ Rewritten(port, m).code = m.code
        /\ m.code = "request" =>
            Rewritten(port, m).token = IF Len(m.token) < 5
                                       THEN Tracking(port) \o m.token
                                       ELSE m.token
    <2>1. CASE AddsToken(m)
      <3>1. Len(m.token) \in Nat /\ Len(m.token) < 5
        BY <1>2, <2>1 DEF AddsToken, HasRoom
      <3>2. Tracking(port) \o m.token \in TokensUpTo8
        BY <1>3, <3>1 DEF TokensUpTo8
      <3>3. Rewritten(port, m) = [m EXCEPT !.token = Tracking(port) \o m.token]
        BY <2>1 DEF Rewritten
      <3>4. QED
        BY <1>1, <3>1, <3>2, <3>3 DEF Message
    <2>2. CASE ~AddsToken(m)
      <3>1. m.token \in TokensUpTo8
        BY <1>2 DEF TokensUpTo8
      <3>2. Rewritten(port, m) = m
        BY <2>2 DEF Rewritten
      <3>3. QED
        BY <1>1, <2>2, <3>1, <3>2 DEF Message, AddsToken, HasRoom
    <2>3. QED
      BY <2>1, <2>2
  <1>5. TracksMid(m) \in BOOLEAN
    BY DEF TracksMid
  <1>6. 0 \in 0 .. Timeout
    BY TimesAssumption
  <1>7. QED
    BY <1>1, <1>4, <1>5, <1>6 DEF Outbound, Item, ItemType, Carried

\* What the NSC sends is legal.
LEMMA Incoming ==
    ASSUME NEW i \in ItemType, NEW type \in Types, NEW mid \in Mids
    PROVE  /\ Response(i, type, mid) \in ItemType
           /\ Acknowledgement(i, type) \in ItemType
  <1>1. <<>> \in TokensUpTo8
    <2>1. <<>> \in Seq(Byte) /\ Len(<<>>) <= 8
      OBVIOUS
    <2>2. QED
      BY <2>1 DEF TokensUpTo8
  <1>2. i.msg.token \in TokensUpTo8 /\ i.msg.mid \in Mids
    BY ItemFields
  <1>3. i.unmapped \in BOOLEAN
    BY DEF ItemType
  <1>4. Response(i, type, mid) \in ItemType
    BY <1>2, <1>3 DEF Response, ItemType, Message, Codes
  <1>5. Acknowledgement(i, type) \in ItemType
    BY <1>1, <1>2 DEF Acknowledgement, ItemType, Message, Codes
  <1>6. QED
    BY <1>4, <1>5

LEMMA ItemsAge ==
    ASSUME NEW items, items \subseteq ItemType
    PROVE  /\ Aged(items) \subseteq ItemType
           /\ \A i \in Aged(items) : \E j \in items :
                /\ i.msg = j.msg /\ i.owner = j.owner /\ i.token = j.token
                /\ i.unmapped = j.unmapped
                /\ i.age < Timeout => j.age < Timeout /\ i.age = j.age + 1
  <1> SUFFICES ASSUME NEW j \in items
      PROVE  LET i == [j EXCEPT !.age = IF @ < Timeout THEN @ + 1 ELSE @]
             IN  /\ i \in ItemType
                 /\ i.msg = j.msg /\ i.owner = j.owner /\ i.token = j.token
                 /\ i.unmapped = j.unmapped
                 /\ i.age < Timeout => j.age < Timeout /\ i.age = j.age + 1
    BY ZenonT(40) DEF Aged
  <1>1. j \in ItemType /\ j.age \in 0 .. Timeout
    BY DEF ItemType
  <1>2. QED
    BY <1>1, TimesAssumption DEF ItemType

LEMMA ItemsOverwritten ==
    ASSUME NEW items, items \subseteq ItemType, NEW port, NEW mid
    PROVE  /\ Overwritten(items, port, mid) \subseteq ItemType
           /\ \A i \in Overwritten(items, port, mid) : \E j \in items :
                /\ i.msg = j.msg /\ i.owner = j.owner /\ i.token = j.token
                /\ i.age = j.age
                /\ j.unmapped => i.unmapped
                /\ i.msg.mid = mid /\ i.owner # port => i.unmapped
  <1> SUFFICES ASSUME NEW j \in items
      PROVE  LET i == IF j.msg.mid = mid /\ j.owner # port
                      THEN [j EXCEPT !.unmapped = TRUE] ELSE j
             IN  /\ i \in ItemType
                 /\ i.msg = j.msg /\ i.owner = j.owner /\ i.token = j.token
                 /\ i.age = j.age
                 /\ j.unmapped => i.unmapped
                 /\ i.msg.mid = mid /\ i.owner # port => i.unmapped
    BY Zenon DEF Overwritten
  <1>1. j \in ItemType
    OBVIOUS
  <1>2. QED
    BY <1>1 DEF ItemType

-----------------------------------------------------------------------------
(* Type correctness *)

\* A datagram of serialToUdp has a port and a legal token.
LEMMA DatagramType ==
    ASSUME MidsType, NEW i \in ItemType
    PROVE  Datagram(i) \in [port : Port, msg : Message(TokensUpTo8),
                            item : ItemType]
  <1>1. i.msg \in Message(TokensUpTo8) /\ i.msg.token \in TokensUpTo8
    BY ItemFields
  <1>2. MappedPort(i.msg.mid) \in Port
    <2>1. \A mid \in DOMAIN mids : mids[mid].port \in Clients
      BY DEF MidsType
    <2>2. QED
      BY <2>1, PortsAssumption DEF MappedPort
  <1>3. Extracts(i.msg) =>
          OwnToken(i.msg.token) \in TokensUpTo8 /\ TrackedPort(i.msg.token) \in Port
    BY <1>1, OwnTokenType DEF Extracts
  <1>4. Destination(i.msg) \in Port
    BY <1>2, <1>3, PortsAssumption DEF Destination
  <1>5. Restored(i.msg) \in Message(TokensUpTo8)
    BY <1>1, <1>3 DEF Restored, Message
  <1>6. QED
    BY <1>4, <1>5 DEF Datagram

LEMMA TypeInit == Init => TypeOK
  <1>1. ASSUME Init PROVE MidsType
    BY <1>1 DEF Init, MidsType
  <1>2. QED
    BY <1>1, TimesAssumption DEF Init, TypeOK

LEMMA TypeStep ==
    ASSUME TypeOK, [Next]_vars
    PROVE  TypeOK'
  <1> USE DEF TypeOK
  <1>1. ASSUME NEW port \in Clients, NEW m \in ClientMessages,
               udpToSerial(port, m)
        PROVE  TypeOK'
    <2>1. Outbound(port, m) \in ItemType /\ m.mid \in Mids
      BY Outgoing
    <2>2. /\ Overwritten(toNsc, port, m.mid) \subseteq ItemType
          /\ Overwritten(fromNsc, port, m.mid) \subseteq ItemType
      BY ItemsOverwritten
    <2>3. MidsType'
      BY <1>1, <2>1 DEF udpToSerial, trackMid, MidsType
    <2>4. toNsc' \subseteq ItemType /\ fromNsc' \subseteq ItemType
      BY <1>1, <2>1, <2>2 DEF udpToSerial
    <2>5. QED
      BY <1>1, <2>3, <2>4 DEF udpToSerial
  <1>2. ASSUME NEW i \in fromNsc, serialToUdp(i)
        PROVE  TypeOK'
    <2>1. i \in ItemType
      OBVIOUS
    <2>2. Datagram(i) \in [port : Port, msg : Message(TokensUpTo8),
                           item : ItemType]
      BY <2>1, DatagramType
    <2>3. sent' \subseteq [port : Port, msg : Message(TokensUpTo8),
                          item : ItemType]
      BY <1>2, <2>2 DEF serialToUdp
    <2>4. MidsType'
      BY <1>2 DEF serialToUdp, MidsType
    <2>5. QED
      BY <1>2, <2>3, <2>4 DEF serialToUdp
  <1>3. CASE removeOldMids
    <2>1. MidsType'
      BY <1>3 DEF removeOldMids, MidsType
    <2>2. QED
      BY <1>3, <2>1, TimesAssumption DEF removeOldMids
  <1>4. CASE Tick
    <2>1. Aged(toNsc) \subseteq ItemType /\ Aged(fromNsc) \subseteq ItemType
      BY ItemsAge
    <2>2. MidsType'
      BY <1>4 DEF Tick, MidsType
    <2>3. sinceExpiry' \in 0 .. 1 + MaxLateness
      BY <1>4, TimesAssumption DEF Tick
    <2>4. QED
      BY <1>4, <2>1, <2>2, <2>3 DEF Tick
  <1>5. ASSUME NEW i \in toNsc, NEW type \in {"ACK", "CON", "NON"},
               NEW mid \in Mids, NscResponds(i, type, mid)
        PROVE  TypeOK'
    <2>1. Response(i, type, mid) \in ItemType
      BY Incoming DEF Types, Codes
    <2>2. QED
      BY <1>5, <2>1 DEF NscResponds, Emits, Keeps, MidsType
  <1>6. ASSUME NEW i \in toNsc, NEW type \in {"ACK", "RST"},
               NscAcknowledges(i, type)
        PROVE  TypeOK'
    <2>1. i.msg.mid \in Mids
      BY ItemFields
    <2>2. Acknowledgement(i, type) \in ItemType
      BY <2>1, Incoming DEF Types, Codes
    <2>3. QED
      BY <1>6, <2>2 DEF NscAcknowledges, Emits, Keeps, MidsType
  <1>7. ASSUME NEW i \in toNsc, NscDrops(i)
        PROVE  TypeOK'
    BY <1>7 DEF NscDrops, MidsType
  <1>8. ASSUME NEW code \in {"request", "reserved"}, NEW mid \in Mids,
               NscStarts(code, mid)
        PROVE  TypeOK'
    <2>1. OwnFrame(code, mid) \in ItemType
      <3>1. <<>> \in TokensUpTo8
        <4>1. <<>> \in Seq(Byte) /\ Len(<<>>) <= 8
          OBVIOUS
        <4>2. QED
          BY <4>1 DEF TokensUpTo8
      <3>2. QED
        BY <3>1, TimesAssumption
           DEF OwnFrame, Item, ItemType, Message, Types, Codes
    <2>2. QED
      BY <1>8, <2>1 DEF NscStarts, Emits, MidsType
  <1>9. CASE UNCHANGED vars
    BY <1>9 DEF vars, MidsType
  <1>10. QED
    BY <1>1, <1>2, <1>3, <1>4, <1>5, <1>6, <1>7, <1>8, <1>9 DEF Next

\* Every variable keeps its type, and no rewritten token exceeds eight bytes.
THEOREM TypeCorrect == Spec => []TypeOK
  <1>1. Init => TypeOK
    BY TypeInit
  <1>2. TypeOK /\ [Next]_vars => TypeOK'
    BY TypeStep
  <1>3. QED
    BY <1>1, <1>2, PTL DEF Spec

-----------------------------------------------------------------------------
(* Everything in transit can be routed back *)

LEMMA RoutableInit == Init => Routable
  BY DEF Init, Routable

\* A new mapping of a message ID serves the item of its port and marks the
\* items of other ports.
LEMMA RoutableUdpToSerial ==
    ASSUME TypeOK, Routable, NEW port \in Clients, NEW m \in ClientMessages,
           udpToSerial(port, m)
    PROVE  Routable'
  <1> USE DEF TypeOK
  <1> DEFINE new == Outbound(port, m)
  <1>1. /\ new \in ItemType /\ new.msg.mid = m.mid /\ m.mid \in Mids
        /\ new.msg.code = m.code
        /\ m.code = "request" => Carried(new)
    BY Outgoing
  <1>2. new.unmapped = ~TracksMid(m) /\ new.owner = port /\ new.age = 0
    BY DEF Outbound, Item
  <1> HIDE DEF new
  <1>3. CASE TracksMid(m)
    <2>1. /\ mids' = trackMid(port, m.mid)
          /\ toNsc' = Overwritten(toNsc, port, m.mid) \cup {new}
          /\ fromNsc' = Overwritten(fromNsc, port, m.mid)
      BY <1>3 DEF udpToSerial, new
    <2>2. \A i \in toNsc' : i = new \/ \E j \in toNsc :
            /\ i.msg = j.msg /\ i.owner = j.owner /\ i.token = j.token
            /\ i.age = j.age
            /\ j.unmapped => i.unmapped
            /\ i.msg.mid = m.mid /\ i.owner # port => i.unmapped
      BY <2>1, ItemsOverwritten
    <2>3. \A i \in fromNsc' : \E j \in fromNsc :
            /\ i.msg = j.msg /\ i.owner = j.owner /\ i.token = j.token
            /\ i.age = j.age
            /\ j.unmapped => i.unmapped
            /\ i.msg.mid = m.mid /\ i.owner # port => i.unmapped
      BY <2>1, ItemsOverwritten
    <2>4. ASSUME NEW i \in toNsc', i.msg.code = "request"
          PROVE  Carried(i)
      <3>1. CASE i = new
        BY <1>1, <2>4, <3>1
      <3>2. CASE i # new
        BY <2>2, <2>4, <3>2 DEF Routable, Carried
      <3>3. QED
        BY <3>1, <3>2
    <2>5. \A i \in fromNsc' : i.msg.code = "response" => Carried(i)
      BY <2>3 DEF Routable, Carried
    <2>6. \A i \in fromNsc' : i.msg.code = "request" => i.unmapped
      BY <2>3 DEF Routable
    <2>7. /\ mids'[m.mid] = [port |-> port, age |-> 0]
          /\ m.mid \in DOMAIN mids'
          /\ \A n \in DOMAIN mids : n \in DOMAIN mids' /\
                (n # m.mid => mids'[n] = mids[n])
      BY <2>1 DEF trackMid
    <2>8. ASSUME NEW i \in toNsc' \cup fromNsc', ~i.unmapped, i.age < Timeout
          PROVE  MapsTo(i)'
      <3>1. CASE i = new
        BY <1>1, <1>2, <2>7, <3>1 DEF MapsTo
      <3>2. CASE i # new
        <4>1. PICK j \in toNsc \cup fromNsc :
                /\ i.msg = j.msg /\ i.owner = j.owner /\ i.age = j.age
                /\ j.unmapped => i.unmapped
                /\ i.msg.mid = m.mid /\ i.owner # port => i.unmapped
          BY <2>2, <2>3, <3>2
        <4>2. j.age \in Nat
          BY ItemFields
        <4>3. MapsTo(j)
          BY <2>8, <4>1 DEF Routable
        <4>4. CASE i.msg.mid = m.mid
          BY <2>7, <2>8, <4>1, <4>2, <4>4 DEF MapsTo
        <4>5. CASE i.msg.mid # m.mid
          BY <2>7, <4>1, <4>3, <4>5 DEF MapsTo
        <4>6. QED
          BY <4>4, <4>5
      <3>3. QED
        BY <3>1, <3>2
    <2>9. QED
      BY <2>4, <2>5, <2>6, <2>8 DEF Routable, Carried, MapsTo
  <1>4. CASE ~TracksMid(m)
    <2>1. /\ toNsc' = toNsc \cup {new} /\ fromNsc' = fromNsc /\ mids' = mids
      BY <1>4 DEF udpToSerial, new
    <2>2. \A i \in toNsc' : i.msg.code = "request" => Carried(i)
      BY <1>1, <2>1 DEF Routable
    <2>3. \A i \in toNsc' \cup fromNsc' :
            ~i.unmapped /\ i.age < Timeout => MapsTo(i)
      BY <1>2, <1>4, <2>1 DEF Routable
    <2>4. QED
      BY <2>1, <2>2, <2>3 DEF Routable, Carried, MapsTo
  <1>5. QED
    BY <1>3, <1>4

\* What leaves fromNsc was routable, and the rest still is.
LEMMA RoutableFewer ==
    ASSUME Routable, toNsc' \subseteq toNsc, fromNsc' \subseteq fromNsc,
           mids' = mids
    PROVE  Routable'
  BY DEF Routable, Carried, MapsTo

\* Only mappings older than any claim on them are erased.
LEMMA RoutableExpiry ==
    ASSUME TypeOK, Routable, removeOldMids
    PROVE  Routable'
  <1>1. toNsc' = toNsc /\ fromNsc' = fromNsc
    BY DEF removeOldMids
  <1>2. ASSUME NEW i \in toNsc \cup fromNsc, ~i.unmapped, i.age < Timeout
        PROVE  MapsTo(i)'
    <2>1. MapsTo(i)
      BY <1>2 DEF Routable
    <2>2. i.age \in Nat /\ Timeout \in Nat
      BY ItemFields, TimesAssumption DEF TypeOK
    <2>3. mids[i.msg.mid].age \in Nat
      BY <2>1 DEF MapsTo, TypeOK, MidsType
    <2>4. mids[i.msg.mid].age < Timeout
      BY <1>2, <2>1, <2>2, <2>3 DEF MapsTo
    <2>5. QED
      BY <2>1, <2>4 DEF removeOldMids, MapsTo
  <1>3. QED
    BY <1>1, <1>2 DEF Routable, Carried, MapsTo

\* Items and mappings grow old together.
LEMMA RoutableTick ==
    ASSUME TypeOK, Routable, Tick
    PROVE  Routable'
  <1>1. \A i \in toNsc' : \E j \in toNsc :
            /\ i.msg = j.msg /\ i.owner = j.owner /\ i.token = j.token
            /\ i.unmapped = j.unmapped
            /\ i.age < Timeout => j.age < Timeout /\ i.age = j.age + 1
    BY ItemsAge DEF Tick, TypeOK
  <1>2. \A i \in fromNsc' : \E j \in fromNsc :
            /\ i.msg = j.msg /\ i.owner = j.owner /\ i.token = j.token
            /\ i.unmapped = j.unmapped
            /\ i.age < Timeout => j.age < Timeout /\ i.age = j.age + 1
    BY ItemsAge DEF Tick, TypeOK
  <1>3. \A i \in toNsc' : i.msg.code = "request" => Carried(i)
    BY <1>1 DEF Routable, Carried
  <1>4. /\ \A i \in fromNsc' : i.msg.code = "response" => Carried(i)
        /\ \A i \in fromNsc' : i.msg.code = "request" => i.unmapped
    BY <1>2 DEF Routable, Carried
  <1>5. ASSUME NEW i \in toNsc' \cup fromNsc', ~i.unmapped, i.age < Timeout
        PROVE  MapsTo(i)'
    <2>1. PICK j \in toNsc \cup fromNsc :
            /\ i.msg = j.msg /\ i.owner = j.owner
            /\ i.unmapped = j.unmapped
            /\ j.age < Timeout /\ i.age = j.age + 1
      BY <1>1, <1>2, <1>5
    <2>2. MapsTo(j)
      BY <1>5, <2>1 DEF Routable
    <2>3. /\ j.msg.mid \in DOMAIN mids
          /\ mids[j.msg.mid] \in [port : Clients, age : Nat]
          /\ j.age \in Nat
      BY <2>2, ItemFields DEF MapsTo, TypeOK, MidsType
    <2>4. /\ DOMAIN mids' = DOMAIN mids
          /\ mids'[j.msg.mid] = [mids[j.msg.mid] EXCEPT !.age = @ + 1]
      BY <2>3 DEF Tick
    <2>5. QED
      BY <2>1, <2>2, <2>3, <2>4 DEF MapsTo
  <1>6. QED
    BY <1>3, <1>4, <1>5 DEF Routable, Carried, MapsTo

\* An answer is routable like the item it answers.
LEMMA RoutableAnswer ==
    ASSUME TypeOK, Routable, NEW i \in toNsc, NEW answer,
           answer.msg.code \in {"response", "empty"},
           answer.owner = i.owner, answer.token = i.token, answer.age = i.age,
           answer.msg.code = "response" =>
               i.msg.code = "request" /\ answer.msg.token = i.msg.token,
           ~answer.unmapped => ~i.unmapped /\ answer.msg.mid = i.msg.mid,
           Emits(answer), Keeps(i)
    PROVE  Routable'
  <1>1. /\ toNsc' \subseteq toNsc /\ fromNsc' = fromNsc \cup {answer}
        /\ mids' = mids
    BY DEF Emits, Keeps
  <1>2. answer.msg.code = "response" => Carried(answer)
    BY DEF Routable, Carried
  <1>3. ~answer.unmapped /\ answer.age < Timeout => MapsTo(answer)
    BY DEF Routable, MapsTo
  <1>4. QED
    BY <1>1, <1>2, <1>3 DEF Routable, Carried, MapsTo

LEMMA RoutableStep ==
    ASSUME TypeOK, Routable, [Next]_vars
    PROVE  Routable'
  <1>1. ASSUME NEW port \in Clients, NEW m \in ClientMessages,
               udpToSerial(port, m)
        PROVE  Routable'
    BY <1>1, RoutableUdpToSerial
  <1>2. ASSUME NEW i \in fromNsc, serialToUdp(i)
        PROVE  Routable'
    BY <1>2, RoutableFewer DEF serialToUdp
  <1>3. CASE removeOldMids
    BY <1>3, RoutableExpiry
  <1>4. CASE Tick
    BY <1>4, RoutableTick
  <1>5. ASSUME NEW i \in toNsc, NEW type \in {"ACK", "CON", "NON"},
               NEW mid \in Mids, NscResponds(i, type, mid)
        PROVE  Routable'
    <2>1. i \in ItemType
      BY DEF TypeOK
    <2> DEFINE r == Response(i, type, mid)
    <2>2. /\ r.msg.code = "response" /\ r.msg.token = i.msg.token
          /\ r.msg.mid = mid
          /\ r.owner = i.owner /\ r.token = i.token /\ r.age = i.age
          /\ ~r.unmapped => ~i.unmapped /\ mid = i.msg.mid
      BY <2>1 DEF Response, ItemType
    <2>3. i.msg.code = "request" /\ Emits(r) /\ Keeps(i)
      BY <1>5 DEF NscResponds
    <2> HIDE DEF r
    <2>4. QED
      BY <2>2, <2>3, RoutableAnswer
  <1>6. ASSUME NEW i \in toNsc, NEW type \in {"ACK", "RST"},
               NscAcknowledges(i, type)
        PROVE  Routable'
    <2>1. i \in ItemType
      BY DEF TypeOK
    <2>2. LET a == Acknowledgement(i, type)
          IN  /\ a.msg.code = "empty" /\ a.msg.mid = i.msg.mid
              /\ a.owner = i.owner /\ a.token = i.token /\ a.age = i.age
              /\ a.unmapped = i.unmapped
      BY <2>1 DEF Acknowledgement, ItemType
    <2>3. QED
      BY <1>6, <2>2, RoutableAnswer DEF NscAcknowledges
  <1>7. ASSUME NEW i \in toNsc, NscDrops(i)
        PROVE  Routable'
    BY <1>7, RoutableFewer DEF NscDrops
  <1>8. ASSUME NEW code \in {"request", "reserved"}, NEW mid \in Mids,
               NscStarts(code, mid)
        PROVE  Routable'
    <2>1. /\ toNsc' = toNsc /\ mids' = mids
          /\ fromNsc' = fromNsc \cup {OwnFrame(code, mid)}
      BY <1>8 DEF NscStarts, Emits
    <2>2. /\ OwnFrame(code, mid).msg.code = code
          /\ OwnFrame(code, mid).unmapped
      BY DEF OwnFrame, Item
    <2>3. QED
      BY <2>1, <2>2 DEF Routable, Carried, MapsTo
  <1>9. CASE UNCHANGED vars
    BY <1>9, RoutableFewer DEF vars
  <1>10. QED
    BY <1>1, <1>2, <1>3, <1>4, <1>5, <1>6, <1>7, <1>8, <1>9 DEF Next

\* Everything in transit can be routed back, whatever the clients and the NSC
\* do: the inductive invariant of the tracker.
THEOREM AlwaysRoutable == Spec => []Routable
  <1>1. Init => TypeOK /\ Routable
    BY TypeInit, RoutableInit
  <1>2. TypeOK /\ Routable /\ [Next]_vars => TypeOK' /\ Routable'
    BY TypeStep, RoutableStep
  <1>3. QED
    BY <1>1, <1>2, PTL DEF Spec

-----------------------------------------------------------------------------
(* Where answers go *)

\* A tracked response is routed by its token alone.
LEMMA TrackedResponse ==
    ASSUME NEW i \in ItemType, i.msg.code = "response", Carried(i),
           Len(i.token) < 5
    PROVE  /\ Datagram(i).port = i.owner
           /\ Datagram(i).msg.token = i.token
           /\ Datagram(i).item = i
  <1>1. /\ i.msg.token = Tracking(i.owner) \o i.token
        /\ i.owner \in Port /\ i.token \in Seq(Byte)
    BY ItemFields DEF Carried
  <1>2. /\ HasTracking(i.msg.token)
        /\ TrackedPort(i.msg.token) = i.owner
        /\ OwnToken(i.msg.token) = i.token
    BY <1>1, TrackingRoundTrip
  <1>3. i.msg \in Message(TokensUpTo8)
    BY ItemFields
  <1>4. QED
    BY <1>2, <1>3 DEF Datagram, Destination, Restored, Extracts, Message

\* Without a tracked token the mapping decides.
LEMMA MappedAnswer ==
    ASSUME NEW i \in ItemType, i.msg.code \in {"response", "empty"}, MapsTo(i),
           i.msg.code = "response" =>
               i.msg.token = i.token /\ ~HasTracking(i.msg.token)
    PROVE  /\ Datagram(i).port = i.owner
           /\ i.msg.code = "response" => Datagram(i).msg.token = i.token
           /\ Datagram(i).item = i
  BY DEF Datagram, Destination, Restored, Extracts, MappedPort, MapsTo

\* Every step sends nothing, leaves what was sent, or sends one datagram.
LEMMA SentShapes ==
    ASSUME [Next]_vars
    PROVE  \/ sent' = {} \/ sent' = sent
           \/ \E i \in fromNsc :
                i.msg.code # "reserved" /\ sent' = {Datagram(i)}
  BY DEF Next, udpToSerial, serialToUdp, removeOldMids, Tick, NscResponds,
         NscAcknowledges, NscDrops, NscStarts, Emits, vars

LEMMA SentStep ==
    ASSUME TypeOK, Routable, [Next]_vars, ResponsesReachClient,
           AstrayOnlyIfExplained
    PROVE  ResponsesReachClient' /\ AstrayOnlyIfExplained'
  <1>1. CASE sent' = {}
    BY <1>1 DEF ResponsesReachClient, AstrayOnlyIfExplained
  <1>2. CASE sent' = sent
    BY <1>2 DEF ResponsesReachClient, AstrayOnlyIfExplained, LooksTracked
  <1>3. ASSUME NEW i \in fromNsc, i.msg.code # "reserved",
               sent' = {Datagram(i)}
        PROVE  ResponsesReachClient' /\ AstrayOnlyIfExplained'
    <2>1. i \in ItemType /\ Datagram(i).item = i
      BY DEF TypeOK, Datagram
    <2>2. i.msg.code \in Codes /\ i.token \in Seq(Byte)
      BY <2>1, ItemFields
    <2>3. ResponsesReachClient'
      BY <1>3, <2>1, TrackedResponse DEF ResponsesReachClient, Routable
    <2>4. ASSUME ~i.unmapped, i.age < Timeout, ~LooksTracked(i)
          PROVE  /\ Datagram(i).port = i.owner
                 /\ i.msg.code = "response" => Datagram(i).msg.token = i.token
      <3>1. MapsTo(i) /\ i.msg.code \in {"response", "empty"}
        BY <1>3, <2>2, <2>4 DEF Routable, Codes
      <3>2. CASE i.msg.code = "response" /\ Len(i.token) < 5
        BY <2>1, <3>2, TrackedResponse DEF Routable
      <3>3. CASE i.msg.code = "response" /\ ~(Len(i.token) < 5)
        <4>1. i.msg.token = i.token
          BY <3>3 DEF Routable, Carried
        <4>2. Len(i.token) \in Nat
          BY <2>2
        <4>3. ~HasTracking(i.token)
          BY <2>4, <3>3, <4>2 DEF LooksTracked
        <4>4. QED
          BY <2>1, <3>1, <4>1, <4>3, MappedAnswer
      <3>4. CASE i.msg.code = "empty"
        BY <2>1, <3>1, <3>4, MappedAnswer
      <3>5. QED
        BY <3>1, <3>2, <3>3, <3>4
    <2>5. AstrayOnlyIfExplained'
      BY <1>3, <2>1, <2>4 DEF AstrayOnlyIfExplained, LooksTracked
    <2>6. QED
      BY <2>3, <2>5
  <1>4. QED
    BY <1>1, <1>2, <1>3, SentShapes

LEMMA SentInv ==
    Spec => [](TypeOK /\ Routable /\ ResponsesReachClient
               /\ AstrayOnlyIfExplained)
  <1>1. Init => TypeOK /\ Routable /\ ResponsesReachClient
                /\ AstrayOnlyIfExplained
    BY TypeInit, RoutableInit
       DEF Init, ResponsesReachClient, AstrayOnlyIfExplained
  <1>2. TypeOK /\ Routable /\ ResponsesReachClient /\ AstrayOnlyIfExplained
        /\ [Next]_vars
        => TypeOK' /\ Routable' /\ ResponsesReachClient'
           /\ AstrayOnlyIfExplained'
    BY TypeStep, RoutableStep, SentStep
  <1>3. QED
    BY <1>1, <1>2, PTL DEF Spec

\* A tracked response goes to the client that asked, with its own token, for
\* every marker function, timeout and reuse of message IDs.
THEOREM TrackedResponsesReachClient == Spec => []ResponsesReachClient
  BY SentInv, PTL

\* The three known reasons are the only ones for which an answer goes astray.
THEOREM OnlyKnownReasons == Spec => []AstrayOnlyIfExplained
  BY SentInv, PTL

\* What the tracker sends out is for a client or for the server: ports only
\* come from tracked tokens, the map and the default.
LEMMA KnownDestination ==
    ASSUME TypeOK, Routable, NEW i \in fromNsc, i.msg.code # "reserved",
           ~LooksTracked(i)
    PROVE  Datagram(i).port \in Clients \cup {DefaultPort}
  <1>1. i \in ItemType
    BY DEF TypeOK
  <1>2. /\ i.msg.code \in Codes
        /\ i.owner \in Clients \cup {DefaultPort}
        /\ i.token \in Seq(Byte)
    BY <1>1, ItemFields DEF ItemType
  <1>3. MappedPort(i.msg.mid) \in Clients \cup {DefaultPort}
    BY DEF TypeOK, MidsType, MappedPort
  <1>4. CASE i.msg.code = "response" /\ Len(i.token) < 5
    BY <1>1, <1>2, <1>4, TrackedResponse DEF Routable
  <1>5. CASE i.msg.code = "response" /\ ~(Len(i.token) < 5)
    <2>1. i.msg.token = i.token
      BY <1>5 DEF Routable, Carried
    <2>2. Len(i.token) \in Nat
      BY <1>2
    <2>3. ~HasTracking(i.msg.token)
      BY <1>5, <2>1, <2>2 DEF LooksTracked
    <2>4. QED
      BY <1>3, <1>5, <2>3 DEF Datagram, Destination, Extracts
  <1>6. CASE i.msg.code # "response"
    BY <1>3, <1>6 DEF Datagram, Destination, Extracts
  <1>7. QED
    BY <1>4, <1>5, <1>6

\* The tracker never sends to a port nobody used, but for a long token that
\* looks like tracking bytes.
THEOREM OnlyKnownPorts == Spec => []KnownPorts
  <1>1. Init => KnownPorts
    BY DEF Init, KnownPorts
  <1>2. TypeOK /\ Routable /\ KnownPorts /\ [Next]_vars => KnownPorts'
    <2> SUFFICES ASSUME TypeOK, Routable, KnownPorts, [Next]_vars
                 PROVE  KnownPorts'
      OBVIOUS
    <2>1. CASE sent' = {}
      BY <2>1 DEF KnownPorts
    <2>2. CASE sent' = sent
      BY <2>2 DEF KnownPorts
    <2>3. ASSUME NEW i \in fromNsc, i.msg.code # "reserved",
                 sent' = {Datagram(i)}
          PROVE  KnownPorts'
      <3>1. Datagram(i).item = i
        BY DEF Datagram
      <3>2. QED
        BY <2>3, <3>1, KnownDestination DEF KnownPorts
    <2>4. QED
      BY <2>1, <2>2, <2>3, SentShapes
  <1>3. QED
    BY <1>1, <1>2, SentInv, PTL DEF Spec

\* Requests with equal tokens at the NSC come from one client.
THEOREM TokensSeparateClients == Spec => []TokensTellClientsApart
  <1>1. TypeOK /\ Routable => TokensTellClientsApart
    <2> SUFFICES ASSUME TypeOK, Routable, NEW i \in toNsc, NEW j \in toNsc,
                        i.msg.code = "request", j.msg.code = "request",
                        Len(i.token) < 5, Len(j.token) < 5,
                        i.msg.token = j.msg.token
                 PROVE  i.owner = j.owner /\ i.token = j.token
      BY DEF TokensTellClientsApart
    <2>1. i \in ItemType /\ j \in ItemType
      BY DEF TypeOK
    <2>2. /\ i.owner \in Port /\ i.token \in Seq(Byte)
          /\ j.owner \in Port /\ j.token \in Seq(Byte)
      BY <2>1, ItemFields
    <2>3. Tracking(i.owner) \o i.token = Tracking(j.owner) \o j.token
      BY DEF Routable, Carried
    <2>4. QED
      BY <2>2, <2>3, TrackingInjective, ZenonT(40)
  <1>2. QED
    BY <1>1, SentInv, PTL

\* No mapping outlives the timeout by more than the timer's period and delay.
THEOREM NoStaleMapping == Spec => []MappingsExpire
  <1>1. Init => MappingsExpire
    BY DEF Init, MappingsExpire
  <1>2. TypeOK /\ MappingsExpire /\ [Next]_vars => MappingsExpire'
    <2> SUFFICES ASSUME TypeOK, MappingsExpire, [Next]_vars
                 PROVE  MappingsExpire'
      OBVIOUS
    <2> USE TimesAssumption DEF TypeOK, MidsType, MappingsExpire
    <2>1. ASSUME NEW port \in Clients, NEW m \in ClientMessages,
                 udpToSerial(port, m)
          PROVE  MappingsExpire'
      BY <2>1 DEF udpToSerial, trackMid
    <2>2. CASE removeOldMids
      BY <2>2 DEF removeOldMids
    <2>3. CASE Tick
      BY <2>3 DEF Tick
    <2>4. CASE UNCHANGED <<mids, sinceExpiry>>
      BY <2>4
    <2>5. QED
      BY <2>1, <2>2, <2>3, <2>4
         DEF Next, serialToUdp, NscResponds, NscAcknowledges, NscDrops,
             NscStarts, Emits, vars
  <1>3. QED
    BY <1>1, <1>2, TypeCorrect, PTL DEF Spec

-----------------------------------------------------------------------------
(* Where answers never go *)

\* However old it is, a mapping that still stands for an item is its owner's.
OwnMapping ==
    \A i \in toNsc \cup fromNsc :
        ~i.unmapped /\ i.msg.mid \in DOMAIN mids =>
            mids[i.msg.mid].port = i.owner

\* No step but a new mapping gives a port to a message ID.
LEMMA OwnMappingKept ==
    ASSUME OwnMapping,
           \A mid \in DOMAIN mids' :
                mid \in DOMAIN mids /\ mids'[mid].port = mids[mid].port,
           \A i \in toNsc' \cup fromNsc' :
                i.unmapped \/ \E j \in toNsc \cup fromNsc :
                    /\ i.msg.mid = j.msg.mid /\ i.owner = j.owner
                    /\ ~j.unmapped
    PROVE  OwnMapping'
  BY DEF OwnMapping

\* A new mapping is its item's, and marks the items of the other ports.
LEMMA OwnMappingUdpToSerial ==
    ASSUME TypeOK, OwnMapping, NEW port \in Clients, NEW m \in ClientMessages,
           udpToSerial(port, m)
    PROVE  OwnMapping'
  <1> DEFINE new == Outbound(port, m)
  <1>1. new.msg.mid = m.mid
    BY Outgoing
  <1>2. new.unmapped = ~TracksMid(m) /\ new.owner = port
    BY DEF Outbound, Item
  <1> HIDE DEF new
  <1>3. CASE TracksMid(m)
    <2>1. /\ mids' = trackMid(port, m.mid)
          /\ toNsc' = Overwritten(toNsc, port, m.mid) \cup {new}
          /\ fromNsc' = Overwritten(fromNsc, port, m.mid)
      BY <1>3 DEF udpToSerial, new
    <2>2. /\ mids'[m.mid].port = port
          /\ \A n \in DOMAIN mids' : n # m.mid =>
                n \in DOMAIN mids /\ mids'[n] = mids[n]
      BY <2>1 DEF trackMid
    <2>3. \A i \in toNsc' \cup fromNsc' :
            i = new \/ \E j \in toNsc \cup fromNsc :
                /\ i.msg = j.msg /\ i.owner = j.owner
                /\ j.unmapped => i.unmapped
                /\ i.msg.mid = m.mid /\ i.owner # port => i.unmapped
      BY <2>1, ItemsOverwritten DEF TypeOK
    <2>4. ASSUME NEW i \in toNsc' \cup fromNsc', ~i.unmapped,
                 i.msg.mid \in DOMAIN mids'
          PROVE  mids'[i.msg.mid].port = i.owner
      <3>1. CASE i.msg.mid = m.mid
        BY <1>2, <2>2, <2>3, <2>4, <3>1
      <3>2. CASE i.msg.mid # m.mid
        BY <1>1, <2>2, <2>3, <2>4, <3>2 DEF OwnMapping
      <3>3. QED
        BY <3>1, <3>2
    <2>5. QED
      BY <2>4 DEF OwnMapping
  <1>4. CASE ~TracksMid(m)
    <2>1. toNsc' = toNsc \cup {new} /\ fromNsc' = fromNsc /\ mids' = mids
      BY <1>4 DEF udpToSerial, new
    <2>2. QED
      BY <1>2, <1>4, <2>1 DEF OwnMapping
  <1>5. QED
    BY <1>3, <1>4

\* An answer is mapped only as the item it answers.
LEMMA OwnMappingAnswer ==
    ASSUME OwnMapping, NEW i \in toNsc, NEW answer,
           answer.owner = i.owner,
           ~answer.unmapped => ~i.unmapped /\ answer.msg.mid = i.msg.mid,
           Emits(answer), Keeps(i)
    PROVE  OwnMapping'
  <1>1. /\ toNsc' \subseteq toNsc /\ fromNsc' = fromNsc \cup {answer}
        /\ mids' = mids
    BY DEF Emits, Keeps
  <1>2. QED
    BY <1>1 DEF OwnMapping

LEMMA OwnMappingStep ==
    ASSUME TypeOK, OwnMapping, [Next]_vars
    PROVE  OwnMapping'
  <1>1. ASSUME NEW port \in Clients, NEW m \in ClientMessages,
               udpToSerial(port, m)
        PROVE  OwnMapping'
    BY <1>1, OwnMappingUdpToSerial
  <1>2. CASE removeOldMids
    <2>1. toNsc' = toNsc /\ fromNsc' = fromNsc
      BY <1>2 DEF removeOldMids
    <2>2. \A mid \in DOMAIN mids' :
            mid \in DOMAIN mids /\ mids'[mid] = mids[mid]
      BY <1>2 DEF removeOldMids
    <2>3. QED
      BY <2>1, <2>2 DEF OwnMapping
  <1>3. CASE Tick
    <2>1. \A i \in toNsc' \cup fromNsc' : \E j \in toNsc \cup fromNsc :
            i.msg = j.msg /\ i.owner = j.owner /\ i.unmapped = j.unmapped
      BY <1>3, ItemsAge DEF Tick, TypeOK
    <2>2. \A mid \in DOMAIN mids' :
            mid \in DOMAIN mids /\ mids'[mid].port = mids[mid].port
      BY <1>3 DEF Tick, TypeOK, MidsType
    <2>3. QED
      BY <2>1, <2>2 DEF OwnMapping
  <1>4. ASSUME NEW i \in toNsc, NEW type \in {"ACK", "CON", "NON"},
               NEW mid \in Mids, NscResponds(i, type, mid)
        PROVE  OwnMapping'
    <2>1. i \in ItemType
      BY DEF TypeOK
    <2>2. LET r == Response(i, type, mid)
          IN  /\ r.owner = i.owner
              /\ ~r.unmapped => ~i.unmapped /\ r.msg.mid = i.msg.mid
      BY <2>1 DEF Response, ItemType
    <2>3. QED
      BY <1>4, <2>2, OwnMappingAnswer DEF NscResponds
  <1>5. ASSUME NEW i \in toNsc, NEW type \in {"ACK", "RST"},
               NscAcknowledges(i, type)
        PROVE  OwnMapping'
    <2>1. i \in ItemType
      BY DEF TypeOK
    <2>2. LET a == Acknowledgement(i, type)
          IN  /\ a.owner = i.owner
              /\ ~a.unmapped => ~i.unmapped /\ a.msg.mid = i.msg.mid
      BY <2>1 DEF Acknowledgement, ItemType
    <2>3. QED
      BY <1>5, <2>2, OwnMappingAnswer DEF NscAcknowledges
  <1>6. ASSUME NEW code \in {"request", "reserved"}, NEW mid \in Mids,
               NscStarts(code, mid)
        PROVE  OwnMapping'
    <2>1. /\ toNsc' = toNsc /\ mids' = mids
          /\ fromNsc' = fromNsc \cup {OwnFrame(code, mid)}
      BY <1>6 DEF NscStarts, Emits
    <2>2. OwnFrame(code, mid).unmapped
      BY DEF OwnFrame, Item
    <2>3. QED
      BY <2>1, <2>2 DEF OwnMapping
  <1>7. CASE toNsc' \subseteq toNsc /\ fromNsc' \subseteq fromNsc /\ mids' = mids
    BY <1>7 DEF OwnMapping
  <1>8. QED
    BY <1>1, <1>2, <1>3, <1>4, <1>5, <1>6, <1>7
       DEF Next, serialToUdp, NscDrops, vars

\* A datagram leaves for its owner or for the server, but for a long token
\* that looks like tracking bytes and for an answer routed by a message ID
\* that is not its own any more.
OwnerOrServer ==
    \A d \in sent :
        \/ d.port \in {d.item.owner, DefaultPort}
        \/ LooksTracked(d.item)
        \/ d.item.unmapped
           /\ (d.item.msg.code = "response" => ~(Len(d.item.token) < 5))

LEMMA OwnerOrServerDatagram ==
    ASSUME TypeOK, Routable, OwnMapping, NEW i \in fromNsc, ~LooksTracked(i),
           ~i.unmapped \/ (i.msg.code = "response" /\ Len(i.token) < 5)
    PROVE  Datagram(i).port \in {i.owner, DefaultPort}
  <1>1. i \in ItemType
    BY DEF TypeOK
  <1>2. ~i.unmapped => MappedPort(i.msg.mid) \in {i.owner, DefaultPort}
    BY DEF MappedPort, OwnMapping
  <1>3. CASE i.msg.code = "response" /\ Len(i.token) < 5
    BY <1>1, <1>3, TrackedResponse DEF Routable
  <1>4. CASE i.msg.code = "response" /\ ~(Len(i.token) < 5)
    <2>1. i.msg.token = i.token
      BY <1>4 DEF Routable, Carried
    <2>2. Len(i.token) \in Nat
      BY <1>1, ItemFields
    <2>3. ~HasTracking(i.msg.token)
      BY <1>4, <2>1, <2>2 DEF LooksTracked
    <2>4. QED
      BY <1>2, <1>4, <2>3 DEF Datagram, Destination, Extracts
  <1>5. CASE i.msg.code # "response"
    BY <1>2, <1>5 DEF Datagram, Destination, Extracts
  <1>6. QED
    BY <1>3, <1>4, <1>5

\* An expired, reused or repeated message ID never takes an answer to another
\* client, as long as it was not mapped anew while the answer was under way.
THEOREM OnlyToOwnerOrServer == Spec => []OwnerOrServer
  <1>1. Init => OwnMapping /\ OwnerOrServer
    BY DEF Init, OwnMapping, OwnerOrServer
  <1>2. TypeOK /\ Routable /\ OwnMapping /\ OwnerOrServer /\ [Next]_vars
        => OwnMapping' /\ OwnerOrServer'
    <2> SUFFICES ASSUME TypeOK, Routable, OwnMapping, OwnerOrServer,
                        [Next]_vars
                 PROVE  OwnMapping' /\ OwnerOrServer'
      OBVIOUS
    <2>1. ASSUME sent' = {} PROVE OwnerOrServer'
      BY <2>1 DEF OwnerOrServer
    <2>2. ASSUME sent' = sent PROVE OwnerOrServer'
      BY <2>2 DEF OwnerOrServer, LooksTracked
    <2>3. ASSUME NEW i \in fromNsc, sent' = {Datagram(i)}
          PROVE  OwnerOrServer'
      <3>1. Datagram(i).item = i
        BY DEF Datagram
      <3>2. QED
        BY <2>3, <3>1, OwnerOrServerDatagram DEF OwnerOrServer
    <2>4. OwnerOrServer'
      BY <2>1, <2>2, <2>3, SentShapes
    <2>5. QED
      BY <2>4, OwnMappingStep
  <1>3. QED
    BY <1>1, <1>2, SentInv, PTL DEF Spec

=============================================================================
