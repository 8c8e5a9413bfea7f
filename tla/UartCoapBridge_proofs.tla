------------------------ MODULE UartCoapBridge_proofs ------------------------
(***************************************************************************)
(* Theorems about UartCoapBridge: an answer ends on the right side of the  *)
(* bridge, JausBridge is only given the agent's own, and one lifeline      *)
(* keeps the socket alive. What is proved of the tracker holds inside the  *)
(* bridge, whose every step is one of the tracker's or leaves it alone.    *)
(***************************************************************************)
EXTENDS UartCoapBridge, SequenceInduction, FiniteSetTheorems

\* the theorems about the tracker, for the ports and messages of both sides
TrackerProofs == INSTANCE CoapPortTracker_proofs WITH
    Clients <- Clients \cup OwnPorts,
    ClientMessages <- ClientMessages \cup OwnMessages

-----------------------------------------------------------------------------
(* The tracker inside the bridge *)

LEMMA InitRefines == Init => Tracker!Init
  BY DEF Init

LEMMA StepRefines == [Next]_vars => [Tracker!Next]_trackerVars
  <1> SUFFICES ASSUME Next PROVE [Tracker!Next]_trackerVars
    BY DEF vars, trackerVars
  <1>1. CASE localBindRetry
    BY <1>1 DEF localBindRetry
  <1>2. ASSUME NEW port \in Clients, NEW m \in ClientMessages, Received(port, m)
        PROVE  [Tracker!Next]_trackerVars
    BY <1>2 DEF Received, Tracker!Next
  <1>3. CASE ReceivedNothing
    BY <1>3 DEF ReceivedNothing
  <1>4. ASSUME NEW port \in OwnPorts, NEW m \in OwnMessages,
               sendSRCRequest(port, m)
        PROVE  [Tracker!Next]_trackerVars
    BY <1>4 DEF sendSRCRequest, Tracker!Next
  <1>5. ASSUME NEW i \in fromNsc, serialDataReceived(i)
        PROVE  [Tracker!Next]_trackerVars
    BY <1>5 DEF serialDataReceived, Tracker!Next
  <1>6. CASE serialError
    BY <1>6 DEF serialError
  <1>7. CASE Around(removeOldMids)
    BY <1>7 DEF Around, removeOldMids, Tracker!Next
  <1>8. CASE Around(NscOrTime)
    BY <1>8 DEF Around, NscOrTime, Tracker!Next
  <1> QED
    BY <1>1, <1>2, <1>3, <1>4, <1>5, <1>6, <1>7, <1>8 DEF Next

\* only to carry over what is proved of the tracker: it holds by the way the
\* bridge is put together
LEMMA BridgeRunsTracker == Spec => Tracker!Spec
  BY InitRefines, StepRefines, PTL
     DEF Spec, Tracker!Spec, trackerVars, Tracker!vars

-----------------------------------------------------------------------------
(* What is proved of the tracker, carried over *)

\* the two instances of CoapPortTracker are the same
LEMMA SameNext == Tracker!Next <=> TrackerProofs!Next
  BY Zenon
        DEF Tracker!Next, TrackerProofs!Next, Tracker!udpToSerial,
            TrackerProofs!udpToSerial, Tracker!serialToUdp,
            TrackerProofs!serialToUdp, Tracker!removeOldMids,
            TrackerProofs!removeOldMids, Tracker!Tick,
            TrackerProofs!Tick, Tracker!NscResponds,
            TrackerProofs!NscResponds, Tracker!NscAcknowledges,
            TrackerProofs!NscAcknowledges, Tracker!NscDrops,
            TrackerProofs!NscDrops, Tracker!NscStarts,
            TrackerProofs!NscStarts, Tracker!TracksMid,
            TrackerProofs!TracksMid, Tracker!trackMid,
            TrackerProofs!trackMid, Tracker!Overwritten,
            TrackerProofs!Overwritten, Tracker!Outbound,
            TrackerProofs!Outbound, Tracker!Item, TrackerProofs!Item,
            Tracker!Rewritten, TrackerProofs!Rewritten,
            Tracker!AddsToken, TrackerProofs!AddsToken, Tracker!HasRoom,
            TrackerProofs!HasRoom, Tracker!Tracking,
            TrackerProofs!Tracking, Tracker!LowByte,
            TrackerProofs!LowByte, Tracker!HighByte,
            TrackerProofs!HighByte, Tracker!Cardinality,
            TrackerProofs!Cardinality, Tracker!IsFiniteSet,
            TrackerProofs!IsFiniteSet, Tracker!Datagram,
            TrackerProofs!Datagram, Tracker!Destination,
            TrackerProofs!Destination, Tracker!Restored,
            TrackerProofs!Restored, Tracker!Extracts,
            TrackerProofs!Extracts, Tracker!HasTracking,
            TrackerProofs!HasTracking, Tracker!TrackedPort,
            TrackerProofs!TrackedPort, Tracker!OwnToken,
            TrackerProofs!OwnToken, Tracker!MappedPort,
            TrackerProofs!MappedPort, Tracker!Aged, TrackerProofs!Aged,
            Tracker!Emits, TrackerProofs!Emits, Tracker!Keeps,
            TrackerProofs!Keeps, Tracker!Response,
            TrackerProofs!Response, Tracker!Acknowledgement,
            TrackerProofs!Acknowledgement, Tracker!OwnFrame,
            TrackerProofs!OwnFrame

LEMMA SameInit == Tracker!Init <=> TrackerProofs!Init
  BY DEF Tracker!Init, TrackerProofs!Init

LEMMA SameSpec == Tracker!Spec <=> TrackerProofs!Spec
  BY SameInit, SameNext, PTL
     DEF Tracker!Spec, TrackerProofs!Spec, Tracker!vars, TrackerProofs!vars

\* the ports and messages of both sides are ones the tracker is proved for
LEMMA TrackerConstants ==
    /\ Clients \cup OwnPorts \subseteq TrackerProofs!Port
    /\ DefaultPort \in TrackerProofs!Port
    /\ \A t \in Tokens : t \in Seq(TrackerProofs!Byte) /\ Len(t) <= 8
    /\ ClientMessages \cup OwnMessages \subseteq TrackerProofs!Message(Tokens)
    /\ \A lo, hi \in TrackerProofs!Byte :
            MarkerByte(lo, hi) \in TrackerProofs!Byte
  <1>1. TrackerProofs!Port = Port
    BY DEF Port, TrackerProofs!Port
  <1>2. JausPorts \subseteq Port
    BY DEF JausPorts
  <1>3. Clients \cup OwnPorts \subseteq Port /\ DefaultPort \in Port
    BY <1>2, PortsAssumption, OwnPortsAssumption
  <1>4. \A t \in Tokens : t \in Seq(TrackerProofs!Byte) /\ Len(t) <= 8
    BY TokensAssumption DEF TrackerProofs!Byte
  <1>5. ClientMessages \cup OwnMessages \subseteq TrackerProofs!Message(Tokens)
    BY MessagesAssumption, Zenon
       DEF Tracker!Message, Tracker!Types, Tracker!Codes,
           TrackerProofs!Message, TrackerProofs!Types, TrackerProofs!Codes
  <1>6. \A lo, hi \in TrackerProofs!Byte :
            MarkerByte(lo, hi) \in TrackerProofs!Byte
    BY MarkerAssumption, Zenon DEF TrackerProofs!Byte
  <1> QED
    BY <1>1, <1>3, <1>4, <1>5, <1>6

\* A response to a request with room for tracking leaves the tracker for the
\* port it belongs to, also between the agent and its clients.
THEOREM BridgeRoutesResponses == Spec => []Tracker!ResponsesReachClient
  <1>1. TrackerProofs!Spec => []TrackerProofs!ResponsesReachClient
    BY TrackerConstants, TimesAssumption,
       TrackerProofs!TrackedResponsesReachClient
  <1>2. Tracker!ResponsesReachClient <=> TrackerProofs!ResponsesReachClient
    BY DEF Tracker!ResponsesReachClient, TrackerProofs!ResponsesReachClient
  <1> QED
    BY <1>1, <1>2, BridgeRunsTracker, SameSpec, PTL

LEMMA BridgeKnowsPorts == Spec => []Tracker!KnownPorts
  <1>1. TrackerProofs!Spec => []TrackerProofs!KnownPorts
    BY TrackerConstants, TimesAssumption, TrackerProofs!OnlyKnownPorts
  <1>2. Tracker!KnownPorts <=> TrackerProofs!KnownPorts
    BY Zenon
       DEF Tracker!KnownPorts, Tracker!LooksTracked, Tracker!HasTracking,
           TrackerProofs!KnownPorts, TrackerProofs!LooksTracked,
           TrackerProofs!HasTracking
  <1> QED
    BY <1>1, <1>2, BridgeRunsTracker, SameSpec, PTL

LEMMA BridgeKeepsOwners == Spec => []TrackerProofs!OwnerOrServer
  <1>1. TrackerProofs!Spec => []TrackerProofs!OwnerOrServer
    BY TrackerConstants, TimesAssumption, TrackerProofs!OnlyToOwnerOrServer
  <1> QED
    BY <1>1, BridgeRunsTracker, SameSpec, PTL

-----------------------------------------------------------------------------
(* The socket *)

Lifeline ==
    /\ receives \in 0 .. 1 /\ retry \in BOOLEAN /\ open \in BOOLEAN
    /\ OneLifeline

\* from one receive and no timer, and from a timer and no receive
LEMMA LifelineShapes ==
    ASSUME \/ open = TRUE /\ retry = FALSE /\ receives = 1
           \/ open = FALSE /\ retry = TRUE /\ receives = 0
    PROVE  Lifeline
  <1>1. retry \in BOOLEAN /\ open \in BOOLEAN /\ (open <=> ~retry)
    BY Zenon
  <1>2. receives \in 0 .. 1 /\ receives + (IF retry THEN 1 ELSE 0) = 1
    BY SMT
  <1> QED
    BY <1>1, <1>2 DEF Lifeline, OneLifeline

LEMMA BindKeepsLifeline == ASSUME bindLocal PROVE Lifeline'
  <1>1. \/ open' = TRUE /\ retry' = FALSE /\ receives' = 1
        \/ open' = FALSE /\ retry' = TRUE /\ receives' = 0
    BY Zenon DEF bindLocal, Binds, BindFails
  <1>2. retry' \in BOOLEAN /\ open' \in BOOLEAN /\ (open' <=> ~retry')
    BY <1>1, Zenon
  <1>3. receives' \in 0 .. 1 /\ receives' + (IF retry' THEN 1 ELSE 0) = 1
    BY <1>1, SMT
  <1> QED
    BY <1>2, <1>3 DEF Lifeline, OneLifeline

LEMMA ReceiveKeepsLifeline ==
    ASSUME Lifeline, receives > 0, receiveFromRemote
    PROVE  Lifeline'
  <1>1. CASE receives' = 1 /\ UNCHANGED <<open, retry, bindLog>>
    BY <1>1 DEF Lifeline, OneLifeline
  <1> QED
    BY <1>1, BindKeepsLifeline DEF receiveFromRemote

LEMMA LifelineStep == ASSUME Lifeline, [Next]_vars PROVE Lifeline'
  <1>1. CASE localBindRetry
    BY <1>1, BindKeepsLifeline DEF localBindRetry
  <1>2. ASSUME NEW port \in Clients, NEW m \in ClientMessages, Received(port, m)
        PROVE  Lifeline'
    BY <1>2, ReceiveKeepsLifeline DEF Received
  <1>3. CASE ReceivedNothing
    BY <1>3, ReceiveKeepsLifeline DEF ReceivedNothing
  <1>4. CASE UNCHANGED socketVars
    BY <1>4 DEF socketVars, Lifeline, OneLifeline
  <1> QED
    BY <1>1, <1>2, <1>3, <1>4
       DEF Next, vars, sendSRCRequest, serialDataReceived, serialError, Around,
           socketVars

LEMMA LifelineInit == Init => Lifeline
  <1> SUFFICES ASSUME Init PROVE Lifeline
    OBVIOUS
  <1>1. open = TRUE \/ open = FALSE
    BY Zenon DEF Init
  <1>2. retry = ~open /\ receives = IF open THEN 1 ELSE 0
    BY DEF Init
  <1>3. CASE open = TRUE
    BY <1>2, <1>3, LifelineShapes
  <1>4. CASE open = FALSE
    BY <1>2, <1>4, LifelineShapes
  <1> QED
    BY <1>1, <1>3, <1>4

\* However often the socket fails, exactly one of a receive and the retry
\* timer is outstanding.
THEOREM LifelineHolds == Spec => []OneLifeline
  <1>1. Lifeline => OneLifeline
    BY DEF Lifeline
  <1> QED
    BY <1>1, LifelineInit, LifelineStep, PTL DEF Spec

-----------------------------------------------------------------------------
(* Types *)

LEMMA BridgeTracksTypes == Spec => []Tracker!TypeOK
  <1>1. TrackerProofs!Spec => []TrackerProofs!TypeOK
    BY TrackerConstants, TimesAssumption, TrackerProofs!TypeCorrect
  <1>2. Tracker!Port = TrackerProofs!Port
    BY DEF Tracker!Port, TrackerProofs!Port
  <1>3. Tracker!Message(Tracker!TokensUpTo8)
            = TrackerProofs!Message(TrackerProofs!TokensUpTo8)
    BY DEF Tracker!Message, Tracker!Types, Tracker!Codes,
           Tracker!TokensUpTo8, Tracker!Byte, TrackerProofs!Message,
           TrackerProofs!Types, TrackerProofs!Codes,
           TrackerProofs!TokensUpTo8, TrackerProofs!Byte
  <1>4. Tracker!ItemType = TrackerProofs!ItemType
    BY <1>3 DEF Tracker!ItemType, TrackerProofs!ItemType
  <1>5. Tracker!MidsType <=> TrackerProofs!MidsType
    BY DEF Tracker!MidsType, TrackerProofs!MidsType
  <1>6. Tracker!TypeOK <=> TrackerProofs!TypeOK
    BY <1>2, <1>3, <1>4, <1>5 DEF Tracker!TypeOK, TrackerProofs!TypeOK
  <1> QED
    BY <1>1, <1>6, BridgeRunsTracker, SameSpec, PTL

LogType == [count : 0 .. MaxBindFailures, thresh : Nat, lines : Nat]

OutputType ==
    /\ alive \in BOOLEAN /\ serialFailed \in BOOLEAN
    /\ forwarded \subseteq [port : Port \ JausPorts, lost : BOOLEAN]
    /\ evaluated \subseteq [port : JausPorts, payload : Payloads]

BridgeType == Lifeline /\ bindLog \in LogType /\ OutputType

\* one failure more stays within the bound that lets it happen
LEMMA LogStep ==
    ASSUME NEW s \in LogType, s.count < MaxBindFailures
    PROVE  log(s) \in LogType
  BY BindAssumption DEF log, LogType

LEMMA BindKeepsLog ==
    ASSUME bindLog \in LogType, bindLocal
    PROVE  bindLog' \in LogType
  <1>1. Cleared \in LogType
    BY BindAssumption DEF Cleared, LogType
  <1> QED
    BY <1>1, LogStep DEF bindLocal, Binds, BindFails

LEMMA LogTypeStep ==
    ASSUME bindLog \in LogType, [Next]_vars
    PROVE  bindLog' \in LogType
  BY BindKeepsLog
     DEF Next, localBindRetry, Received, ReceivedNothing, sendSRCRequest,
         serialDataReceived, serialError, Around, receiveFromRemote, vars,
         socketVars

LEMMA OutputTypeStep ==
    ASSUME BridgeType, Tracker!TypeOK', [Next]_vars
    PROVE  OutputType'
  <1>1. alive \in BOOLEAN /\ serialFailed \in BOOLEAN /\ open \in BOOLEAN
    BY DEF BridgeType, OutputType, Lifeline
  <1>2. UNCHANGED serialFailed \/ serialFailed' = TRUE
    BY DEF Next, localBindRetry, Received, ReceivedNothing, sendSRCRequest,
         serialDataReceived, serialError, Around, vars
  <1>3. serialFailed' \in BOOLEAN
    BY <1>1, <1>2, Zenon
  <1>4. CASE NoOutput /\ alive' = alive
    BY <1>1, <1>3, <1>4 DEF NoOutput, OutputType
  <1>5. CASE UNCHANGED <<alive, outputs>>
    BY <1>3, <1>5 DEF OutputType, BridgeType, outputs
  <1>6. CASE serialError
    <2>1. alive' \in BOOLEAN
      BY <1>6, Zenon DEF serialError
    <2> QED
      BY <1>3, <1>6, <2>1 DEF serialError, OutputType, BridgeType, outputs
  <1>7. ASSUME NEW d \in sent', ToJaus(d.port), NEW payload \in Payloads,
               evaluateCoapJausMessage(d.port, payload)
        PROVE  OutputType'
    <2>1. alive' \in BOOLEAN
      BY <1>7, Zenon DEF evaluateCoapJausMessage, Throws
    <2>2. evaluated' \subseteq [port : JausPorts, payload : Payloads]
      BY <1>7 DEF evaluateCoapJausMessage, ToJaus
    <2> QED
      BY <1>3, <1>7, <2>1, <2>2 DEF evaluateCoapJausMessage, OutputType
  <1>8. ASSUME NEW d \in sent', ~ToJaus(d.port), sendToRemote(d)
        PROVE  OutputType'
    <2>1. d.port \in Tracker!Port /\ Tracker!Port = Port
      <3>1. sent' \subseteq [port : Tracker!Port,
                             msg : Tracker!Message(Tracker!TokensUpTo8),
                             item : Tracker!ItemType]
        BY DEF Tracker!TypeOK
      <3>2. d.port \in Tracker!Port
        BY <1>8, <3>1
      <3>3. Tracker!Port = Port
        BY SMT DEF Tracker!Port, Port
      <3> QED
        BY <3>2, <3>3
    <2>2. (~open) \in BOOLEAN
      BY <1>1, Zenon
    <2>3. forwarded' \subseteq [port : Port \ JausPorts, lost : BOOLEAN]
      BY <1>8, <2>1, <2>2 DEF sendToRemote, ToJaus
    <2> QED
      BY <1>1, <1>3, <1>8, <2>3 DEF sendToRemote, OutputType
  <1> QED
    BY <1>4, <1>5, <1>6, <1>7, <1>8
       DEF Next, localBindRetry, Received, ReceivedNothing, sendSRCRequest,
           serialDataReceived, Around, vars

LEMMA BridgeTypeInit == Init => BridgeType
  <1> SUFFICES ASSUME Init PROVE BridgeType
    OBVIOUS
  <1>1. Cleared \in LogType /\ log(Cleared) \in LogType
    BY LogStep, BindAssumption DEF Cleared, LogType
  <1>2. bindLog \in LogType
    BY <1>1 DEF Init
  <1>3. alive \in BOOLEAN /\ serialFailed \in BOOLEAN
    BY Zenon DEF Init
  <1>4. OutputType
    BY <1>3 DEF Init, OutputType
  <1> QED
    BY <1>2, <1>4, LifelineInit DEF BridgeType

\* Every variable of the bridge and of the tracker inside it has its type: at
\* most one receive is outstanding, what is forwarded never bears a reserved
\* port and what is evaluated always does.
THEOREM TypeCorrect == Spec => []TypeOK
  <1>1. Tracker!TypeOK /\ BridgeType => TypeOK
    BY DEF TypeOK, BridgeType, OutputType, LogType, Lifeline
  <1>2. BridgeType /\ Tracker!TypeOK' /\ [Next]_vars => BridgeType'
    BY LogTypeStep, OutputTypeStep, LifelineStep DEF BridgeType
  <1> QED
    BY <1>1, <1>2, BridgeTypeInit, BridgeTracksTypes, PTL DEF Spec

-----------------------------------------------------------------------------
(* The thinned log: power2 exists, grows, and thresh is the next one         *)

\* f doubles along its first k arguments
Doubles(f, k) ==
    f[0] = 1 /\ \A i \in 1 .. k : f[i] = 2 * f[i - 1]

LEMMA DoublingExists ==
    ASSUME NEW n \in Nat
    PROVE  \E f \in [Nat -> Nat] : Doubles(f, n)
  <1> DEFINE T == {k \in Nat : \E f \in [Nat -> Nat] : Doubles(f, k)}
  <1>1. 0 \in T
    <2>1. [i \in Nat |-> 1] \in [Nat -> Nat] /\ Doubles([i \in Nat |-> 1], 0)
      BY DEF Doubles
    <2>2. QED
      BY <2>1
  <1>2. ASSUME NEW k \in Nat, k \in T PROVE k + 1 \in T
    <2>1. PICK f \in [Nat -> Nat] : Doubles(f, k)
      BY <1>2
    <2> DEFINE g == [i \in Nat |-> IF i = k + 1 THEN 2 * f[k] ELSE f[i]]
    <2>2. g \in [Nat -> Nat]
      OBVIOUS
    <2>3. Doubles(g, k + 1)
      BY <2>1 DEF Doubles
    <2>4. QED
      BY <2>2, <2>3
  <1>3. Nat \subseteq T
    <2> HIDE DEF T
    <2> QED BY <1>1, <1>2, SetInduction
  <1>4. QED
    BY <1>3

LEMMA DoublingUnique ==
    ASSUME NEW n \in Nat, NEW m \in Nat, m <= n,
           NEW f \in [Nat -> Nat], Doubles(f, n),
           NEW g \in [Nat -> Nat], Doubles(g, m)
    PROVE  f[m] = g[m]
  <1> DEFINE T == {k \in Nat : k <= m => f[k] = g[k]}
  <1>1. 0 \in T
    BY DEF Doubles
  <1>2. ASSUME NEW k \in Nat, k \in T PROVE k + 1 \in T
    <2>1. SUFFICES ASSUME k + 1 <= m PROVE f[k + 1] = g[k + 1]
      OBVIOUS
    <2>2. k + 1 \in 1 .. n /\ k + 1 \in 1 .. m /\ (k + 1) - 1 = k
      BY <2>1
    <2>3. f[k + 1] = 2 * f[k] /\ g[k + 1] = 2 * g[k]
      BY <2>2 DEF Doubles
    <2>4. QED
      BY <1>2, <2>1, <2>3
  <1>3. Nat \subseteq T
    <2> HIDE DEF T
    <2> QED BY <1>1, <1>2, SetInduction
  <1>4. QED
    BY <1>3

\* power2 is what its definition says.
LEMMA Power2Def ==
    /\ power2 \in [Nat -> Nat] /\ power2[0] = 1
    /\ \A k \in Nat : power2[k + 1] = 2 * power2[k]
  <1> DEFINE upTo(k) == CHOOSE f \in [Nat -> Nat] : Doubles(f, k)
             p == [k \in Nat |-> upTo(k)[k]]
  <1>1. \A k \in Nat : upTo(k) \in [Nat -> Nat] /\ Doubles(upTo(k), k)
    BY DoublingExists
  <1> HIDE DEF upTo
  <1>2. p \in [Nat -> Nat] /\ p[0] = 1
    BY <1>1 DEF Doubles
  <1>3. ASSUME NEW k \in Nat PROVE p[k + 1] = 2 * p[k]
    <2>1. k + 1 \in Nat /\ k <= k + 1 /\ k + 1 \in 1 .. k + 1
          /\ (k + 1) - 1 = k
      OBVIOUS
    <2>2. Doubles(upTo(k + 1), k + 1) /\ Doubles(upTo(k), k)
      BY <1>1, <2>1
    <2>3. upTo(k + 1)[k] = upTo(k)[k]
      BY <1>1, <2>1, <2>2, DoublingUnique
    <2>4. upTo(k + 1)[k + 1] = 2 * upTo(k + 1)[k]
      BY <2>1, <2>2, Zenon DEF Doubles
    <2>5. QED
      BY <2>1, <2>3, <2>4
  <1>4. p = [k \in Nat |-> IF k = 0 THEN 1 ELSE 2 * p[k - 1]]
    <2>1. ASSUME NEW k \in Nat
          PROVE  p[k] = IF k = 0 THEN 1 ELSE 2 * p[k - 1]
      <3>1. CASE k = 0
        BY <1>2, <3>1
      <3>2. CASE k # 0
        <4>1. k - 1 \in Nat /\ (k - 1) + 1 = k
          BY <3>2
        <4> HIDE DEF p
        <4>2. p[(k - 1) + 1] = 2 * p[k - 1]
          BY <1>3, <4>1
        <4>3. QED
          BY <3>2, <4>1, <4>2
      <3>3. QED
        BY <3>1, <3>2
    <2>2. p = [k \in Nat |-> p[k]]
      OBVIOUS
    <2> HIDE DEF p
    <2>3. QED
      BY <2>1, <2>2
  <1>5. power2 = [k \in Nat |-> IF k = 0 THEN 1 ELSE 2 * power2[k - 1]]
    <2> HIDE DEF p
    <2>1. QED
      BY <1>4, Zenon DEF power2
  <1>6. \A k \in Nat :
            power2[k] = IF k = 0 THEN 1 ELSE 2 * power2[k - 1]
    BY <1>5, Zenon
  <1>7. ASSUME NEW k \in Nat PROVE power2[k + 1] = 2 * power2[k]
    <2>1. k + 1 \in Nat /\ k + 1 # 0 /\ (k + 1) - 1 = k
      OBVIOUS
    <2>2. power2[k + 1] = 2 * power2[(k + 1) - 1]
      BY <1>6, <2>1, Zenon
    <2>3. QED
      BY <2>1, <2>2
  <1>8. power2[0] = 1
    BY <1>6
  <1>9. \A k \in Nat : power2[k] \in Nat
    <2> DEFINE T == {k \in Nat : power2[k] \in Nat}
    <2>1. 0 \in T
      BY <1>8
    <2>2. \A k \in Nat : k \in T => k + 1 \in T
      BY <1>7
    <2>3. Nat \subseteq T
      <3> HIDE DEF T
      <3> QED BY <2>1, <2>2, SetInduction
    <2>4. QED
      BY <2>3
  <1>10. power2 \in [Nat -> Nat]
    <2>1. power2 = [k \in Nat |-> power2[k]]
      BY <1>5, <1>6
    <2>2. QED
      BY <1>9, <2>1
  <1>11. QED
    BY <1>7, <1>8, <1>10

\* It exceeds its argument and grows with it.
LEMMA Power2Grows ==
    /\ \A k \in Nat : k < power2[k]
    /\ \A k, d \in Nat : power2[k] <= power2[k + d]
  <1>1. \A k \in Nat : power2[k] \in Nat
    BY Power2Def
  <1>2. \A k \in Nat : k < power2[k]
    <2> DEFINE T == {k \in Nat : k < power2[k]}
    <2>1. 0 \in T
      BY Power2Def
    <2>2. \A k \in Nat : k \in T => k + 1 \in T
      BY <1>1, Power2Def
    <2>3. Nat \subseteq T
      <3> HIDE DEF T
      <3> QED BY <2>1, <2>2, SetInduction
    <2>4. QED
      BY <2>3
  <1>3. ASSUME NEW k \in Nat
        PROVE  \A d \in Nat : power2[k] <= power2[k + d]
    <2> DEFINE T == {d \in Nat : power2[k] <= power2[k + d]}
    <2>1. 0 \in T
      BY <1>1
    <2>2. ASSUME NEW d \in Nat, d \in T PROVE d + 1 \in T
      <3>1. k + d \in Nat /\ k + (d + 1) = (k + d) + 1
        OBVIOUS
      <3>2. power2[k + (d + 1)] = 2 * power2[k + d]
        BY <3>1, Power2Def
      <3>3. QED
        BY <1>1, <2>2, <3>1, <3>2
    <2>3. Nat \subseteq T
      <3> HIDE DEF T
      <3> QED BY <2>1, <2>2, SetInduction
    <2>4. QED
      BY <2>3
  <1>4. QED
    BY <1>2, <1>3

\* thresh is the next power of two to be reached, lines its exponent
Thinned(s) ==
    /\ s.thresh = power2[s.lines] /\ s.count < s.thresh
    /\ s.lines > 0 => power2[s.lines - 1] <= s.count

LEMMA LogThins ==
    ASSUME NEW s \in LogType, Thinned(s)
    PROVE  Thinned(log(s))
  <1>1. s.count \in Nat /\ s.thresh \in Nat /\ s.lines \in Nat
    BY BindAssumption DEF LogType
  <1>2. power2[s.lines + 1] = 2 * power2[s.lines]
    BY <1>1, Power2Def
  <1>3. s.count < s.thresh /\ s.thresh = power2[s.lines]
    BY DEF Thinned
  <1>4. CASE s.count + 1 >= s.thresh
    <2>1. log(s) = [count |-> s.count + 1, thresh |-> 2 * s.thresh,
                    lines |-> s.lines + 1]
      BY <1>4 DEF log
    <2>2. s.count + 1 = s.thresh /\ (s.lines + 1) - 1 = s.lines
      BY <1>1, <1>3, <1>4
    <2>3. QED
      BY <1>1, <1>2, <1>3, <2>1, <2>2 DEF Thinned
  <1>5. CASE ~(s.count + 1 >= s.thresh)
    <2>1. log(s) = [s EXCEPT !.count = @ + 1]
      BY <1>5 DEF log
    <2>2. /\ log(s).count = s.count + 1 /\ log(s).thresh = s.thresh
          /\ log(s).lines = s.lines
      BY <2>1 DEF LogType
    <2>3. s.lines > 0 => power2[s.lines - 1] \in Nat
      BY <1>1, Power2Def
    <2>4. QED
      BY <1>1, <1>5, <2>2, <2>3 DEF Thinned
  <1>6. QED
    BY <1>4, <1>5

LEMMA ClearedThin == Cleared \in LogType /\ Thinned(Cleared)
  BY Power2Def, BindAssumption DEF Cleared, LogType, Thinned

\* What Thinned says of the number of powers reached.
LEMMA ThinnedCounts ==
    ASSUME NEW s \in LogType, Thinned(s)
    PROVE  s.lines =
               Cardinality({k \in 0 .. MaxBindFailures : power2[k] <= s.count})
  <1> DEFINE reached == {k \in 0 .. MaxBindFailures : power2[k] <= s.count}
             n == s.lines
  <1>1. /\ s.count \in 0 .. MaxBindFailures /\ s.thresh \in Nat /\ n \in Nat
        /\ MaxBindFailures \in Nat
    BY BindAssumption DEF LogType
  <1>2. \A k \in Nat : power2[k] \in Nat
    BY Power2Def
  <1>3. ASSUME NEW k \in 0 .. n - 1 PROVE k \in reached
    <2>1. n > 0 /\ n - 1 \in Nat /\ k \in Nat /\ (n - 1) - k \in Nat
          /\ k + ((n - 1) - k) = n - 1
      BY <1>1
    <2>2. power2[n - 1] <= s.count
      BY <2>1 DEF Thinned
    <2>3. power2[k] <= power2[k + ((n - 1) - k)] /\ k < power2[k]
      BY <2>1, Power2Grows
    <2>4. QED
      BY <1>1, <1>2, <2>1, <2>2, <2>3
  <1>4. ASSUME NEW k \in reached PROVE k \in 0 .. n - 1
    <2>1. SUFFICES ASSUME k >= n PROVE FALSE
      BY <1>1
    <2>2. k \in Nat /\ k - n \in Nat /\ n + (k - n) = k
      BY <1>1, <2>1
    <2>3. power2[n] <= power2[n + (k - n)]
      BY <1>1, <2>2, Power2Grows
    <2>4. s.count < power2[n]
      BY DEF Thinned
    <2>5. QED
      BY <1>1, <1>2, <2>2, <2>3, <2>4
  <1>5. reached = 0 .. n - 1
    BY <1>3, <1>4
  <1>6. Cardinality(0 .. n - 1) = n
    <2>1. 0 \in Int /\ n - 1 \in Int
      BY <1>1
    <2> HIDE DEF n
    <2>2. Cardinality(0 .. n - 1) =
              IF 0 > n - 1 THEN 0 ELSE (n - 1) - 0 + 1
      BY <2>1, FS_Interval, Zenon
    <2>3. QED
      BY <1>1, <2>2
  <1>7. QED
    BY <1>5, <1>6

\* However often the socket cannot be bound, the log of it has one line for
\* each power of two, the first failure among them, that the failures since
\* the last success have reached (SpammyLogMsg): 31 lines take 2^30 failures.
THEOREM BindLogThin == Spec => []LogsThin
  <1> DEFINE IInv == bindLog \in LogType /\ Thinned(bindLog)
  <1>1. Init => IInv
    <2>1. 0 < MaxBindFailures /\ Cleared.count = 0
      BY BindAssumption DEF Cleared
    <2>2. log(Cleared) \in LogType
      BY <2>1, ClearedThin, LogStep
    <2>3. QED
      BY <2>2, ClearedThin, LogThins DEF Init
  <1>2. IInv /\ [Next]_vars => IInv'
    <2>1. ASSUME IInv, bindLocal PROVE IInv'
      BY <2>1, BindKeepsLog, LogThins, ClearedThin
         DEF bindLocal, Binds, BindFails
    <2>2. QED
      BY <2>1
         DEF Next, localBindRetry, Received, ReceivedNothing, sendSRCRequest,
             serialDataReceived, serialError, Around, receiveFromRemote, vars,
             socketVars
  <1>3. IInv => LogsThin
    BY ThinnedCounts DEF LogsThin
  <1>4. QED
    BY <1>1, <1>2, <1>3, PTL DEF Spec

-----------------------------------------------------------------------------
(* Where answers end, and exits *)

\* In every step what the tracker sends goes to exactly one side.
Dispatched ==
    \A d \in sent :
        IF d.port \in JausPorts
        THEN {e.port : e \in evaluated} = {d.port}
        ELSE {f.port : f \in forwarded} = {d.port} /\ evaluated = {}

Outputs == <<sent, forwarded, evaluated>>

\* a step sends nothing, leaves the outputs, or hands one datagram to one side
LEMMA Shapes ==
    ASSUME [Next]_vars
    PROVE  \/ sent' = {} /\ alive' \in {alive}
           \/ UNCHANGED <<Outputs, alive>>
           \/ UNCHANGED Outputs /\ serialFailed'
           \/ \E d :
                /\ sent' = {d}
                /\ \/ /\ d.port \in JausPorts
                      /\ \E payload \in Payloads :
                            evaluateCoapJausMessage(d.port, payload)
                   \/ d.port \notin JausPorts /\ sendToRemote(d)
  <1>1. CASE UNCHANGED vars
    BY <1>1 DEF vars, trackerVars, outputs, Outputs
  <1>2. CASE localBindRetry \/ ReceivedNothing
    BY <1>2 DEF localBindRetry, ReceivedNothing, trackerVars, outputs, Outputs
  <1>3. CASE serialError
    BY <1>3 DEF serialError, trackerVars, outputs, Outputs
  <1>4. ASSUME NEW port, NEW m, Received(port, m) \/ sendSRCRequest(port, m)
        PROVE  sent' = {} /\ alive' = alive
    BY <1>4 DEF Received, sendSRCRequest, Tracker!udpToSerial
  <1>5. CASE Around(removeOldMids) \/ Around(NscOrTime)
    BY <1>5
       DEF Around, removeOldMids, NscOrTime, Tracker!removeOldMids,
           Tracker!Tick, Tracker!NscResponds, Tracker!NscAcknowledges,
           Tracker!NscDrops, Tracker!NscStarts, Tracker!Emits
  <1>6. ASSUME NEW i \in fromNsc, serialDataReceived(i)
        PROVE  \/ sent' = {} /\ alive' = alive
               \/ \E d :
                    /\ sent' = {d}
                    /\ \/ /\ d.port \in JausPorts
                          /\ \E payload \in Payloads :
                                evaluateCoapJausMessage(d.port, payload)
                       \/ d.port \notin JausPorts /\ sendToRemote(d)
    BY <1>6 DEF serialDataReceived, Tracker!serialToUdp, ToJaus
  <1> QED
    BY <1>1, <1>2, <1>3, <1>4, <1>5, <1>6 DEF Next

LEMMA DispatchedStep == ASSUME Dispatched, [Next]_vars PROVE Dispatched'
  <1>1. CASE sent' = {}
    BY <1>1 DEF Dispatched
  <1>2. CASE UNCHANGED Outputs
    BY <1>2 DEF Dispatched, Outputs
  <1>3. ASSUME NEW d, sent' = {d}, d.port \in JausPorts, NEW payload,
               evaluateCoapJausMessage(d.port, payload)
        PROVE  Dispatched'
    BY <1>3 DEF Dispatched, evaluateCoapJausMessage
  <1>4. ASSUME NEW d, sent' = {d}, d.port \notin JausPorts, sendToRemote(d)
        PROVE  Dispatched'
    BY <1>4 DEF Dispatched, sendToRemote
  <1> QED
    BY <1>1, <1>2, <1>3, <1>4, Shapes DEF Outputs

LEMMA DispatchedAlways == Spec => []Dispatched
  <1>1. Init => Dispatched
    BY DEF Init, Tracker!Init, Dispatched
  <1> QED
    BY <1>1, DispatchedStep, PTL DEF Spec

LEMMA PortsAreNumbers == Port \subseteq Nat
  <1> DEFINE top == 65535
  <1>1. top \in Nat
    BY SMT
  <1>2. Port = 0 .. top
    BY DEF Port
  <1> HIDE DEF top
  <1>3. \A n \in Nat : 0 .. n \subseteq Nat
    BY SMT
  <1>4. QED
    BY <1>1, <1>2, <1>3, Zenon

\* what the code dispatches lies inside what its comment reserves
LEMMA JausReserved == JausPorts \subseteq ReservedPorts
  <1> SUFFICES ASSUME NEW p \in Port, 900 < p, p < 945
               PROVE  p \in ReservedPorts
    BY DEF JausPorts, START, END
  <1>1. p \in Nat
    BY PortsAreNumbers
  <1>2. p \in 900 .. 1100
    BY <1>1
  <1> QED
    BY <1>2 DEF ReservedPorts

\* A response to the agent ends in JausBridge and one to a client outside the
\* reserved ports is sent to that client, for every choice of ports, message
\* IDs and tokens.
THEOREM SidesStayApart == Spec => []SidesKeptApart
  <1>1. OwnPorts \subseteq JausPorts
    BY OwnPortsAssumption
  <1>2. Dispatched /\ Tracker!ResponsesReachClient => SidesKeptApart
    BY <1>1, JausReserved
       DEF Dispatched, Tracker!ResponsesReachClient, SidesKeptApart
  <1> QED
    BY <1>2, DispatchedAlways, BridgeRoutesResponses, PTL

\* what is evaluated has its owner's port, or is one of the exceptions
LEMMA EvaluatedOwner ==
    ASSUME Dispatched, Tracker!ResponsesReachClient,
           TrackerProofs!OwnerOrServer, evaluated # {}, NEW d \in sent,
           ~Tracker!LooksTracked(d.item),
           ~(RoutedByMid(d.item) /\ d.item.unmapped)
    PROVE  d.item.owner \in ReservedPorts
  <1>1. d.port \in JausPorts /\ DefaultPort \notin JausPorts
    BY OwnPortsAssumption DEF Dispatched
  <1>2. ~TrackerProofs!LooksTracked(d.item)
    BY Zenon DEF Tracker!LooksTracked, Tracker!HasTracking,
                 TrackerProofs!LooksTracked, TrackerProofs!HasTracking
  <1>3. d.port = d.item.owner
    <2>1. CASE d.item.msg.code = "response" /\ Len(d.item.token) < 5
      BY <2>1 DEF Tracker!ResponsesReachClient
    <2>2. CASE ~(d.item.msg.code = "response" /\ Len(d.item.token) < 5)
      <3>1. d.port \in {d.item.owner, DefaultPort} \/ d.item.unmapped
        BY <1>2 DEF TrackerProofs!OwnerOrServer
      <3>2. ~d.item.unmapped
        BY <2>2 DEF RoutedByMid
      <3> QED
        BY <1>1, <3>1, <3>2
    <2> QED
      BY <2>1, <2>2
  <1> QED
    BY <1>1, <1>3, JausReserved

\* JausBridge is only given what answers the agent itself, but for the listed
\* exceptions, for every choice of ports, message IDs, tokens and timeouts.
THEOREM OnlyOwnIsEvaluated == Spec => []OnlyOwnEvaluated
  <1>1. Dispatched /\ Tracker!ResponsesReachClient
        /\ TrackerProofs!OwnerOrServer => OnlyOwnEvaluated
    BY EvaluatedOwner DEF OnlyOwnEvaluated
  <1> QED
    BY <1>1, DispatchedAlways, BridgeRoutesResponses, BridgeKeepsOwners, PTL

\* the datagram of the step in which the agent leaves main
LEMMA BatteryPort ==
    ASSUME NEW d \in sent, Tracker!KnownPorts, d.port = BATTERYSTATUS
    PROVE  BATTERYSTATUS \in Clients \/ Tracker!LooksTracked(d.item)
  <1>1. BATTERYSTATUS \in JausPorts
    BY DEF BATTERYSTATUS, JausPorts, Port, START, END
  <1>2. BATTERYSTATUS # DefaultPort /\ BATTERYSTATUS \notin OwnPorts
    BY <1>1, OwnPortsAssumption
  <1> QED
    BY <1>2 DEF Tracker!KnownPorts

ExitsAtBattery ==
    ~alive => serialFailed \/ \E d \in sent : d.port = BATTERYSTATUS

LEMMA ExitsStep == ASSUME ExitsAtBattery, [Next]_vars PROVE ExitsAtBattery'
  <1>1. CASE UNCHANGED vars
    BY <1>1 DEF ExitsAtBattery, vars, trackerVars
  <1>2. CASE Next /\ alive' = alive
    BY <1>2 DEF Next, ExitsAtBattery
  <1>3. CASE serialFailed'
    BY <1>3 DEF ExitsAtBattery
  <1>4. ASSUME NEW d, sent' = {d}, NEW payload,
               evaluateCoapJausMessage(d.port, payload)
        PROVE  ExitsAtBattery'
    BY <1>4 DEF ExitsAtBattery, evaluateCoapJausMessage, Throws
  <1>5. ASSUME NEW d, sendToRemote(d), Next
        PROVE  ExitsAtBattery'
    BY <1>2, <1>5 DEF sendToRemote
  <1> QED
    BY <1>1, <1>2, <1>3, <1>4, <1>5, Shapes

\* The agent leaves main only for a serial failure or an undecodable answer to
\* the battery port, which it never asks for itself.
THEOREM ExitsAreExplained == Spec => []ExitsExplained
  <1>1. Init => ExitsAtBattery
    BY DEF Init, ExitsAtBattery
  <1>2. ExitsAtBattery /\ Tracker!KnownPorts => ExitsExplained
    BY BatteryPort DEF ExitsAtBattery, ExitsExplained
  <1>3. Spec => []ExitsAtBattery
    BY <1>1, ExitsStep, PTL DEF Spec
  <1> QED
    BY <1>2, <1>3, BridgeKnowsPorts, PTL

=============================================================================
