----------------------- MODULE VehicleControl_proofs ------------------------
(***************************************************************************)
(* Proofs about VehicleControl for every set of reports, every bound and   *)
(* every set of faults: types, the authority of each wrench effort, the    *)
(* implementation of the abstract hand-over, and the number of exchanges   *)
(* with the vehicle.                                                       *)
(***************************************************************************)
EXTENDS VehicleControl, FiniteSetTheorems, TLAPS

-----------------------------------------------------------------------------
(* Messages and the queue *)

\* The head of the queue is one of the two kinds of message, and a joystick
\* message carries a report.
LEMMA QueueHead ==
    ASSUME queue \in Seq(BridgeMessages), queue # <<>>
    PROVE  /\ Tail(queue) \in Seq(BridgeMessages)
           /\ Head(queue).kind = "JoystickInput" =>
                /\ Head(queue).input.rDown \in BOOLEAN
                /\ Head(queue).input.stick \in Sticks
  <1>1. Head(queue) \in BridgeMessages /\ Tail(queue) \in Seq(BridgeMessages)
    OBVIOUS
  <1>2. ASSUME Head(queue).kind = "JoystickInput"
        PROVE  Head(queue).input \in Inputs
    BY <1>1, <1>2 DEF BridgeMessages, JoystickInput, JAUSResponse
  <1>3. QED
    BY <1>1, <1>2, InputsAssumption DEF Reports

LEMMA Posting ==
    ASSUME queue \in Seq(BridgeMessages)
    PROVE  /\ Append(queue, JAUSResponse) \in Seq(BridgeMessages)
           /\ \A input \in Inputs :
                Append(queue, JoystickInput(input)) \in Seq(BridgeMessages)
  <1>1. JAUSResponse \in BridgeMessages
    BY DEF BridgeMessages
  <1>2. \A input \in Inputs : JoystickInput(input) \in BridgeMessages
    BY DEF BridgeMessages
  <1>3. QED
    BY <1>1, <1>2

\* Sending, taking and answering keep the network a bag of messages.
LEMMA Bag ==
    ASSUME net \in [Messages -> Nat], NEW m \in Messages
    PROVE  /\ With(m) \in [Messages -> Nat]
           /\ net[m] > 0 => Without(m) \in [Messages -> Nat]
           /\ \A n \in Messages :
                With(m)[n] = IF n = m THEN net[n] + 1 ELSE net[n]
           /\ \A n \in Messages :
                Without(m)[n] = IF n = m THEN net[n] - 1 ELSE net[n]
  BY DEF With, Without

LEMMA Answer ==
    ASSUME net \in [Messages -> Nat], NEW m \in Messages, net[m] > 0,
           NEW answer \in Messages, m # answer
    PROVE  /\ Replaced(m, answer) \in [Messages -> Nat]
           /\ \A n \in Messages :
                Replaced(m, answer)[n] = IF n = m THEN net[n] - 1
                                         ELSE IF n = answer THEN net[n] + 1
                                         ELSE net[n]
  BY DEF Replaced

LEMMA MessageKinds ==
    /\ Commands \subseteq Messages
    /\ ControlReplies \subseteq Messages
    /\ StatusReports \subseteq Messages
    /\ \A m \in {"RequestControl", "Resume", "QueryStatus", "ConfirmControl",
                "RejectControl", "STANDBY", "READY"} : m \in Messages
    /\ "RequestControl" \notin ControlReplies
    /\ "QueryStatus" \notin StatusReports
  BY DEF Messages, Commands, ControlReplies, StatusReports

-----------------------------------------------------------------------------
(* Types *)

LEMMA TypeInit == Init => TypeOK
  <1> SUFFICES ASSUME Init PROVE TypeOK
    OBVIOUS
  <1>1. BridgeTypeOK
    <2>1. queue \in Seq(BridgeMessages)
      BY DEF Init
    <2>2. running \in BOOLEAN /\ pc \in Labels /\ lastJs \in Inputs \cup {NoInput}
      BY DEF Init, Labels
    <2>3. QED
      BY <2>1, <2>2 DEF BridgeTypeOK
  <1>2. MachineTypeOK
    BY DEF Init, MachineTypeOK, States
  <1>3. ClientTypeOK
    BY DEF Init, ClientTypeOK
  <1>4. EnvironmentTypeOK
    BY BoundsAssumption DEF Init, EnvironmentTypeOK
  <1>5. HistoryTypeOK
    BY Zenon DEF Init, HistoryTypeOK
  <1>6. QED
    BY <1>1, <1>2, <1>3, <1>4, <1>5 DEF TypeOK

\* A step that leaves a group of variables alone keeps its types.
LEMMA TypeFrame ==
    ASSUME TypeOK
    PROVE  /\ UNCHANGED bridge => BridgeTypeOK'
           /\ UNCHANGED machine => MachineTypeOK'
           /\ UNCHANGED <<serverValid, flags, callback>> => ClientTypeOK'
           /\ UNCHANGED <<net, vehicle, budget>> => EnvironmentTypeOK'
           /\ UNCHANGED history => HistoryTypeOK'
  <1>1. UNCHANGED bridge => BridgeTypeOK'
    BY DEF TypeOK, BridgeTypeOK, bridge
  <1>2. UNCHANGED machine => MachineTypeOK'
    BY DEF TypeOK, MachineTypeOK, machine
  <1>3. UNCHANGED <<serverValid, flags, callback>> => ClientTypeOK'
    BY DEF TypeOK, ClientTypeOK, flags
  <1>4. UNCHANGED <<net, vehicle, budget>> => EnvironmentTypeOK'
    BY DEF TypeOK, EnvironmentTypeOK, vehicle, budget
  <1>5. UNCHANGED history => HistoryTypeOK'
    BY DEF TypeOK, HistoryTypeOK, history
  <1>6. QED
    BY <1>1, <1>2, <1>3, <1>4, <1>5

LEMMA TypeService == TypeOK /\ ServiceThread => TypeOK'
  <1> SUFFICES ASSUME TypeOK, ServiceThread PROVE TypeOK'
    OBVIOUS
  <1>1. CASE serviceLoopExits
    <2>1. BridgeTypeOK'
      BY <1>1 DEF TypeOK, BridgeTypeOK, serviceLoopExits, Labels
    <2>2. MachineTypeOK' /\ ClientTypeOK' /\ EnvironmentTypeOK' /\
       HistoryTypeOK'
      BY <1>1, TypeFrame DEF serviceLoopExits, machine, flags, vehicle,
         budget, history
    <2>3. QED
      BY <2>1, <2>2 DEF TypeOK
  <1>2. CASE InitializeHandleInput
    <2>1. BridgeTypeOK'
      BY <1>2, QueueHead DEF TypeOK, BridgeTypeOK, InitializeHandleInput,
         PopInput, Pop
    <2>2. MachineTypeOK'
      BY <1>2, QueueHead DEF TypeOK, MachineTypeOK, InitializeHandleInput,
         PopInput, Pop, BridgeTypeOK, Enter, NotesButton, States
    <2>3. ClientTypeOK'
      BY <1>2 DEF TypeOK, ClientTypeOK, InitializeHandleInput, PopInput,
         Pop, flags
    <2>4. HistoryTypeOK'
      BY <1>2, QueueHead DEF TypeOK, HistoryTypeOK, InitializeHandleInput,
         PopInput, Pop, BridgeTypeOK
    <2>5. EnvironmentTypeOK'
      BY <1>2, TypeFrame DEF InitializeHandleInput, PopInput, Pop, vehicle,
         budget
    <2>6. QED
      BY <2>1, <2>2, <2>3, <2>4, <2>5 DEF TypeOK
  <1>3. CASE ControlHandleInput
    <2>1. BridgeTypeOK'
      BY <1>3, QueueHead DEF TypeOK, BridgeTypeOK, ControlHandleInput,
         PopInput, Pop, Labels
    <2>2. MachineTypeOK'
      BY <1>3, QueueHead DEF TypeOK, MachineTypeOK, ControlHandleInput,
         PopInput, Pop, BridgeTypeOK, ClientTypeOK, NotesButton
    <2>3. HistoryTypeOK'
      BY <1>3, QueueHead DEF TypeOK, HistoryTypeOK, ControlHandleInput,
         PopInput, Pop, BridgeTypeOK
    <2>4. ClientTypeOK' /\ EnvironmentTypeOK'
      BY <1>3, TypeFrame DEF ControlHandleInput, PopInput, Pop, flags,
         vehicle, budget
    <2>5. QED
      BY <2>1, <2>2, <2>3, <2>4 DEF TypeOK
  <1>4. CASE StandbyHandleInput
    <2>1. BridgeTypeOK'
      BY <1>4, QueueHead DEF TypeOK, BridgeTypeOK, StandbyHandleInput,
         PopInput, Pop, Labels
    <2>2. MachineTypeOK'
      BY <1>4, QueueHead DEF TypeOK, MachineTypeOK, StandbyHandleInput,
         PopInput, Pop, BridgeTypeOK, ClientTypeOK, NotesButton
    <2>3. EnvironmentTypeOK'
      <3>1. net \in [Messages -> Nat] /\ "Resume" \in Messages
        BY MessageKinds DEF TypeOK, EnvironmentTypeOK
      <3>2. With("Resume") \in [Messages -> Nat]
        BY <3>1, Bag
      <3>3. net' \in [Messages -> Nat] /\ UNCHANGED <<vehicle, budget>>
        BY <1>4, <3>1, <3>2 DEF StandbyHandleInput, PopInput, Pop
      <3>4. QED
        BY <3>3 DEF TypeOK, EnvironmentTypeOK, vehicle, budget
    <2>4. HistoryTypeOK'
      BY <1>4, QueueHead DEF TypeOK, HistoryTypeOK, StandbyHandleInput,
         PopInput, Pop, BridgeTypeOK
    <2>5. ClientTypeOK'
      BY <1>4, TypeFrame DEF StandbyHandleInput, PopInput, Pop, flags
    <2>6. QED
      BY <2>1, <2>2, <2>3, <2>4, <2>5 DEF TypeOK
  <1>5. CASE ReadyHandleInput
    <2>1. BridgeTypeOK'
      BY <1>5, QueueHead DEF TypeOK, BridgeTypeOK, ReadyHandleInput,
         PopInput, Pop
    <2>2. HistoryTypeOK'
      BY <1>5, QueueHead DEF TypeOK, HistoryTypeOK, ReadyHandleInput,
         PopInput, Pop, BridgeTypeOK
    <2>3. MachineTypeOK' /\ ClientTypeOK' /\ EnvironmentTypeOK'
      BY <1>5, TypeFrame DEF ReadyHandleInput, PopInput, Pop, machine,
         flags, vehicle, budget
    <2>4. QED
      BY <2>1, <2>2, <2>3 DEF TypeOK
  <1>6. CASE ControlHandleResponse
    <2>1. BridgeTypeOK'
      BY <1>6, QueueHead DEF TypeOK, BridgeTypeOK, ControlHandleResponse,
         PopResponse, Pop, Labels
    <2>2. MachineTypeOK'
      BY <1>6 DEF TypeOK, MachineTypeOK, ControlHandleResponse, PopResponse,
         Pop, Enter, States, machine
    <2>3. ClientTypeOK' /\ EnvironmentTypeOK' /\ HistoryTypeOK'
      BY <1>6, TypeFrame DEF ControlHandleResponse, PopResponse, Pop, flags,
         vehicle, budget, history
    <2>4. QED
      BY <2>1, <2>2, <2>3 DEF TypeOK
  <1>7. CASE StandbyHandleResponse
    <2>1. BridgeTypeOK'
      BY <1>7, QueueHead DEF TypeOK, BridgeTypeOK, StandbyHandleResponse,
         PopResponse, Pop, Labels
    <2>2. MachineTypeOK'
      BY <1>7 DEF TypeOK, MachineTypeOK, StandbyHandleResponse, PopResponse,
         Pop, Enter, States, machine
    <2>3. ClientTypeOK' /\ EnvironmentTypeOK' /\ HistoryTypeOK'
      BY <1>7, TypeFrame DEF StandbyHandleResponse, PopResponse, Pop, flags,
         vehicle, budget, history
    <2>4. QED
      BY <2>1, <2>2, <2>3 DEF TypeOK
  <1>8. CASE IgnoreResponse
    <2>1. BridgeTypeOK'
      BY <1>8, QueueHead DEF TypeOK, BridgeTypeOK, IgnoreResponse,
         PopResponse, Pop
    <2>2. MachineTypeOK' /\ ClientTypeOK' /\ EnvironmentTypeOK' /\
       HistoryTypeOK'
      BY <1>8, TypeFrame DEF IgnoreResponse, PopResponse, Pop, machine,
         flags, vehicle, budget, history
    <2>3. QED
      BY <2>1, <2>2 DEF TypeOK
  <1>9. CASE sendRequestControl
    <2>1. BridgeTypeOK'
      BY <1>9 DEF TypeOK, BridgeTypeOK, sendRequestControl, Request, Labels
    <2>2. EnvironmentTypeOK'
      BY <1>9, Bag, MessageKinds DEF TypeOK, EnvironmentTypeOK,
         sendRequestControl, Request, vehicle, budget
    <2>3. MachineTypeOK' /\ ClientTypeOK' /\ HistoryTypeOK'
      BY <1>9, TypeFrame DEF sendRequestControl, Request, machine, flags,
         history
    <2>4. QED
      BY <2>1, <2>2, <2>3 DEF TypeOK
  <1>10. CASE queryStatus
    <2>1. BridgeTypeOK'
      BY <1>10 DEF TypeOK, BridgeTypeOK, queryStatus, Request, Labels
    <2>2. EnvironmentTypeOK'
      BY <1>10, Bag, MessageKinds DEF TypeOK, EnvironmentTypeOK,
         queryStatus, Request, vehicle, budget
    <2>3. MachineTypeOK' /\ ClientTypeOK' /\ HistoryTypeOK'
      BY <1>10, TypeFrame DEF queryStatus, Request, machine, flags, history
    <2>4. QED
      BY <2>1, <2>2, <2>3 DEF TypeOK
  <1>11. CASE setPending
    <2>1. BridgeTypeOK'
      BY <1>11 DEF TypeOK, BridgeTypeOK, setPending, Labels
    <2>2. ClientTypeOK'
      BY <1>11 DEF TypeOK, ClientTypeOK, setPending
    <2>3. MachineTypeOK' /\ EnvironmentTypeOK' /\ HistoryTypeOK'
      BY <1>11, TypeFrame DEF setPending, machine, vehicle, budget, history
    <2>4. QED
      BY <2>1, <2>2, <2>3 DEF TypeOK
  <1>12. QED
    BY <1>1, <1>2, <1>3, <1>4, <1>5, <1>6, <1>7, <1>8, <1>9, <1>10, <1>11
       DEF ServiceThread

LEMMA TypeCallback == TypeOK /\ OpenJAUSThread => TypeOK'
  <1> SUFFICES ASSUME TypeOK, OpenJAUSThread PROVE TypeOK'
    OBVIOUS
  <1>1. ASSUME NEW m \in ControlReplies, handleRequestControlResponse(m)
        PROVE  TypeOK'
    <2>1. ClientTypeOK'
      BY <1>1 DEF TypeOK, ClientTypeOK, handleRequestControlResponse, Receive
    <2>2. EnvironmentTypeOK'
      BY <1>1, Bag, MessageKinds DEF TypeOK, EnvironmentTypeOK,
         handleRequestControlResponse, Receive, vehicle, budget
    <2>3. BridgeTypeOK' /\ MachineTypeOK' /\ HistoryTypeOK'
      BY <1>1, TypeFrame DEF handleRequestControlResponse, Receive, bridge,
         machine, history
    <2>4. QED
      BY <2>1, <2>2, <2>3 DEF TypeOK
  <1>2. ASSUME NEW m \in StatusReports, handleIncomingReportStatus(m)
        PROVE  TypeOK'
    <2>1. ClientTypeOK'
      BY <1>2 DEF TypeOK, ClientTypeOK, handleIncomingReportStatus, Receive
    <2>2. EnvironmentTypeOK'
      BY <1>2, Bag, MessageKinds DEF TypeOK, EnvironmentTypeOK,
         handleIncomingReportStatus, Receive, vehicle, budget
    <2>3. BridgeTypeOK' /\ MachineTypeOK' /\ HistoryTypeOK'
      BY <1>2, TypeFrame DEF handleIncomingReportStatus, Receive, bridge,
         machine, history
    <2>4. QED
      BY <2>1, <2>2, <2>3 DEF TypeOK
  <1>3. CASE clearPending
    <2>1. ClientTypeOK'
      BY <1>3 DEF TypeOK, ClientTypeOK, clearPending
    <2>2. BridgeTypeOK' /\ MachineTypeOK' /\ EnvironmentTypeOK' /\
       HistoryTypeOK'
      BY <1>3, TypeFrame DEF clearPending, bridge, machine, vehicle, budget,
         history
    <2>3. QED
      BY <2>1, <2>2 DEF TypeOK
  <1>4. CASE postJAUSResponse
    <2>1. BridgeTypeOK'
      BY <1>4, Posting DEF TypeOK, BridgeTypeOK, postJAUSResponse
    <2>2. ClientTypeOK'
      BY <1>4 DEF TypeOK, ClientTypeOK, postJAUSResponse, flags
    <2>3. MachineTypeOK' /\ EnvironmentTypeOK' /\ HistoryTypeOK'
      BY <1>4, TypeFrame DEF postJAUSResponse, machine, vehicle, budget,
         history
    <2>4. QED
      BY <2>1, <2>2, <2>3 DEF TypeOK
  <1>5. QED
    BY <1>1, <1>2, <1>3, <1>4 DEF OpenJAUSThread

LEMMA TypeVehicle == TypeOK /\ Vehicle => TypeOK'
  <1> SUFFICES ASSUME TypeOK, Vehicle PROVE TypeOK'
    OBVIOUS
  <1>1. CASE VehicleRegisters
    <2>1. EnvironmentTypeOK'
      BY <1>1 DEF TypeOK, EnvironmentTypeOK, VehicleRegisters, agent, budget
    <2>2. BridgeTypeOK' /\ MachineTypeOK' /\ ClientTypeOK' /\ HistoryTypeOK'
      BY <1>1, TypeFrame DEF VehicleRegisters, agent, bridge, machine,
         flags, history
    <2>3. QED
      BY <2>1, <2>2 DEF TypeOK
  <1>2. ASSUME NEW m \in ControlReplies, VehicleAnswersControl(m)
        PROVE  TypeOK'
    <2>1. EnvironmentTypeOK'
      BY <1>2, Answer, MessageKinds DEF TypeOK, EnvironmentTypeOK,
         VehicleAnswersControl, agent, vehicle, budget
    <2>2. HistoryTypeOK'
      BY <1>2 DEF TypeOK, HistoryTypeOK, VehicleAnswersControl, agent
    <2>3. BridgeTypeOK' /\ MachineTypeOK' /\ ClientTypeOK'
      BY <1>2, TypeFrame DEF VehicleAnswersControl, agent, bridge, machine,
         flags
    <2>4. QED
      BY <2>1, <2>2, <2>3 DEF TypeOK
  <1>3. CASE VehicleResumes
    <2>1. EnvironmentTypeOK'
      BY <1>3, Bag, MessageKinds DEF TypeOK, EnvironmentTypeOK,
         VehicleResumes, agent, StatusReports, budget
    <2>2. HistoryTypeOK'
      BY <1>3 DEF TypeOK, HistoryTypeOK, VehicleResumes, agent
    <2>3. BridgeTypeOK' /\ MachineTypeOK' /\ ClientTypeOK'
      BY <1>3, TypeFrame DEF VehicleResumes, agent, bridge, machine, flags
    <2>4. QED
      BY <2>1, <2>2, <2>3 DEF TypeOK
  <1>4. CASE VehicleReportsStatus
    <2>1. EnvironmentTypeOK'
      BY <1>4, Answer, MessageKinds DEF TypeOK, EnvironmentTypeOK,
         VehicleReportsStatus, agent, vehicle, budget
    <2>2. BridgeTypeOK' /\ MachineTypeOK' /\ ClientTypeOK' /\ HistoryTypeOK'
      BY <1>4, TypeFrame DEF VehicleReportsStatus, agent, bridge, machine,
         flags, history
    <2>3. QED
      BY <2>1, <2>2 DEF TypeOK
  <1>5. QED
    BY <1>1, <1>2, <1>3, <1>4 DEF Vehicle

LEMMA TypeStep == TypeOK /\ [Next]_vars => TypeOK'
  <1> SUFFICES ASSUME TypeOK, [Next]_vars PROVE TypeOK'
    OBVIOUS
  <1>1. CASE startServiceLoop
    <2>1. BridgeTypeOK'
      BY <1>1 DEF TypeOK, BridgeTypeOK, startServiceLoop, Labels
    <2>2. MachineTypeOK' /\ ClientTypeOK' /\ EnvironmentTypeOK' /\
       HistoryTypeOK'
      BY <1>1, TypeFrame DEF startServiceLoop, machine, flags, vehicle,
         budget, history
    <2>3. QED
      BY <2>1, <2>2 DEF TypeOK
  <1>2. CASE stopServiceLoop
    <2>1. BridgeTypeOK'
      BY <1>2 DEF TypeOK, BridgeTypeOK, stopServiceLoop
    <2>2. MachineTypeOK' /\ ClientTypeOK' /\ EnvironmentTypeOK' /\
       HistoryTypeOK'
      BY <1>2, TypeFrame DEF stopServiceLoop, machine, flags, vehicle,
         budget, history
    <2>3. QED
      BY <2>1, <2>2 DEF TypeOK
  <1>3. ASSUME NEW input \in Inputs, postInput(input)
        PROVE  TypeOK'
    <2>1. BridgeTypeOK'
      BY <1>3, Posting DEF TypeOK, BridgeTypeOK, postInput
    <2>2. MachineTypeOK' /\ ClientTypeOK' /\ EnvironmentTypeOK' /\
       HistoryTypeOK'
      BY <1>3, TypeFrame DEF postInput, machine, flags, vehicle, budget,
         history
    <2>3. QED
      BY <2>1, <2>2 DEF TypeOK
  <1>4. CASE ServiceThread
    BY <1>4, TypeService
  <1>5. CASE OpenJAUSThread
    BY <1>5, TypeCallback
  <1>6. CASE Vehicle
    BY <1>6, TypeVehicle
  <1>7. ASSUME NEW m \in StatusReports, UnsolicitedReport(m)
        PROVE  TypeOK'
    <2>1. EnvironmentTypeOK'
      BY <1>7, Bag, MessageKinds, BoundsAssumption DEF TypeOK,
         EnvironmentTypeOK, UnsolicitedReport, agent, vehicle
    <2>2. BridgeTypeOK' /\ MachineTypeOK' /\ ClientTypeOK' /\ HistoryTypeOK'
      BY <1>7, TypeFrame DEF UnsolicitedReport, agent, bridge, machine,
         flags, history
    <2>3. QED
      BY <2>1, <2>2 DEF TypeOK
  <1>8. CASE VehicleDies
    <2>1. EnvironmentTypeOK'
      BY <1>8 DEF TypeOK, EnvironmentTypeOK, VehicleDies, agent, budget
    <2>2. BridgeTypeOK' /\ MachineTypeOK' /\ ClientTypeOK' /\ HistoryTypeOK'
      BY <1>8, TypeFrame DEF VehicleDies, agent, bridge, machine, flags,
         history
    <2>3. QED
      BY <2>1, <2>2 DEF TypeOK
  <1>9. ASSUME NEW m \in Messages, Lose(m)
        PROVE  TypeOK'
    <2>1. EnvironmentTypeOK'
      BY <1>9, Bag, MessageKinds, BoundsAssumption DEF TypeOK,
         EnvironmentTypeOK, Lose, agent, vehicle
    <2>2. BridgeTypeOK' /\ MachineTypeOK' /\ ClientTypeOK' /\ HistoryTypeOK'
      BY <1>9, TypeFrame DEF Lose, agent, bridge, machine, flags, history
    <2>3. QED
      BY <2>1, <2>2 DEF TypeOK
  <1>10. CASE UNCHANGED vars
    <2>1. BridgeTypeOK' /\ MachineTypeOK' /\ ClientTypeOK' /\
       EnvironmentTypeOK' /\ HistoryTypeOK'
      BY <1>10, TypeFrame DEF vars, bridge, machine, flags, vehicle, budget,
         history
    <2>2. QED
      BY <2>1 DEF TypeOK
  <1>11. QED
    BY <1>1, <1>2, <1>3, <1>4, <1>5, <1>6, <1>7, <1>8, <1>9, <1>10 DEF Next

\* TypeOK holds in every reachable state of the bridge, its state machine,
\* the client and their environment.
THEOREM TypeCorrect == Spec => []TypeOK
  <1>1. Init => TypeOK
    BY TypeInit
  <1>2. TypeOK /\ [Next]_vars => TypeOK'
    BY TypeStep
  <1>3. QED
    BY <1>1, <1>2, PTL DEF Spec

-----------------------------------------------------------------------------
(* Authority: EffortAuthorised is not inductive, because the state machine  *)
(* trusts flags set by callbacks from messages sent by the vehicle. The     *)
(* chain adds what each link carries.                                       *)

Authority == AuthorityChain /\ EffortAuthorised

LEMMA AuthorityInit == Init => Authority
  <1> SUFFICES ASSUME Init PROVE Authority
    OBVIOUS
  <1>1. \A m \in Messages : net[m] = 0
    BY DEF Init
  <1>2. vehicleStatus = "READY" => wasReady
    BY Zenon DEF Init
  <1>3. EffortAuthorised
    BY DEF Init, EffortAuthorised
  <1>4. AuthorityChain
    BY <1>1, <1>2, MessageKinds DEF Init, AuthorityChain
  <1>5. QED
    BY <1>3, <1>4 DEF Authority

\* The variables the authority speaks of.
links == <<pc, state, controlGranted, currentStatus, net, vehicleStatus,
           effort, confirmed, wasReady>>

LEMMA AuthorityFrame == Authority /\ UNCHANGED links => Authority'
  BY DEF Authority, AuthorityChain, EffortAuthorised, links

LEMMA AuthorityService ==
    TypeOK /\ Authority /\ ServiceThread => Authority'
  <1> SUFFICES ASSUME TypeOK, Authority, ServiceThread
               PROVE  Authority'
    OBVIOUS
  <1> USE MessageKinds DEF TypeOK, EnvironmentTypeOK
  <1>1. CASE serviceLoopExits
    BY <1>1 DEF serviceLoopExits, machine, flags, vehicle, history,
       Authority, AuthorityChain, EffortAuthorised
  <1>2. CASE InitializeHandleInput
    BY <1>2 DEF InitializeHandleInput, PopInput, Pop, Enter, flags, vehicle,
       Authority, AuthorityChain, EffortAuthorised
  <1>3. CASE ControlHandleInput
    BY <1>3 DEF ControlHandleInput, PopInput, Pop, flags, vehicle,
       Authority, AuthorityChain, EffortAuthorised
  <1>4. CASE StandbyHandleInput
    <2>1. \A m \in Messages : net'[m] = net[m] \/ m = "Resume"
      BY <1>4, Bag DEF StandbyHandleInput
    <2>2. /\ state = "Standby"
          /\ UNCHANGED <<state, controlGranted, currentStatus,
             vehicleStatus, effort>>
          /\ UNCHANGED <<confirmed, wasReady>>
          /\ pc' = pc \/ pc' = "queryStatus"
      BY <1>4 DEF StandbyHandleInput, PopInput, Pop, flags, vehicle
    <2>3. QED
      BY <2>1, <2>2 DEF Authority, AuthorityChain, EffortAuthorised
  <1>5. CASE ReadyHandleInput
    BY <1>5 DEF ReadyHandleInput, PopInput, Pop, machine, flags, vehicle,
       Authority, AuthorityChain, EffortAuthorised
  <1>6. CASE ControlHandleResponse
    BY <1>6 DEF ControlHandleResponse, PopResponse, Pop, Enter, machine,
       flags, vehicle, Authority, AuthorityChain, EffortAuthorised
  <1>7. CASE StandbyHandleResponse
    BY <1>7 DEF StandbyHandleResponse, PopResponse, Pop, Enter, machine,
       flags, vehicle, Authority, AuthorityChain, EffortAuthorised
  <1>8. CASE IgnoreResponse
    BY <1>8, AuthorityFrame DEF IgnoreResponse, PopResponse, Pop, machine,
       flags, vehicle, links
  <1>9. CASE sendRequestControl
    BY <1>9, Bag DEF sendRequestControl, Request, machine, flags, vehicle,
       history, Authority, AuthorityChain, EffortAuthorised
  <1>10. CASE queryStatus
    BY <1>10, Bag DEF queryStatus, Request, machine, flags, vehicle,
       history, Authority, AuthorityChain, EffortAuthorised
  <1>11. CASE setPending
    BY <1>11 DEF setPending, machine, vehicle, history, Authority,
       AuthorityChain, EffortAuthorised
  <1>12. QED
    BY <1>1, <1>2, <1>3, <1>4, <1>5, <1>6, <1>7, <1>8, <1>9, <1>10, <1>11
       DEF ServiceThread

LEMMA AuthorityCallback ==
    TypeOK /\ Authority /\ OpenJAUSThread => Authority'
  <1> SUFFICES ASSUME TypeOK, Authority, OpenJAUSThread
               PROVE  Authority'
    OBVIOUS
  <1> USE MessageKinds DEF TypeOK, EnvironmentTypeOK
  <1>1. ASSUME NEW m \in ControlReplies, handleRequestControlResponse(m)
        PROVE  Authority'
    BY <1>1, Bag DEF handleRequestControlResponse, Receive, bridge, machine,
       vehicle, history, ControlReplies, Authority, AuthorityChain,
       EffortAuthorised
  <1>2. ASSUME NEW m \in StatusReports, handleIncomingReportStatus(m)
        PROVE  Authority'
    BY <1>2, Bag DEF handleIncomingReportStatus, Receive, bridge, machine,
       vehicle, history, StatusReports, Authority, AuthorityChain,
       EffortAuthorised
  <1>3. CASE clearPending
    BY <1>3, AuthorityFrame DEF clearPending, bridge, machine, vehicle,
       history, links
  <1>4. CASE postJAUSResponse
    BY <1>4, AuthorityFrame DEF postJAUSResponse, machine, flags, vehicle,
       history, links
  <1>5. QED
    BY <1>1, <1>2, <1>3, <1>4 DEF OpenJAUSThread

LEMMA AuthorityVehicle ==
    TypeOK /\ Authority /\ Vehicle => Authority'
  <1> SUFFICES ASSUME TypeOK, Authority, Vehicle
               PROVE  Authority'
    OBVIOUS
  <1> USE MessageKinds DEF TypeOK, EnvironmentTypeOK
  <1>1. CASE VehicleRegisters
    BY <1>1, AuthorityFrame DEF VehicleRegisters, agent, bridge, machine,
       flags, links
  <1>2. ASSUME NEW m \in ControlReplies, VehicleAnswersControl(m)
        PROVE  Authority'
    <2>1. /\ state # "Initialize"
          /\ UNCHANGED <<agent, vehicle, wasReady>>
          /\ confirmed => confirmed'
          /\ m = "ConfirmControl" => confirmed'
      BY <1>2 DEF VehicleAnswersControl, Authority, AuthorityChain
    <2>2. \A n \in Messages : net'[n] > 0 => net[n] > 0 \/ n = m
      BY <1>2, Answer DEF VehicleAnswersControl
    <2>3. m \in {"ConfirmControl", "RejectControl"}
      BY DEF ControlReplies
    <2>4. QED
      BY <2>1, <2>2, <2>3 DEF Authority, AuthorityChain, EffortAuthorised,
         agent,
         bridge, machine, flags, vehicle
  <1>3. CASE VehicleResumes
    BY <1>3, Bag DEF VehicleResumes, agent, bridge, machine, flags, vehicle,
       Authority, AuthorityChain, EffortAuthorised
  <1>4. CASE VehicleReportsStatus
    BY <1>4, Answer DEF VehicleReportsStatus, StatusReports, agent, bridge,
       machine, flags, vehicle, Authority, AuthorityChain, EffortAuthorised
  <1>5. QED
    BY <1>1, <1>2, <1>3, <1>4 DEF Vehicle

LEMMA AuthorityStep ==
    TypeOK /\ Authority /\ [Next]_vars => Authority'
  <1> SUFFICES ASSUME TypeOK, Authority, [Next]_vars
               PROVE  Authority'
    OBVIOUS
  <1> USE MessageKinds DEF TypeOK, EnvironmentTypeOK
  <1>1. CASE startServiceLoop
    BY <1>1 DEF startServiceLoop, machine, flags, vehicle, history,
       Authority, AuthorityChain, EffortAuthorised
  <1>2. CASE stopServiceLoop
    BY <1>2, AuthorityFrame DEF stopServiceLoop, machine, flags, vehicle,
       history, links
  <1>3. ASSUME NEW input \in Inputs, postInput(input)
        PROVE  Authority'
    BY <1>3, AuthorityFrame DEF postInput, machine, flags, vehicle, history,
       links
  <1>4. CASE ServiceThread
    BY <1>4, AuthorityService
  <1>5. CASE OpenJAUSThread
    BY <1>5, AuthorityCallback
  <1>6. CASE Vehicle
    BY <1>6, AuthorityVehicle
  <1>7. ASSUME NEW m \in StatusReports, UnsolicitedReport(m)
        PROVE  Authority'
    BY <1>7, Bag DEF UnsolicitedReport, StatusReports, agent, bridge,
       machine, flags, vehicle, Authority, AuthorityChain, EffortAuthorised
  <1>8. CASE VehicleDies
    BY <1>8, AuthorityFrame DEF VehicleDies, agent, bridge, machine, flags,
       links
  <1>9. ASSUME NEW m \in Messages, Lose(m)
        PROVE  Authority'
    BY <1>9, Bag DEF Lose, agent, bridge, machine, flags, vehicle,
       Authority, AuthorityChain, EffortAuthorised
  <1>10. CASE UNCHANGED vars
    BY <1>10, AuthorityFrame DEF vars, bridge, machine, flags, vehicle,
       history, links
  <1>11. QED
    BY <1>1, <1>2, <1>3, <1>4, <1>5, <1>6, <1>7, <1>8, <1>9, <1>10 DEF Next

\* No wrench effort leaves for, and no Ready or Standby display appears about,
\* a vehicle that has not confirmed control (and been READY), whatever is
\* lost, reordered, duplicated or answered early.
THEOREM EffortIsAuthorised == Spec => []EffortAuthorised
  <1>1. Init => TypeOK /\ Authority
    BY TypeInit, AuthorityInit
  <1>2. TypeOK /\ Authority /\ [Next]_vars => TypeOK' /\ Authority'
    BY TypeStep, AuthorityStep
  <1>3. Authority => EffortAuthorised
    BY DEF Authority
  <1>4. QED
    BY <1>1, <1>2, <1>3, PTL DEF Spec

\* The chain of causes behind it.
THEOREM ChainHolds == Spec => []AuthorityChain
  <1>1. Init => TypeOK /\ Authority
    BY TypeInit, AuthorityInit
  <1>2. TypeOK /\ Authority /\ [Next]_vars => TypeOK' /\ Authority'
    BY TypeStep, AuthorityStep
  <1>3. Authority => AuthorityChain
    BY DEF Authority
  <1>4. QED
    BY <1>1, <1>2, <1>3, PTL DEF Spec

-----------------------------------------------------------------------------
(* Implementation of the abstract hand-over                                 *)

LEMMA HandoverInit == Init => Abstract!Init
  <1> SUFFICES ASSUME Init PROVE Abstract!Init
    OBVIOUS
  <1>1. wasReady \in BOOLEAN
    BY Zenon DEF Init
  <1>2. QED
    BY <1>1 DEF Init, Abstract!Init

\* A step that leaves these alone is a stuttering step of Handover.
visible == <<state, confirmed, wasReady, effort>>

LEMMA HandoverStutter == UNCHANGED visible => UNCHANGED Abstract!vars
  BY DEF visible, Abstract!vars

LEMMA HandoverService ==
    TypeOK /\ Authority /\ ServiceThread => [Abstract!Next]_(Abstract!vars)
  <1> SUFFICES ASSUME TypeOK, Authority, ServiceThread
               PROVE  Abstract!Next \/ UNCHANGED Abstract!vars
    OBVIOUS
  <1>1. CASE InitializeHandleInput
    <2>1. CASE UNCHANGED state
      BY <1>1, <2>1, HandoverStutter
         DEF InitializeHandleInput, PopInput, Pop, visible
    <2>2. CASE state' = "Control"
      BY <1>1, <2>2 DEF InitializeHandleInput, PopInput, Pop, Abstract!Next,
         Abstract!Discover
    <2>3. QED
      BY <1>1, <2>1, <2>2 DEF InitializeHandleInput, Enter
  <1>2. CASE ReadyHandleInput
    <2>1. effort' # NoEffort
      BY <1>2, QueueHead, NoEffortAssumption
         DEF ReadyHandleInput, PopInput, Pop, TypeOK, BridgeTypeOK
    <2>2. QED
      BY <1>2, <2>1 DEF ReadyHandleInput, PopInput, Pop, machine,
         Abstract!Next, Abstract!Drive
  <1>3. CASE ControlHandleResponse
    <2>1. CASE UNCHANGED state
      BY <1>3, <2>1, HandoverStutter
         DEF ControlHandleResponse, PopResponse, Pop, visible
    <2>2. CASE controlGranted /\ state' = "Standby"
      BY <1>3, <2>2 DEF ControlHandleResponse, PopResponse, Pop, Authority,
         AuthorityChain, Abstract!Next, Abstract!TakeControl
    <2>3. QED
      BY <1>3, <2>1, <2>2 DEF ControlHandleResponse, Enter, machine
  <1>4. CASE StandbyHandleResponse
    <2>1. CASE UNCHANGED state
      BY <1>4, <2>1, HandoverStutter
         DEF StandbyHandleResponse, PopResponse, Pop, visible
    <2>2. CASE currentStatus = "READY" /\ state' = "Ready"
      BY <1>4, <2>2 DEF StandbyHandleResponse, PopResponse, Pop, Authority,
         AuthorityChain, Abstract!Next, Abstract!Activate
    <2>3. QED
      BY <1>4, <2>1, <2>2 DEF StandbyHandleResponse, Enter, machine
  <1>5. CASE serviceLoopExits \/ ControlHandleInput \/ StandbyHandleInput
    BY <1>5, HandoverStutter DEF serviceLoopExits, ControlHandleInput,
       StandbyHandleInput, PopInput, Pop, machine, history, visible
  <1>6. CASE IgnoreResponse \/ sendRequestControl \/ queryStatus \/ setPending
    BY <1>6, HandoverStutter DEF IgnoreResponse, PopResponse, Pop,
       sendRequestControl, queryStatus, setPending, Request, machine, history,
       visible
  <1>7. QED
    BY <1>1, <1>2, <1>3, <1>4, <1>5, <1>6 DEF ServiceThread

LEMMA HandoverVehicle ==
    TypeOK /\ Authority /\ Vehicle => [Abstract!Next]_(Abstract!vars)
  <1> SUFFICES ASSUME TypeOK, Authority, Vehicle
               PROVE  Abstract!Next \/ UNCHANGED Abstract!vars
    OBVIOUS
  <1>1. ASSUME NEW m \in ControlReplies, VehicleAnswersControl(m)
        PROVE  Abstract!Next \/ UNCHANGED Abstract!vars
    <2>1. /\ state # "Initialize"
          /\ UNCHANGED <<state, effort, wasReady>>
      BY <1>1 DEF VehicleAnswersControl, Authority, AuthorityChain, agent,
         machine
    <2>2. CASE m = "ConfirmControl"
      <3>1. confirmed' = TRUE
        BY <1>1, <2>2 DEF VehicleAnswersControl
      <3>2. QED
        BY <2>1, <3>1 DEF Abstract!Next, Abstract!Confirm
    <2>3. CASE m # "ConfirmControl"
      <3>1. confirmed' = confirmed
        BY <1>1, <2>3, Zenon
           DEF VehicleAnswersControl, TypeOK, HistoryTypeOK
      <3>2. QED
        BY <2>1, <3>1, HandoverStutter DEF visible
    <2>4. QED
      BY <2>2, <2>3
  <1>2. CASE VehicleResumes
    BY <1>2 DEF VehicleResumes, Authority, AuthorityChain, agent, machine,
       Abstract!Next, Abstract!BecomeReady
  <1>3. CASE VehicleRegisters \/ VehicleReportsStatus
    BY <1>3, HandoverStutter DEF VehicleRegisters, VehicleReportsStatus,
       agent, machine, visible
  <1>4. QED
    BY <1>1, <1>2, <1>3 DEF Vehicle

LEMMA HandoverStep ==
    TypeOK /\ Authority /\ [Next]_vars => [Abstract!Next]_(Abstract!vars)
  <1> SUFFICES ASSUME TypeOK, Authority, [Next]_vars
               PROVE  [Abstract!Next]_(Abstract!vars)
    OBVIOUS
  <1>1. CASE startServiceLoop \/ stopServiceLoop
    BY <1>1, HandoverStutter
       DEF startServiceLoop, stopServiceLoop, machine, history, visible
  <1>2. ASSUME NEW input \in Inputs, postInput(input)
        PROVE  UNCHANGED Abstract!vars
    BY <1>2, HandoverStutter DEF postInput, machine, history, visible
  <1>3. CASE ServiceThread
    BY <1>3, HandoverService
  <1>4. CASE OpenJAUSThread
    BY <1>4, HandoverStutter DEF OpenJAUSThread, clearPending,
       postJAUSResponse, handleRequestControlResponse,
       handleIncomingReportStatus, Receive, machine, history, visible
  <1>5. CASE Vehicle
    BY <1>5, HandoverVehicle
  <1>6. ASSUME NEW m \in StatusReports, UnsolicitedReport(m)
        PROVE  UNCHANGED Abstract!vars
    BY <1>6, HandoverStutter DEF UnsolicitedReport, agent, machine, visible
  <1>7. CASE VehicleDies
    BY <1>7, HandoverStutter DEF VehicleDies, agent, machine, visible
  <1>8. ASSUME NEW m \in Messages, Lose(m)
        PROVE  UNCHANGED Abstract!vars
    BY <1>8, HandoverStutter DEF Lose, agent, machine, visible
  <1>9. CASE UNCHANGED vars
    BY <1>9, HandoverStutter DEF vars, machine, history, visible
  <1>10. QED
    BY <1>1, <1>2, <1>3, <1>4, <1>5, <1>6, <1>7, <1>8, <1>9 DEF Next

\* The bridge, its threads and its callbacks implement the abstract hand-over
\* of the vehicle, for every environment the constants allow.
THEOREM HandoverImplemented == Spec => ImplementsHandover
  <1>1. Init => TypeOK /\ Authority
    BY TypeInit, AuthorityInit
  <1>2. TypeOK /\ Authority /\ [Next]_vars => TypeOK' /\ Authority'
    BY TypeStep, AuthorityStep
  <1>3. Init => Abstract!Init
    BY HandoverInit
  <1>4. TypeOK /\ Authority /\ [Next]_vars => [Abstract!Next]_(Abstract!vars)
    BY HandoverStep
  <1>5. QED
    BY <1>1, <1>2, <1>3, <1>4, PTL DEF Spec, ImplementsHandover, Abstract!Spec

-----------------------------------------------------------------------------
(* The queue after stopServiceLoop                                          *)

LEMMA NoPopStep ==
    TypeOK /\ [Next]_vars => (~running => Len(queue') >= Len(queue))
  <1> SUFFICES ASSUME TypeOK, [Next]_vars, ~running
               PROVE  Len(queue') >= Len(queue)
    OBVIOUS
  <1>1. queue \in Seq(BridgeMessages) /\ Len(queue) \in Nat
    BY DEF TypeOK, BridgeTypeOK
  <1>2. CASE ServiceThread
    <2>1. UNCHANGED queue
      BY <1>2 DEF ServiceThread, serviceLoopExits, sendRequestControl,
         queryStatus, Request, setPending, InitializeHandleInput,
         ControlHandleInput, StandbyHandleInput, ReadyHandleInput, PopInput,
         ControlHandleResponse, StandbyHandleResponse, IgnoreResponse,
         PopResponse, Pop
    <2>2. QED
      BY <1>1, <2>1
  <1>3. CASE OpenJAUSThread
    <2>1. UNCHANGED queue \/ queue' = Append(queue, JAUSResponse)
      BY <1>3 DEF OpenJAUSThread, clearPending, postJAUSResponse,
         handleRequestControlResponse, handleIncomingReportStatus, Receive,
         bridge
    <2>2. QED
      BY <1>1, <2>1, Posting
  <1>4. CASE startServiceLoop \/ stopServiceLoop \/ UNCHANGED vars
    BY <1>1, <1>4 DEF startServiceLoop, stopServiceLoop, vars, bridge
  <1>5. ASSUME NEW input \in Inputs, postInput(input) PROVE FALSE
    BY <1>5 DEF postInput
  <1>6. CASE Vehicle \/ VehicleDies \/ (\E m \in Messages : Lose(m))
             \/ (\E m \in StatusReports : UnsolicitedReport(m))
    <2>1. UNCHANGED queue
      BY <1>6 DEF Vehicle, VehicleRegisters, VehicleAnswersControl,
         VehicleResumes, VehicleReportsStatus, VehicleDies, Lose,
         UnsolicitedReport, agent, bridge
    <2>2. QED
      BY <1>1, <2>1
  <1>7. QED
    BY <1>2, <1>3, <1>4, <1>5, <1>6 DEF Next

\* Once the destructor of JausBridge has cleared running, the service thread
\* takes nothing more from the queue; callbacks may still add to it.
THEOREM NothingPoppedAfterStop == Spec => NoPopAfterStop
  <1>1. Init => TypeOK
    BY TypeInit
  <1>2. TypeOK /\ [Next]_vars => TypeOK'
    BY TypeStep
  <1>3. TypeOK /\ [Next]_vars => [~running => Len(queue') >= Len(queue)]_vars
    BY NoPopStep
  <1>4. QED
    BY <1>1, <1>2, <1>3, PTL DEF Spec, NoPopAfterStop

-----------------------------------------------------------------------------
(* The queue of JausBridge is the one of BridgeQueue                        *)

consumer == IF pc = "notStarted" THEN "none"
            ELSE IF pc = "stopped" THEN "ended"
            ELSE "on"

\* where a handler of the service thread may be
InLoop == {"idle", "sendRequestControl", "queryStatus", "setPending"}

LEMMA QueueStutter ==
    ASSUME UNCHANGED <<running, queue, consumer>>
    PROVE  UNCHANGED MessageQueue!vars
  BY DEF MessageQueue!vars, consumer

\* A handler takes the oldest message and stays in the loop.
LEMMA HandlerTakes ==
    ASSUME TypeOK, NEW kind, Pop(kind), pc' \in InLoop
    PROVE  MessageQueue!Next
  BY DEF Pop, InLoop, MessageQueue!Next, MessageQueue!Take

LEMMA ServiceImplementsQueue ==
    ASSUME TypeOK, ServiceThread
    PROVE  MessageQueue!Next \/ UNCHANGED MessageQueue!vars
  <1>1. CASE serviceLoopExits
    BY <1>1 DEF serviceLoopExits, MessageQueue!Next, MessageQueue!End
  <1>2. CASE InitializeHandleInput \/ ControlHandleInput
             \/ StandbyHandleInput \/ ReadyHandleInput
    <2>1. Pop("JoystickInput")
      BY <1>2 DEF InitializeHandleInput, ControlHandleInput,
         StandbyHandleInput, ReadyHandleInput, PopInput
    <2>2. pc = "idle"
      BY <2>1 DEF Pop
    <2>3. pc' \in {pc, "sendRequestControl", "queryStatus"}
      BY <1>2 DEF InitializeHandleInput, ControlHandleInput,
         StandbyHandleInput, ReadyHandleInput
    <2>4. QED
      BY <2>1, <2>2, <2>3, HandlerTakes DEF InLoop
  <1>3. CASE ControlHandleResponse \/ StandbyHandleResponse \/ IgnoreResponse
    <2>1. Pop("JAUSResponse")
      BY <1>3 DEF ControlHandleResponse, StandbyHandleResponse,
         IgnoreResponse, PopResponse
    <2>2. pc = "idle"
      BY <2>1 DEF Pop
    <2>3. pc' \in {pc, "sendRequestControl", "queryStatus"}
      BY <1>3 DEF ControlHandleResponse, StandbyHandleResponse,
         IgnoreResponse
    <2>4. QED
      BY <2>1, <2>2, <2>3, HandlerTakes DEF InLoop
  <1>4. CASE sendRequestControl \/ queryStatus \/ setPending
    <2>1. /\ pc \in InLoop /\ pc' \in InLoop
          /\ UNCHANGED <<running, queue>>
      BY <1>4 DEF sendRequestControl, queryStatus, setPending, Request, InLoop
    <2>2. UNCHANGED consumer
      BY <2>1 DEF InLoop, consumer
    <2>3. QED
      BY <2>1, <2>2, QueueStutter
  <1>5. QED
    BY <1>1, <1>2, <1>3, <1>4 DEF ServiceThread

LEMMA BridgeImplementsQueue ==
    ASSUME TypeOK, [Next]_vars
    PROVE  [MessageQueue!Next]_(MessageQueue!vars)
  <1>1. ASSUME NEW item \in BridgeMessages, queue' = Append(queue, item),
               UNCHANGED <<running, pc>>
        PROVE  MessageQueue!Next
    BY <1>1 DEF MessageQueue!Next, MessageQueue!Post
  <1>2. CASE startServiceLoop
    BY <1>2 DEF startServiceLoop, MessageQueue!Next, MessageQueue!Start
  <1>3. CASE stopServiceLoop
    BY <1>3 DEF stopServiceLoop, MessageQueue!Next, MessageQueue!Stop
  <1>4. ASSUME NEW input \in Inputs, postInput(input)
        PROVE  MessageQueue!Next \/ UNCHANGED MessageQueue!vars
    <2>1. JoystickInput(input) \in BridgeMessages
      BY DEF BridgeMessages
    <2>2. UNCHANGED <<running, pc>>
      BY <1>4 DEF postInput
    <2>3. CASE queue' = queue
      BY <2>2, <2>3, QueueStutter DEF consumer
    <2>4. CASE queue' = Append(queue, JoystickInput(input))
      BY <1>1, <2>1, <2>2, <2>4
    <2>5. QED
      BY <1>4, <2>3, <2>4 DEF postInput
  <1>5. CASE ServiceThread
    BY <1>5, ServiceImplementsQueue
  <1>6. CASE OpenJAUSThread
    <2>1. CASE postJAUSResponse
      <3>1. JAUSResponse \in BridgeMessages
        BY DEF BridgeMessages
      <3>2. QED
        BY <1>1, <2>1, <3>1 DEF postJAUSResponse
    <2>2. CASE ~postJAUSResponse
      <3>1. UNCHANGED <<running, queue, pc>>
        BY <1>6, <2>2 DEF OpenJAUSThread, clearPending,
           handleRequestControlResponse, handleIncomingReportStatus, Receive,
           bridge
      <3>2. QED
        BY <3>1, QueueStutter DEF consumer
    <2>3. QED
      BY <2>1, <2>2
  <1>7. CASE Vehicle \/ VehicleDies \/ (\E m \in Messages : Lose(m))
             \/ (\E m \in StatusReports : UnsolicitedReport(m))
             \/ UNCHANGED vars
    <2>1. UNCHANGED <<running, queue, pc>>
      BY <1>7 DEF Vehicle, VehicleRegisters, VehicleAnswersControl,
         VehicleResumes, VehicleReportsStatus, VehicleDies, Lose,
         UnsolicitedReport, agent, bridge, vars
    <2>2. QED
      BY <2>1, QueueStutter DEF consumer
  <1>8. QED
    BY <1>2, <1>3, <1>4, <1>5, <1>6, <1>7 DEF Next

\* Whatever the handlers, callbacks and requests do, messages are taken one at
\* a time in the order they were posted, none after the stop, and the thread
\* ends only then: the safety of BridgeQueue, which AgentThreads implements
\* with the mutex and the condition variable.
THEOREM QueueImplemented == Spec => MessageQueue!Spec
  <1>1. Init => MessageQueue!Init
    BY DEF Init, MessageQueue!Init
  <1>2. Init => TypeOK
    BY TypeInit
  <1>3. TypeOK /\ [Next]_vars => TypeOK'
    BY TypeStep
  <1>4. TypeOK /\ [Next]_vars => [MessageQueue!Next]_(MessageQueue!vars)
    BY BridgeImplementsQueue
  <1>5. QED
    BY <1>1, <1>2, <1>3, <1>4, PTL DEF Spec, MessageQueue!Spec

-----------------------------------------------------------------------------
(* Counting arguments: exchanges with the vehicle do not multiply, and what *)
(* follows from that for presses and for the pending flag, for every set of *)
(* reports and every bound. First, messages of a kind in a queue.           *)

Places(q, kind) == {i \in DOMAIN q : q[i].kind = kind}
Number(q, kind) == Cardinality(Places(q, kind))

LEMMA PlacesFinite ==
    ASSUME NEW q \in Seq(BridgeMessages), NEW kind
    PROVE  IsFiniteSet(Places(q, kind)) /\ Number(q, kind) \in Nat
  <1>1. DOMAIN q = 1 .. Len(q) /\ Len(q) \in Nat
    OBVIOUS
  <1>2. IsFiniteSet(DOMAIN q)
    BY <1>1, FS_Interval
  <1>3. IsFiniteSet(Places(q, kind))
    BY <1>2, FS_Subset DEF Places
  <1>4. QED
    BY <1>3, FS_CardinalityType DEF Number

LEMMA PushCount ==
    ASSUME NEW q \in Seq(BridgeMessages), NEW m \in BridgeMessages, NEW kind
    PROVE  Number(Append(q, m), kind) =
               Number(q, kind) + OneIf(m.kind = kind)
  <1> DEFINE last == Len(q) + 1
  <1>1. /\ DOMAIN Append(q, m) = DOMAIN q \cup {last}
        /\ Append(q, m)[last] = m
        /\ \A i \in DOMAIN q : Append(q, m)[i] = q[i]
        /\ last \notin DOMAIN q
    OBVIOUS
  <1>2. CASE m.kind = kind
    <2>1. Places(Append(q, m), kind) = Places(q, kind) \cup {last}
      BY <1>1, <1>2 DEF Places
    <2>2. last \notin Places(q, kind)
      BY <1>1 DEF Places
    <2>3. Number(Append(q, m), kind) = Number(q, kind) + 1
      BY <2>1, <2>2, PlacesFinite, FS_AddElement DEF Number
    <2>4. QED
      BY <1>2, <2>3 DEF OneIf
  <1>3. CASE m.kind # kind
    <2>1. Places(Append(q, m), kind) = Places(q, kind)
      BY <1>1, <1>3 DEF Places
    <2>2. Number(Append(q, m), kind) = Number(q, kind)
      BY <2>1 DEF Number
    <2>3. QED
      BY <1>3, <2>2, PlacesFinite DEF OneIf
  <1>4. QED
    BY <1>2, <1>3

LEMMA PopCount ==
    ASSUME NEW q \in Seq(BridgeMessages), q # <<>>, NEW kind
    PROVE  Number(Tail(q), kind) =
               Number(q, kind) - OneIf(Head(q).kind = kind)
  <1> DEFINE A == Places(q, kind) \ {1}
             B == Places(Tail(q), kind)
             next == [i \in B |-> i + 1]
  <1>1. /\ Tail(q) \in Seq(BridgeMessages)
        /\ Len(q) \in Nat \ {0}
        /\ DOMAIN q = 1 .. Len(q)
        /\ DOMAIN Tail(q) = 1 .. Len(q) - 1
        /\ \A i \in DOMAIN Tail(q) : Tail(q)[i] = q[i + 1]
        /\ Head(q) = q[1]
    OBVIOUS
  <1>2. IsFiniteSet(B)
    BY <1>1, PlacesFinite
  <1>3. next \in [B -> A]
    BY <1>1 DEF Places
  <1>4. \A i, j \in B : next[i] = next[j] => i = j
    BY <1>1 DEF Places
  <1>5. \A k \in A : k - 1 \in B /\ next[k - 1] = k
    BY <1>1 DEF Places
  <1>6. ExistsBijection(B, A)
    <2>1. next \in Injection(B, A)
      BY <1>3, <1>4 DEF Injection, IsInjective
    <2>2. \A k \in A : \E i \in B : next[i] = k
      BY <1>5
    <2>3. next \in Surjection(B, A)
      BY <1>3, <2>2 DEF Surjection
    <2>4. QED
      BY <2>1, <2>3 DEF Bijection, ExistsBijection
  <1>7. Cardinality(A) = Number(Tail(q), kind)
    BY <1>2, <1>6, FS_Bijection DEF Number
  <1>8. Cardinality(A) = IF 1 \in Places(q, kind) THEN Number(q, kind) - 1
                         ELSE Number(q, kind)
    BY PlacesFinite, FS_RemoveElement DEF Number
  <1>9. 1 \in Places(q, kind) <=> Head(q).kind = kind
    BY <1>1 DEF Places
  <1>10. QED
    BY <1>7, <1>8, <1>9, PlacesFinite DEF OneIf

-----------------------------------------------------------------------------
(* The messages in the network that belong to an exchange *)

InNet(n) == n["RequestControl"] + n["QueryStatus"] + n["ConfirmControl"]
            + n["RejectControl"] + n["STANDBY"] + n["READY"]

Counted == Messages \ {"Resume"}

LEMMA NetSum ==
    ASSUME net \in [Messages -> Nat]
    PROVE  /\ InNet(net) \in Nat
           /\ InNet(net) = 0 => \A m \in Counted : net[m] = 0
  <1>1. /\ net["RequestControl"] \in Nat /\ net["QueryStatus"] \in Nat
        /\ net["ConfirmControl"] \in Nat /\ net["RejectControl"] \in Nat
        /\ net["STANDBY"] \in Nat /\ net["READY"] \in Nat
    BY MessageKinds
  <1>2. InNet(net) \in Nat
    BY <1>1 DEF InNet
  <1>3. ASSUME InNet(net) = 0, NEW m \in Counted PROVE net[m] = 0
    <2>1. m \in {"RequestControl", "QueryStatus", "ConfirmControl",
                 "RejectControl", "STANDBY", "READY"}
      BY DEF Counted, Messages, Commands, ControlReplies, StatusReports
    <2>2. InNet(net) >= net[m]
      BY <1>1, <2>1 DEF InNet
    <2>3. net[m] \in Nat
      BY <1>1, <2>1
    <2>4. QED
      BY <1>3, <2>2, <2>3
  <1>4. QED
    BY <1>2, <1>3

LEMMA NetChange ==
    ASSUME net \in [Messages -> Nat], NEW m \in Messages
    PROVE  /\ InNet(With(m)) = InNet(net) + OneIf(m \in Counted)
           /\ net[m] > 0 => InNet(Without(m)) = InNet(net) - OneIf(m \in Counted)
  <1>1. /\ \A n \in Messages :
              With(m)[n] = IF n = m THEN net[n] + 1 ELSE net[n]
        /\ \A n \in Messages :
              Without(m)[n] = IF n = m THEN net[n] - 1 ELSE net[n]
    BY Bag
  <1>2. m \in Counted <=> m # "Resume"
    BY DEF Counted
  <1>3. m \in {"RequestControl", "QueryStatus", "ConfirmControl",
               "RejectControl", "STANDBY", "READY", "Resume"}
    BY DEF Messages, Commands, ControlReplies, StatusReports
  <1>4. QED
    BY <1>1, <1>2, <1>3, MessageKinds DEF InNet, OneIf

LEMMA NetAnswer ==
    ASSUME net \in [Messages -> Nat], NEW m \in Counted, net[m] > 0,
           NEW answer \in Counted, m # answer
    PROVE  InNet(Replaced(m, answer)) = InNet(net)
  <1>1. \A n \in Messages :
            Replaced(m, answer)[n] = IF n = m THEN net[n] - 1
                                     ELSE IF n = answer THEN net[n] + 1
                                     ELSE net[n]
    BY Answer DEF Counted
  <1>2. {m, answer} \subseteq {"RequestControl", "QueryStatus",
            "ConfirmControl", "RejectControl", "STANDBY", "READY"}
    BY DEF Counted, Messages, Commands, ControlReplies, StatusReports
  <1>3. QED
    BY <1>1, <1>2, MessageKinds DEF InNet

LEMMA CountedKinds ==
    /\ ControlReplies \subseteq Counted
    /\ StatusReports \subseteq Counted
    /\ "RequestControl" \in Counted /\ "QueryStatus" \in Counted
    /\ "Resume" \in Messages /\ "Resume" \notin Counted
    /\ Counted \subseteq Messages
  BY DEF Counted, Messages, Commands, ControlReplies, StatusReports

-----------------------------------------------------------------------------
(* Exchanges do not multiply *)

Responses == Number(queue, "JAUSResponse")
Asks      == pc \in {"sendRequestControl", "queryStatus"}

Traffic ==
    InNet(net) + OneIf(callback = "clearPending") + OneIf(callback = "post")
    + Responses + OneIf(Asks)

\* What the bound on the exchanges needs to know of the state machine: a press
\* in InitializeState requests nothing, and the later states know the vehicle.
MachineKnows ==
    /\ state = "Initialize" => ~requested
    /\ state # "Initialize" => serverValid

Retries == MachineKnows /\ RetriesBounded

LEMMA RetriesParts ==
    RetriesBounded <=>
        Traffic <= interference + OneIf(requested)
  BY DEF RetriesBounded, Circulating, Outstanding, InNet, Responses, Number,
     Places, Queued, Asks, Traffic

LEMMA RetriesTypes ==
    ASSUME TypeOK
    PROVE  /\ net \in [Messages -> Nat]
           /\ InNet(net) \in Nat
           /\ queue \in Seq(BridgeMessages)
           /\ Responses \in Nat
           /\ Traffic \in Nat
           /\ interference \in Nat
           /\ \A x \in BOOLEAN : OneIf(x) \in {0, 1}
  <1>1. net \in [Messages -> Nat] /\ interference \in Nat
    BY BoundsAssumption DEF TypeOK, EnvironmentTypeOK
  <1>2. queue \in Seq(BridgeMessages)
    BY DEF TypeOK, BridgeTypeOK
  <1>3. QED
    BY <1>1, <1>2, NetSum, PlacesFinite DEF Responses, OneIf, Traffic

LEMMA RetriesInit == Init => Retries
  <1> SUFFICES ASSUME Init PROVE Retries
    OBVIOUS
  <1>1. \A m \in Messages : net[m] = 0
    BY DEF Init
  <1>2. InNet(net) = 0
    BY <1>1, MessageKinds DEF InNet
  <1>3. Places(queue, "JAUSResponse") = {}
    BY DEF Init, Places
  <1>4. Responses = 0
    BY <1>3, FS_EmptySet DEF Responses, Number
  <1>5. RetriesBounded
    BY <1>2, <1>4, RetriesParts DEF Init, OneIf, Asks, Traffic
  <1>6. MachineKnows
    BY DEF Init, MachineKnows
  <1>7. QED
    BY <1>5, <1>6 DEF Retries

\* A step that only takes away from what circulates keeps the bound.
LEMMA RetriesFrame ==
    ASSUME TypeOK, Retries,
           UNCHANGED <<state, requested, serverValid, interference>>,
           Traffic' <= Traffic,
           Traffic' \in Nat
    PROVE  Retries'
  <1>1. MachineKnows'
    BY DEF Retries, MachineKnows
  <1>2. Traffic' <= interference' + OneIf(requested')
    <2> DEFINE bound == interference + OneIf(requested)
    <2>1. Traffic <= bound
      BY RetriesParts DEF Retries
    <2>2. Traffic \in Nat /\ bound \in Nat
      BY RetriesTypes DEF OneIf
    <2>3. interference' + OneIf(requested') = bound
      OBVIOUS
    <2> HIDE DEF bound
    <2>4. QED
      BY <2>1, <2>2, <2>3
  <1>3. RetriesBounded'
    BY <1>2 DEF RetriesBounded, Circulating, Outstanding, InNet, Responses,
       Number, Places, Queued, Asks, Traffic
  <1>4. QED
    BY <1>1, <1>3 DEF Retries

LEMMA RetriesPrimed ==
    ASSUME Traffic' <= interference' + OneIf(requested')
    PROVE  RetriesBounded'
  BY DEF RetriesBounded, Circulating, Outstanding, InNet, Responses, Number,
     Places, Queued, Asks, Traffic

\* What taking a message from the queue does to the count.
LEMMA PopResponses ==
    ASSUME TypeOK, NEW kind \in {"JoystickInput", "JAUSResponse"}, Pop(kind)
    PROVE  /\ Responses' = Responses - OneIf(kind = "JAUSResponse")
           /\ Responses' \in Nat
           /\ UNCHANGED <<callback, interference>>
           /\ pc = "idle"
  <1>1. /\ queue \in Seq(BridgeMessages) /\ queue # <<>>
        /\ queue' = Tail(queue) /\ Tail(queue) \in Seq(BridgeMessages)
        /\ Head(queue).kind = kind
    BY QueueHead DEF Pop, TypeOK, BridgeTypeOK
  <1>2. Number(Tail(queue), "JAUSResponse")
            = Number(queue, "JAUSResponse") - OneIf(kind = "JAUSResponse")
    BY <1>1, PopCount
  <1>3. Number(Tail(queue), "JAUSResponse") \in Nat
    BY <1>1, PlacesFinite
  <1>4. QED
    BY <1>1, <1>2, <1>3 DEF Pop, budget, Responses

LEMMA RetriesInput ==
    ASSUME TypeOK, Retries,
           \/ InitializeHandleInput \/ ControlHandleInput
           \/ StandbyHandleInput \/ ReadyHandleInput
    PROVE  Retries'
  <1>1. Pop("JoystickInput")
    BY DEF InitializeHandleInput, ControlHandleInput, StandbyHandleInput,
       ReadyHandleInput, PopInput
  <1>2. /\ UNCHANGED <<callback, interference>> /\ pc = "idle"
        /\ Responses' = Responses /\ Responses' \in Nat
    BY <1>1, PopResponses, RetriesTypes DEF OneIf
  <1>3. InNet(net') = InNet(net)
    BY RetriesTypes, NetChange, CountedKinds DEF InitializeHandleInput,
       ControlHandleInput, StandbyHandleInput, ReadyHandleInput, OneIf
  <1>4. CASE UNCHANGED <<state, requested, serverValid, pc>>
    <2>1. Traffic' <= Traffic /\ Traffic' \in Nat
      BY <1>2, <1>3, <1>4, RetriesTypes DEF Asks, Traffic
    <2>2. QED
      BY <1>2, <1>4, <2>1, RetriesFrame
  <1>5. CASE InitializeHandleInput /\ state' = "Control"
    <2>1. ~requested /\ requested' = FALSE /\ serverValid' = TRUE /\ pc' = pc
      BY <1>5 DEF InitializeHandleInput, PopInput, Enter, Retries, MachineKnows
    <2>2. RetriesBounded'
      BY <1>2, <1>3, <2>1, RetriesParts, RetriesPrimed, RetriesTypes
         DEF Retries, Asks, OneIf, Traffic
    <2>3. QED
      BY <1>5, <2>1, <2>2 DEF Retries, MachineKnows
  <1>6. CASE (ControlHandleInput \/ StandbyHandleInput)
             /\ ~requested /\ pc' \in {"sendRequestControl", "queryStatus"}
    <2>1. /\ state # "Initialize" /\ requested' = serverValid
          /\ UNCHANGED <<state, serverValid>>
      BY <1>2, <1>6 DEF ControlHandleInput, StandbyHandleInput, PopInput
    <2>2. serverValid /\ requested'
      BY <2>1 DEF Retries, MachineKnows
    <2>3. RetriesBounded'
      BY <1>2, <1>3, <1>6, <2>1, <2>2, RetriesParts, RetriesPrimed, RetriesTypes
         DEF Retries, Asks, OneIf, Traffic
    <2>4. QED
      BY <2>1, <2>2, <2>3 DEF Retries, MachineKnows
  <1>7. QED
    BY <1>2, <1>4, <1>5, <1>6 DEF InitializeHandleInput, ControlHandleInput,
       StandbyHandleInput, ReadyHandleInput, Enter, machine, PopInput

LEMMA RetriesResponse ==
    ASSUME TypeOK, Retries,
           ControlHandleResponse \/ StandbyHandleResponse \/ IgnoreResponse
    PROVE  Retries'
  <1>1. /\ Pop("JAUSResponse")
        /\ UNCHANGED <<serverValid, net>>
    BY DEF ControlHandleResponse, StandbyHandleResponse, IgnoreResponse,
       PopResponse
  <1>2. /\ UNCHANGED <<callback, interference>> /\ pc = "idle"
        /\ Responses' = Responses - 1 /\ Responses' \in Nat
    BY <1>1, PopResponses, RetriesTypes DEF OneIf
  <1>3. CASE UNCHANGED machine
    <2>1. UNCHANGED <<state, requested>>
      BY <1>3 DEF machine
    <2>2. Traffic' <= Traffic /\ Traffic' \in Nat
      BY <1>1, <1>2, RetriesTypes DEF Asks, OneIf, Traffic
    <2>3. QED
      BY <1>1, <1>2, <2>1, <2>2, RetriesFrame, RetriesTypes
  <1>4. CASE state' \in {"Standby", "Ready"} /\ requested' = FALSE /\ pc' = pc
             /\ state # "Initialize"
    <2>1. RetriesBounded'
      BY <1>1, <1>2, <1>4, RetriesParts, RetriesPrimed, RetriesTypes
         DEF Retries, Asks, OneIf, Traffic
    <2>2. QED
      BY <1>1, <1>4, <2>1 DEF Retries, MachineKnows
  <1>5. QED
    BY <1>3, <1>4 DEF ControlHandleResponse, StandbyHandleResponse,
       IgnoreResponse, PopResponse, Enter

LEMMA RetriesRequest ==
    ASSUME TypeOK, Retries,
           sendRequestControl \/ queryStatus \/ setPending \/ serviceLoopExits
    PROVE  Retries'
  <1>1. UNCHANGED <<state, requested, serverValid, interference, callback, queue>>
    BY DEF sendRequestControl, queryStatus, setPending, serviceLoopExits,
       Request, machine, budget
  <1>2. Responses' = Responses
    BY <1>1 DEF Responses
  <1>3. /\ ~Asks'
        /\ \/ InNet(net') = InNet(net)
           \/ InNet(net') = InNet(net) + 1 /\ Asks
    <2>1. CASE UNCHANGED net /\ ~Asks'
      BY <2>1, RetriesTypes DEF OneIf
    <2>2. CASE (net' = With("RequestControl") \/ net' = With("QueryStatus"))
               /\ Asks /\ ~Asks'
      BY <2>2, RetriesTypes, NetChange, CountedKinds DEF OneIf
    <2>3. QED
      BY <2>1, <2>2 DEF sendRequestControl, queryStatus, setPending,
         serviceLoopExits, Request, Asks
  <1>4. Traffic' <= Traffic /\ Traffic' \in Nat
    BY <1>1, <1>2, <1>3, RetriesTypes DEF OneIf, Traffic
  <1>5. QED
    BY <1>1, <1>2, <1>3, <1>4, RetriesFrame, RetriesTypes

LEMMA RetriesCallback ==
    ASSUME TypeOK, Retries, OpenJAUSThread
    PROVE  Retries'
  <1>1. UNCHANGED <<state, requested, serverValid, interference, pc>>
    BY DEF OpenJAUSThread, handleRequestControlResponse,
       handleIncomingReportStatus, Receive, clearPending, postJAUSResponse,
       bridge, machine, budget
  <1>2. Traffic' <= Traffic /\ Traffic' \in Nat
    <2>1. ASSUME NEW m \in Counted, Receive(m)
          PROVE  Traffic' <= Traffic /\ Traffic' \in Nat
      <3>1. /\ InNet(net') = InNet(net) - 1
            /\ net[m] > 0 /\ callback = "idle" /\ callback' = "clearPending"
            /\ UNCHANGED <<queue, pc>>
        BY <2>1, RetriesTypes, NetChange, CountedKinds
           DEF Receive, OneIf, bridge
      <3>2. InNet(net) # 0
        BY <3>1, RetriesTypes, NetSum
      <3>3. Responses' = Responses
        BY <3>1 DEF Responses
      <3>4. QED
        BY <3>1, <3>2, <3>3, RetriesTypes DEF OneIf, Asks, Traffic
    <2>2. CASE clearPending
      BY <2>2, RetriesTypes DEF clearPending, bridge, Responses, Asks, OneIf, Traffic
    <2>3. CASE postJAUSResponse
      <3>1. JAUSResponse \in BridgeMessages /\ JAUSResponse.kind = "JAUSResponse"
        BY DEF BridgeMessages, JAUSResponse
      <3>2. Number(Append(queue, JAUSResponse), "JAUSResponse") = Responses + 1
        BY <3>1, PushCount, RetriesTypes DEF OneIf, Responses
      <3>3. Responses' = Responses + 1
        BY <2>3, <3>2 DEF postJAUSResponse, Responses
      <3>4. QED
        BY <2>3, <3>3, RetriesTypes DEF postJAUSResponse, Asks, OneIf, Traffic
    <2>4. QED
      BY <2>1, <2>2, <2>3, CountedKinds DEF OpenJAUSThread,
         handleRequestControlResponse, handleIncomingReportStatus
  <1>3. QED
    BY <1>1, <1>2, RetriesFrame

LEMMA RetriesEnvironment ==
    ASSUME TypeOK, Retries,
           \/ Vehicle \/ VehicleDies \/ startServiceLoop \/ stopServiceLoop
           \/ (\E m \in Messages : Lose(m))
           \/ (\E input \in Inputs : postInput(input))
           \/ UNCHANGED vars
    PROVE  Retries'
  <1>1. UNCHANGED <<state, requested, serverValid, interference, callback>>
    BY DEF Vehicle, VehicleRegisters, VehicleAnswersControl, VehicleResumes,
       VehicleReportsStatus, VehicleDies, startServiceLoop, stopServiceLoop,
       Lose, postInput, vars, agent, machine, budget
  <1>2. InNet(net') <= InNet(net) /\ InNet(net') \in Nat
    <2>1. ASSUME NEW m \in Messages, net[m] > 0, net' = Without(m)
          PROVE  InNet(net') <= InNet(net) /\ InNet(net') \in Nat
      <3>1. InNet(net') = InNet(net) - OneIf(m \in Counted)
        BY <2>1, RetriesTypes, NetChange
      <3>2. m \in Counted => InNet(net) # 0
        BY <2>1, RetriesTypes, NetSum
      <3>3. QED
        BY <3>1, <3>2, RetriesTypes DEF OneIf
    <2>2. ASSUME NEW m \in Counted, NEW answer \in Counted, net[m] > 0,
                 m # answer, net' = Replaced(m, answer)
          PROVE  InNet(net') <= InNet(net) /\ InNet(net') \in Nat
      BY <2>2, RetriesTypes, NetAnswer
    <2>3. CASE UNCHANGED net
      BY <2>3, RetriesTypes
    <2>4. CASE Vehicle
      BY <2>1, <2>2, <2>3, <2>4, CountedKinds, MessageKinds
         DEF Vehicle, VehicleRegisters,
         VehicleAnswersControl, VehicleResumes, VehicleReportsStatus, TypeOK,
         EnvironmentTypeOK
    <2>5. QED
      BY <2>1, <2>3, <2>4 DEF VehicleDies, startServiceLoop, stopServiceLoop,
         Lose, postInput, vars
  <1>3. Responses' = Responses
    <2>1. CASE UNCHANGED queue
      BY <2>1 DEF Responses
    <2>2. ASSUME NEW input \in Inputs, queue' = Append(queue, JoystickInput(input))
          PROVE  Responses' = Responses
      <3>1. /\ JoystickInput(input) \in BridgeMessages
            /\ JoystickInput(input).kind # "JAUSResponse"
        BY DEF BridgeMessages, JoystickInput
      <3>2. Number(Append(queue, JoystickInput(input)), "JAUSResponse") = Responses
        BY <3>1, PushCount, RetriesTypes DEF OneIf, Responses
      <3>3. QED
        BY <2>2, <3>2 DEF Responses
    <2>3. QED
      BY <2>1, <2>2 DEF Vehicle, VehicleRegisters, VehicleAnswersControl,
         VehicleResumes, VehicleReportsStatus, VehicleDies, startServiceLoop,
         stopServiceLoop, Lose, postInput, vars, agent, bridge
  <1>4. Asks' => Asks
    BY DEF Vehicle, VehicleRegisters, VehicleAnswersControl, VehicleResumes,
       VehicleReportsStatus, VehicleDies, startServiceLoop, stopServiceLoop,
       Lose, postInput, vars, agent, bridge, Asks
  <1>5. Traffic' <= Traffic /\ Traffic' \in Nat
    BY <1>1, <1>2, <1>3, <1>4, RetriesTypes, SMTT(30) DEF OneIf, Traffic
  <1>6. QED
    BY <1>1, <1>2, <1>3, <1>5, RetriesFrame, RetriesTypes

LEMMA RetriesUnsolicited ==
    ASSUME TypeOK, Retries, NEW m \in StatusReports, UnsolicitedReport(m)
    PROVE  Retries'
  <1>1. /\ UNCHANGED <<state, requested, serverValid, callback, queue, pc>>
        /\ interference' = interference + 1
        /\ InNet(net') = InNet(net) + 1
    BY RetriesTypes, NetChange, CountedKinds DEF UnsolicitedReport, agent,
       bridge, machine, OneIf
  <1>2. RetriesBounded'
    BY <1>1, RetriesParts, RetriesPrimed, RetriesTypes, SMTT(30)
       DEF Retries, Responses, Asks, OneIf, Traffic
  <1>3. QED
    BY <1>1, <1>2 DEF Retries, MachineKnows

LEMMA RetriesStep == TypeOK /\ Retries /\ [Next]_vars => Retries'
  BY RetriesInput, RetriesResponse, RetriesRequest, RetriesCallback,
     RetriesEnvironment, RetriesUnsolicited DEF Next, ServiceThread

\* Retries do not multiply: what circulates between agent and vehicle goes back
\* to one press or to one unsolicited report (handleResponse of ControlState
\* and StandbyState, sendRequestControl, queryStatus, both callbacks).
THEOREM RetriesAreBounded == Spec => []RetriesBounded
  <1>1. Init => TypeOK /\ Retries
    BY TypeInit, RetriesInit
  <1>2. TypeOK /\ Retries /\ [Next]_vars => TypeOK' /\ Retries'
    BY TypeStep, RetriesStep
  <1>3. Retries => RetriesBounded
    BY DEF Retries
  <1>4. QED
    BY <1>1, <1>2, <1>3, PTL DEF Spec

-----------------------------------------------------------------------------
(* Presses come first *)

\* What is on its way as long as no report was unsolicited goes back to the
\* press of the current state.
LEMMA TrafficNeedsPress ==
    ASSUME TypeOK, Retries, interference = 0, Traffic >= 1
    PROVE  requested
  BY RetriesParts, RetriesTypes DEF Retries, OneIf

LEMMA PressStep ==
    ASSUME TypeOK, Retries, [Next]_vars, interference = 0,
           net'["RequestControl"] > net["RequestControl"]
    PROVE  requested
  <1>0. /\ net \in [Messages -> Nat]
        /\ "RequestControl" \in Messages
        /\ net["RequestControl"] \in Nat
    BY RetriesTypes, MessageKinds
  <1> USE MessageKinds
  <1>1. CASE sendRequestControl
    <2>1. Asks
      BY <1>1 DEF sendRequestControl, Request, Asks
    <2>2. Traffic >= 1
      BY <2>1, RetriesTypes DEF Traffic, OneIf
    <2>3. QED
      BY <2>2, TrafficNeedsPress
  <1>2. CASE ServiceThread /\ ~sendRequestControl
    <2>1. net' \in {net, With("Resume"), With("QueryStatus")}
      BY <1>2 DEF ServiceThread, serviceLoopExits, InitializeHandleInput,
         ControlHandleInput, StandbyHandleInput, ReadyHandleInput,
         ControlHandleResponse, StandbyHandleResponse, IgnoreResponse,
         PopResponse, queryStatus, Request, setPending
    <2>2. \A m \in {"Resume", "QueryStatus"} :
             With(m)["RequestControl"] = net["RequestControl"]
      BY <1>0, Bag
    <2>3. QED
      BY <1>0, <2>1, <2>2
  <1>3. ASSUME NEW m \in Messages, net[m] > 0, net' = Without(m) PROVE FALSE
    <2>1. net'["RequestControl"] = IF "RequestControl" = m
                                   THEN net["RequestControl"] - 1
                                   ELSE net["RequestControl"]
      BY <1>0, <1>3, Bag
    <2>2. QED
      BY <1>0, <2>1
  <1>4. ASSUME NEW m \in Messages, m # "RequestControl", net' = With(m)
        PROVE  FALSE
    <2>1. net'["RequestControl"] = net["RequestControl"]
      BY <1>0, <1>4, Bag
    <2>2. QED
      BY <1>0, <2>1
  <1>5. ASSUME NEW m \in Messages, NEW answer \in Messages, net[m] > 0,
               m # answer, answer # "RequestControl",
               net' = Replaced(m, answer)
        PROVE  FALSE
    <2>1. net'["RequestControl"] = IF "RequestControl" = m
                                   THEN net["RequestControl"] - 1
                                   ELSE net["RequestControl"]
      BY <1>0, <1>5, Answer
    <2>2. QED
      BY <1>0, <2>1
  <1>6. CASE Vehicle
    BY <1>3, <1>5, <1>6 DEF Vehicle, VehicleRegisters, VehicleAnswersControl,
       VehicleResumes, VehicleReportsStatus, TypeOK, EnvironmentTypeOK,
       ControlReplies, StatusReports
  <1>7. CASE UNCHANGED net
    BY <1>0, <1>7
  <1>8. CASE OpenJAUSThread
    <2>1. ASSUME NEW m \in Messages, Receive(m) PROVE FALSE
      BY <1>3, <2>1 DEF Receive
    <2>2. ControlReplies \subseteq Messages /\ StatusReports \subseteq Messages
      BY MessageKinds
    <2>3. QED
      BY <1>7, <1>8, <2>1, <2>2 DEF OpenJAUSThread,
         handleRequestControlResponse, handleIncomingReportStatus,
         clearPending, postJAUSResponse
  <1>9. ASSUME NEW m \in StatusReports, UnsolicitedReport(m) PROVE FALSE
    BY <1>4, <1>9 DEF UnsolicitedReport, StatusReports
  <1>10. ASSUME NEW m \in Messages, Lose(m) PROVE FALSE
    BY <1>3, <1>10 DEF Lose
  <1>11. CASE \/ startServiceLoop \/ stopServiceLoop \/ VehicleDies
              \/ (\E input \in Inputs : postInput(input))
              \/ UNCHANGED vars
    <2>1. UNCHANGED net
      BY <1>11 DEF startServiceLoop, stopServiceLoop, VehicleDies, postInput,
         vars, agent
    <2>2. QED
      BY <1>7, <2>1
  <1>12. QED
    BY <1>1, <1>2, <1>6, <1>8, <1>9, <1>10, <1>11 DEF Next

\* RequestControl is sent only after a press in ControlState (handleInput,
\* handleResponse), also when messages are lost or answered early.
THEOREM PressComesFirst == Spec => PressBeforeRequest
  <1>1. Init => TypeOK /\ Retries
    BY TypeInit, RetriesInit
  <1>2. TypeOK /\ Retries /\ [Next]_vars => TypeOK' /\ Retries'
    BY TypeStep, RetriesStep
  <1>3. TypeOK /\ Retries /\ [Next]_vars =>
        [interference = 0 /\ net'["RequestControl"] > net["RequestControl"]
            => requested]_vars
    BY PressStep
  <1>4. QED
    BY <1>1, <1>2, <1>3, PTL DEF Spec, PressBeforeRequest

LEMMA ResumeStep ==
    ASSUME TypeOK, Retries, [Next]_vars, interference = 0,
           state = "Standby", state' = "Ready"
    PROVE  requested
  <1>1. StandbyHandleResponse
    BY DEF Next, ServiceThread, serviceLoopExits, InitializeHandleInput,
       ControlHandleInput, StandbyHandleInput, ReadyHandleInput, PopInput,
       ControlHandleResponse, IgnoreResponse, PopResponse, Enter,
       sendRequestControl, queryStatus, Request, setPending, OpenJAUSThread,
       handleRequestControlResponse, handleIncomingReportStatus, Receive,
       clearPending, postJAUSResponse, Vehicle, VehicleRegisters,
       VehicleAnswersControl, VehicleResumes, VehicleReportsStatus,
       VehicleDies, startServiceLoop, stopServiceLoop, Lose, postInput,
       UnsolicitedReport, agent, machine, vars
  <1>2. Responses' = Responses - 1 /\ Responses' \in Nat
    BY <1>1, PopResponses, RetriesTypes
       DEF StandbyHandleResponse, PopResponse, OneIf
  <1>3. Traffic >= 1
    BY <1>2, RetriesTypes DEF Traffic, OneIf
  <1>4. QED
    BY <1>3, TrafficNeedsPress

\* StandbyState is left after the press that sends Resume
\* (StandbyState::handleResponse).
THEOREM ResumeComesFirst == Spec => ResumeBeforeReady
  <1>1. Init => TypeOK /\ Retries
    BY TypeInit, RetriesInit
  <1>2. TypeOK /\ Retries /\ [Next]_vars => TypeOK' /\ Retries'
    BY TypeStep, RetriesStep
  <1>3. TypeOK /\ Retries /\ [Next]_vars =>
        [interference = 0 /\ state = "Standby" /\ state' = "Ready"
            => requested]_vars
    BY ResumeStep
  <1>4. QED
    BY <1>1, <1>2, <1>3, PTL DEF Spec, ResumeBeforeReady

-----------------------------------------------------------------------------
(* The pending flag and what it stands for *)

\* A step that neither sends, receives nor acknowledges a request.
Quiet ==
    /\ InNet(net') = InNet(net)
    /\ UNCHANGED <<requestPending, callback, interference>>
    /\ (pc' = "setPending") <=> (pc = "setPending")

LEMMA OutstandingParts ==
    /\ Outstanding = InNet(net) + OneIf(callback = "clearPending")
    /\ Outstanding' = InNet(net') + OneIf(callback' = "clearPending")
  BY DEF Outstanding, InNet

LEMMA QuietHandlers ==
    ASSUME TypeOK,
           \/ InitializeHandleInput \/ ControlHandleInput
           \/ StandbyHandleInput \/ ReadyHandleInput
           \/ ControlHandleResponse \/ StandbyHandleResponse
           \/ IgnoreResponse \/ serviceLoopExits
    PROVE  Quiet
  <1>1. net' \in {net, With("Resume")}
    BY DEF InitializeHandleInput, ControlHandleInput, StandbyHandleInput,
       ReadyHandleInput, ControlHandleResponse, StandbyHandleResponse,
       IgnoreResponse, PopResponse, serviceLoopExits
  <1>2. InNet(net') = InNet(net)
    BY <1>1, RetriesTypes, NetChange, CountedKinds DEF OneIf
  <1>3. UNCHANGED <<requestPending, callback, interference>>
    BY DEF InitializeHandleInput, ControlHandleInput, StandbyHandleInput,
       ReadyHandleInput, ControlHandleResponse, StandbyHandleResponse,
       IgnoreResponse, PopResponse, PopInput, Pop, serviceLoopExits, flags,
       budget
  <1>4. pc = "idle" /\ pc' # "setPending"
    BY DEF InitializeHandleInput, ControlHandleInput, StandbyHandleInput,
       ReadyHandleInput, ControlHandleResponse, StandbyHandleResponse,
       IgnoreResponse, PopResponse, PopInput, Pop, serviceLoopExits
  <1>5. QED
    BY <1>2, <1>3, <1>4 DEF Quiet

LEMMA QuietEnvironment ==
    ASSUME TypeOK,
           \/ Vehicle \/ VehicleDies \/ startServiceLoop \/ stopServiceLoop
           \/ (\E input \in Inputs : postInput(input))
           \/ UNCHANGED vars
    PROVE  Quiet
  <1>1. InNet(net') = InNet(net)
    <2>1. ASSUME NEW m \in Counted, NEW answer \in Counted, net[m] > 0,
                 m # answer, net' = Replaced(m, answer)
          PROVE  InNet(net') = InNet(net)
      BY <2>1, RetriesTypes, NetAnswer
    <2>2. CASE VehicleResumes
      BY <2>2, RetriesTypes, NetChange, CountedKinds DEF VehicleResumes, OneIf
    <2>3. CASE Vehicle /\ ~VehicleResumes
      BY <2>1, <2>3, CountedKinds, MessageKinds DEF Vehicle, VehicleRegisters,
         VehicleAnswersControl, VehicleReportsStatus, TypeOK, EnvironmentTypeOK
    <2>4. QED
      BY <2>2, <2>3 DEF VehicleDies, startServiceLoop, stopServiceLoop,
         postInput, vars
  <1>2. UNCHANGED <<requestPending, callback, interference>>
    BY DEF Vehicle, VehicleRegisters, VehicleAnswersControl, VehicleResumes,
       VehicleReportsStatus, VehicleDies, startServiceLoop, stopServiceLoop,
       postInput, vars, agent, flags, budget
  <1>3. (pc' = "setPending") <=> (pc = "setPending")
    BY DEF Vehicle, VehicleRegisters, VehicleAnswersControl, VehicleResumes,
       VehicleReportsStatus, VehicleDies, startServiceLoop, stopServiceLoop,
       postInput, vars, agent, bridge
  <1>4. QED
    BY <1>1, <1>2, <1>3 DEF Quiet

\* PendingExact, and what holds while the flag is still to be set.
Pending ==
    interference = 0 =>
        /\ pc # "setPending" => (requestPending <=> Outstanding >= 1)
        /\ pc = "setPending" =>
              Outstanding = 1 /\ ~requestPending /\ callback # "clearPending"

LEMMA PendingQuiet == ASSUME Pending, Quiet PROVE Pending'
  BY OutstandingParts DEF Pending, Quiet

\* At most one exchange is under way as long as no report was unsolicited.
LEMMA OneExchange ==
    ASSUME TypeOK, Retries, interference = 0
    PROVE  Traffic <= 1
  BY RetriesParts, RetriesTypes DEF Retries, OneIf

LEMMA PendingRequest ==
    ASSUME TypeOK, Retries, Pending, sendRequestControl \/ queryStatus
    PROVE  Pending'
  <1>1. /\ Asks
        /\ UNCHANGED <<callback, requestPending, interference>>
        /\ pc # "setPending"
    BY DEF sendRequestControl, queryStatus, Request, Asks, flags, budget
  <1>2. CASE UNCHANGED net /\ pc' = "idle"
    BY <1>1, <1>2, PendingQuiet DEF Quiet
  <1>3. CASE /\ net' = With("RequestControl") \/ net' = With("QueryStatus")
             /\ pc' = "setPending" /\ ~requestPending
    <2>1. InNet(net') = InNet(net) + 1
      BY <1>3, RetriesTypes, NetChange, CountedKinds DEF OneIf
    <2>2. ASSUME interference = 0
          PROVE  InNet(net) = 0 /\ callback # "clearPending"
      BY <1>1, <2>2, OneExchange, RetriesTypes DEF Traffic, OneIf
    <2>3. ASSUME interference = 0 PROVE Outstanding' = 1
      BY <1>1, <2>1, <2>2, <2>3, OutstandingParts DEF OneIf
    <2>4. QED
      BY <1>1, <1>3, <2>2, <2>3 DEF Pending
  <1>4. QED
    BY <1>2, <1>3 DEF sendRequestControl, queryStatus, Request

LEMMA PendingFlag ==
    ASSUME TypeOK, Retries, Pending, setPending \/ clearPending \/ postJAUSResponse
    PROVE  Pending'
  <1>1. UNCHANGED <<net, interference>>
    BY DEF setPending, clearPending, postJAUSResponse, budget
  <1>2. CASE setPending
    <2>1. /\ pc = "setPending" /\ pc' = "idle" /\ requestPending' = TRUE
          /\ UNCHANGED callback
      BY <1>2 DEF setPending
    <2>2. Outstanding' = Outstanding
      BY <1>1, <2>1, OutstandingParts
    <2>3. QED
      BY <1>1, <2>1, <2>2 DEF Pending
  <1>3. CASE clearPending
    <2>1. /\ callback = "clearPending" /\ callback' = "post"
          /\ UNCHANGED pc /\ requestPending' = FALSE
      BY <1>3 DEF clearPending, bridge
    <2>2. ASSUME interference = 0 PROVE InNet(net) = 0
      BY <2>1, <2>2, OneExchange, RetriesTypes DEF Traffic, OneIf
    <2>3. ASSUME interference = 0 PROVE Outstanding' = 0
      BY <1>1, <2>1, <2>2, <2>3, OutstandingParts DEF OneIf
    <2>4. QED
      BY <1>1, <2>1, <2>3 DEF Pending
  <1>4. CASE postJAUSResponse
    <2>1. /\ callback = "post" /\ callback' = "idle"
          /\ UNCHANGED <<pc, requestPending>>
      BY <1>4 DEF postJAUSResponse, flags
    <2>2. Outstanding' = Outstanding
      BY <1>1, <2>1, OutstandingParts DEF OneIf
    <2>3. QED
      BY <1>1, <2>1, <2>2 DEF Pending
  <1>5. QED
    BY <1>2, <1>3, <1>4

LEMMA PendingReceive ==
    ASSUME TypeOK, Pending, "earlyReply" \notin Faults,
           NEW m \in Counted, Receive(m)
    PROVE  Pending'
  <1>1. /\ callback = "idle" /\ callback' = "clearPending"
        /\ net[m] > 0 /\ net' = Without(m)
        /\ pc # "setPending"
        /\ UNCHANGED <<pc, requestPending, interference>>
    BY DEF Receive, bridge, budget
  <1>2. InNet(net') = InNet(net) - 1
    BY <1>1, RetriesTypes, NetChange, CountedKinds DEF OneIf
  <1>3. Outstanding' = Outstanding
    BY <1>1, <1>2, OutstandingParts, RetriesTypes DEF OneIf
  <1>4. QED
    BY <1>1, <1>3 DEF Pending

LEMMA PendingStep ==
    ASSUME "earlyReply" \notin Faults, MaxLosses = 0
    PROVE  TypeOK /\ Retries /\ Pending /\ [Next]_vars => Pending'
  <1> SUFFICES ASSUME TypeOK, Retries, Pending, [Next]_vars PROVE Pending'
    OBVIOUS
  <1>1. CASE ServiceThread
    BY <1>1, QuietHandlers, PendingQuiet, PendingRequest, PendingFlag
       DEF ServiceThread
  <1>2. CASE OpenJAUSThread
    <2>1. \A m \in Counted : Receive(m) => Pending'
      BY PendingReceive
    <2>2. QED
      BY <1>2, <2>1, CountedKinds, PendingFlag DEF OpenJAUSThread,
         handleRequestControlResponse, handleIncomingReportStatus
  <1>3. ASSUME NEW m \in StatusReports, UnsolicitedReport(m) PROVE Pending'
    <2>1. interference \in Nat /\ interference' = interference + 1
      BY <1>3, RetriesTypes DEF UnsolicitedReport
    <2>2. QED
      BY <2>1 DEF Pending
  <1>4. ASSUME NEW m \in Messages, Lose(m) PROVE FALSE
    BY <1>4 DEF Lose, TypeOK, EnvironmentTypeOK
  <1>5. CASE \/ Vehicle \/ VehicleDies \/ startServiceLoop \/ stopServiceLoop
             \/ (\E input \in Inputs : postInput(input))
             \/ UNCHANGED vars
    BY <1>5, QuietEnvironment, PendingQuiet
  <1>6. QED
    BY <1>1, <1>2, <1>3, <1>4, <1>5 DEF Next

\* The flag says whether a request is outstanding, between the calls that
\* change it, as long as replies follow the assignment of requestPending and
\* nothing is lost (isRequestPending, sendRequestControl, queryStatus, both
\* callbacks); the assumptions are those under which it is checked.
THEOREM PendingIsExact ==
    ASSUME "earlyReply" \notin Faults, MaxLosses = 0
    PROVE  Spec => []PendingExact
  <1>1. Init => TypeOK /\ Retries /\ Pending
    <2>1. ASSUME Init PROVE Pending
      <3>1. InNet(net) = 0
        BY <2>1, MessageKinds DEF Init, InNet
      <3>2. QED
        BY <2>1, <3>1, OutstandingParts DEF Init, Pending, OneIf
    <2>2. QED
      BY <2>1, TypeInit, RetriesInit
  <1>2. TypeOK /\ Retries /\ Pending /\ [Next]_vars
            => TypeOK' /\ Retries' /\ Pending'
    BY TypeStep, RetriesStep, PendingStep
  <1>3. Pending => PendingExact
    BY DEF Pending, PendingExact
  <1>4. QED
    BY <1>1, <1>2, <1>3, PTL DEF Spec

LEMMA WedgedStep ==
    ASSUME TypeOK, [Next]_vars, Wedged
    PROVE  Wedged' \/ interference' > interference
  <1>1. /\ InNet(net) = 0 /\ callback # "clearPending"
        /\ requestPending /\ pc # "setPending"
    BY OutstandingParts, RetriesTypes DEF Wedged, OneIf
  <1>2. ASSUME Quiet PROVE Wedged'
    BY <1>1, <1>2, OutstandingParts DEF Quiet, Wedged, OneIf
  <1>3. \A m \in Counted : net[m] = 0
    BY <1>1, RetriesTypes, NetSum
  <1>4. CASE ServiceThread
    <2>1. CASE sendRequestControl \/ queryStatus \/ setPending
      <3>1. UNCHANGED net /\ pc' = "idle"
        BY <1>1, <2>1 DEF sendRequestControl, queryStatus, Request, setPending
      <3>2. Quiet
        BY <1>1, <2>1, <3>1 DEF sendRequestControl, queryStatus, Request,
           setPending, flags, budget, Quiet
      <3>3. QED
        BY <1>2, <3>2
    <2>2. QED
      BY <1>2, <1>4, <2>1, QuietHandlers DEF ServiceThread
  <1>5. CASE OpenJAUSThread
    <2>1. postJAUSResponse
      <3>1. \A m \in Counted : ~Receive(m)
        BY <1>3 DEF Receive
      <3>2. ~clearPending
        BY <1>1 DEF clearPending
      <3>3. QED
        BY <1>5, <3>1, <3>2, CountedKinds DEF OpenJAUSThread,
           handleRequestControlResponse, handleIncomingReportStatus
    <2>2. /\ UNCHANGED <<net, requestPending, pc>>
          /\ callback' = "idle"
      BY <2>1 DEF postJAUSResponse, flags
    <2>3. Outstanding' = 0
      BY <1>1, <2>2, OutstandingParts DEF OneIf
    <2>4. QED
      BY <1>1, <2>2, <2>3 DEF Wedged
  <1>6. ASSUME NEW m \in StatusReports, UnsolicitedReport(m)
        PROVE  interference' > interference
    BY <1>6, RetriesTypes DEF UnsolicitedReport
  <1>7. ASSUME NEW m \in Messages, Lose(m) PROVE Wedged'
    <2>1. net[m] > 0 /\ net' = Without(m)
      BY <1>7 DEF Lose
    <2>2. m \notin Counted
      BY <1>3, <2>1
    <2>3. InNet(net') = InNet(net)
      BY <1>1, <2>1, <2>2, RetriesTypes, NetChange DEF OneIf
    <2>4. UNCHANGED <<requestPending, callback, interference, pc>>
      BY <1>7 DEF Lose, agent, flags, bridge
    <2>5. QED
      BY <1>2, <2>3, <2>4 DEF Quiet
  <1>8. CASE \/ Vehicle \/ VehicleDies \/ startServiceLoop \/ stopServiceLoop
             \/ (\E input \in Inputs : postInput(input))
             \/ UNCHANGED vars
    BY <1>2, <1>8, QuietEnvironment
  <1>9. QED
    BY <1>4, <1>5, <1>6, <1>7, <1>8 DEF Next

\* Once the answer to a request is lost no step of the agent, the operator or
\* the vehicle makes it ask again, except a report nobody asked for
\* (isRequestPending in sendRequestControl and queryStatus, which time out
\* nowhere).
THEOREM OnlyAReportRevives == Spec => OnlyReportRevives
  <1>1. TypeOK /\ [Next]_vars =>
        [Wedged => Wedged' \/ interference' > interference]_vars
    BY WedgedStep
  <1>2. QED
    BY <1>1, TypeInit, TypeStep, PTL DEF Spec, OnlyReportRevives

=============================================================================
