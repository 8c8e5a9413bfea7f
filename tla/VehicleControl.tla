--------------------------- MODULE VehicleControl ---------------------------
(***************************************************************************)
(* How the FORT agent hands a vehicle over to the operator of a joystick:  *)
(* the message queue and service thread of JausBridge, the vehicle state   *)
(* machine with its states, and the request flags of JAUSClientImpl, next  *)
(* to the parties they talk to (operator, network, vehicle).               *)
(*                                                                         *)
(* Three threads act on this state:                                        *)
(*   - the io thread posts decoded joystick reports (postInput);           *)
(*   - the service thread pops one message at a time and runs the handler  *)
(*     of the current state; a handler that sends a JAUS request is split  *)
(*     where it touches the unsynchronised flag requestPending;            *)
(*   - the OpenJAUS thread runs the reply callbacks, which write the       *)
(*     result, clear requestPending and post a JAUSResponse, in that order.*)
(***************************************************************************)
EXTENDS Naturals, Sequences, FiniteSets

CONSTANTS
    Inputs,           \* joystick reports: records of Reports below
    Sticks,           \* stick positions a report can carry
    NoEffort,         \* "no wrench effort was sent yet"
    NoInput,          \* the value lastJs is forced to before the loop starts
    MaxQueue,         \* bound: joystick reports waiting in the queue
    MaxInterference,  \* bound: unsolicited or duplicated status reports
    MaxLosses,        \* bound: JAUS messages the network loses
    Faults            \* which other hazards the environment may show

Reports ==
    [rDown : BOOLEAN, dataOK : BOOLEAN, pause : BOOLEAN, stick : Sticks]

ASSUME InputsAssumption == Inputs \subseteq Reports
ASSUME NoEffortAssumption == NoEffort \notin Sticks
ASSUME NoInputAssumption == NoInput \notin Inputs
ASSUME BoundsAssumption ==
    /\ MaxQueue \in Nat \ {0}
    /\ MaxInterference \in Nat
    /\ MaxLosses \in Nat
ASSUME FaultsAssumption ==
    Faults \subseteq {"earlyReply", "vehicleDies", "revokes", "stop"}

VARIABLES
    \* JausBridge
    running, pc, queue, lastJs,
    \* VehicleStateMachine: the active state and its members
    state, rDownPressed, requested,
    \* JAUSClientImpl
    serverValid, requestPending, controlGranted, currentStatus,
    \* the callback the OpenJAUS thread is in
    callback,
    \* the network and the vehicle
    net, registered, alive, vehicleStatus, interference, losses,
    \* history, read by properties only
    effort, confirmed, wasReady

bridge  == <<running, pc, queue, lastJs>>
machine == <<state, rDownPressed, requested>>
flags   == <<requestPending, controlGranted, currentStatus>>
vehicle == <<registered, alive, vehicleStatus>>
budget  == <<interference, losses>>
history == <<effort, confirmed, wasReady>>
vars    == <<bridge, machine, serverValid, flags, callback, net, vehicle,
             budget, history>>

States == {"Initialize", "Control", "Standby", "Ready", "Emergency"}

\* where the service thread is: in the loop, or inside a call on the client
Labels == {"notStarted", "idle", "sendRequestControl", "queryStatus",
           "setPending", "stopped"}

Commands       == {"RequestControl", "Resume", "QueryStatus"}
ControlReplies == {"ConfirmControl", "RejectControl"}
StatusReports  == {"STANDBY", "READY"}
Messages       == Commands \cup ControlReplies \cup StatusReports

JoystickInput(input) == [kind |-> "JoystickInput", input |-> input]
JAUSResponse         == [kind |-> "JAUSResponse"]
BridgeMessages ==
    {JoystickInput(input) : input \in Inputs} \cup {JAUSResponse}

-----------------------------------------------------------------------------
(* The loop is about to start: the handlers of startServiceLoop have run,   *)
(* the first state is active and no request was ever sent.                  *)

Init ==
    /\ running = FALSE
    /\ pc = "notStarted"
    /\ queue = <<>>
    /\ lastJs = NoInput
    /\ state = "Initialize"
    /\ rDownPressed = FALSE
    /\ requested = FALSE
    /\ serverValid = FALSE
    /\ requestPending = FALSE
    /\ controlGranted = FALSE
    /\ currentStatus = "INITIALIZE"
    /\ callback = "idle"
    /\ net = [m \in Messages |-> 0]
    /\ registered \in BOOLEAN
    /\ alive = TRUE
    /\ vehicleStatus \in StatusReports
    /\ interference = 0
    /\ losses = 0
    /\ effort = NoEffort
    /\ confirmed = FALSE
    /\ wasReady = (vehicleStatus = "READY")

Queued(kind) == {i \in DOMAIN queue : queue[i].kind = kind}

\* net is a bag: UDP transport neither orders nor deduplicates anything here
With(m)    == [net EXCEPT ![m] = @ + 1]
Without(m) == [net EXCEPT ![m] = @ - 1]
Replaced(m, answer) == [net EXCEPT ![m] = @ - 1, ![answer] = @ + 1]

-----------------------------------------------------------------------------
(* JausBridge, main thread *)

startServiceLoop ==
    /\ pc = "notStarted"
    /\ running' = TRUE
    /\ pc' = "idle"
    /\ UNCHANGED <<queue, lastJs, machine, serverValid, flags, callback, net,
                   vehicle, budget, history>>

\* ~JausBridge at process exit; the join waits for pc = "stopped"
stopServiceLoop ==
    /\ "stop" \in Faults
    /\ running
    /\ running' = FALSE
    /\ UNCHANGED <<pc, queue, lastJs, machine, serverValid, flags, callback,
                   net, vehicle, budget, history>>

(* JausBridge, io thread: the report of a COMBINEDJOYSTICKKEYPAD message *)

\* the branches of postInput that do not post
Paused(input) == ~input.dataOK \/ input.pause

\* mutant: a report that finds the queue busy is dropped
postInput_DropsWhenBusy(input) ==
    /\ running
    /\ Cardinality(Queued("JoystickInput")) < MaxQueue
    /\ input # lastJs
    /\ lastJs' = input
    /\ queue' = IF Paused(input) \/ queue # <<>> THEN queue
                ELSE Append(queue, JoystickInput(input))
    /\ UNCHANGED <<running, pc, machine, serverValid, flags, callback, net,
                   vehicle, budget, history>>

postInput(input) ==
    /\ running
    /\ Cardinality(Queued("JoystickInput")) < MaxQueue
    /\ input # lastJs
    /\ lastJs' = input
    /\ \/ Paused(input) /\ queue' = queue
       \/ ~Paused(input) /\ queue' = Append(queue, JoystickInput(input))
    /\ UNCHANGED <<running, pc, machine, serverValid, flags, callback, net,
                   vehicle, budget, history>>

-----------------------------------------------------------------------------
(* The service loop. It looks at running before each pop. *)

Pop(kind) ==
    /\ running
    /\ pc = "idle"
    /\ queue # <<>>
    /\ Head(queue).kind = kind
    /\ queue' = Tail(queue)
    /\ UNCHANGED <<running, lastJs, callback, vehicle, budget, confirmed,
                   wasReady>>

\* mutant: the wait predicate forgets "|| !running"
serviceLoopExits_NeedsMessage ==
    /\ ~running
    /\ pc = "idle"
    /\ queue # <<>>
    /\ pc' = "stopped"
    /\ UNCHANGED <<running, queue, lastJs, machine, serverValid, flags,
                   callback, net, vehicle, budget, history>>

serviceLoopExits ==
    /\ ~running
    /\ pc = "idle"
    /\ pc' = "stopped"
    /\ UNCHANGED <<running, queue, lastJs, machine, serverValid, flags,
                   callback, net, vehicle, budget, history>>

\* transitionIfNeeded: a fresh state object, its members initialised
Enter(s) ==
    /\ state' = s
    /\ rDownPressed' = FALSE
    /\ requested' = FALSE

PopInput(s) ==
    /\ state = s
    /\ Pop("JoystickInput")

\* both branches of handleInput leave rDownPressed equal to the button
NotesButton == rDownPressed' = Head(queue).input.rDown

Edge == Head(queue).input.rDown /\ ~rDownPressed

InitializeHandleInput ==
    /\ PopInput("Initialize")
    /\ \/ /\ Edge /\ registered
          /\ serverValid' = TRUE
          /\ Enter("Control")
       \/ /\ ~(Edge /\ registered)
          /\ NotesButton
          /\ UNCHANGED <<state, requested, serverValid>>
    /\ UNCHANGED <<pc, flags, net, effort>>

\* mutant: the result of sendRequestControl is not kept
ControlHandleInput_NotKept ==
    /\ PopInput("Control")
    /\ NotesButton
    /\ pc' = IF Edge THEN "sendRequestControl" ELSE pc
    /\ UNCHANGED <<state, requested, serverValid, flags, net, effort>>

\* controlRequested is what sendRequestControl returns; only this thread
\* reads it, so it is set where the call starts
ControlHandleInput ==
    /\ PopInput("Control")
    /\ NotesButton
    /\ \/ /\ Edge /\ ~requested
          /\ requested' = serverValid
          /\ pc' = "sendRequestControl"
       \/ /\ ~(Edge /\ ~requested)
          /\ UNCHANGED <<requested, pc>>
    /\ UNCHANGED <<state, serverValid, flags, net, effort>>

\* sendRequestResume, then queryStatus
StandbyHandleInput ==
    /\ PopInput("Standby")
    /\ NotesButton
    /\ \/ /\ Edge /\ ~requested
          /\ requested' = serverValid
          /\ net' = IF serverValid THEN With("Resume") ELSE net
          /\ pc' = "queryStatus"
       \/ /\ ~(Edge /\ ~requested)
          /\ UNCHANGED <<requested, net, pc>>
    /\ UNCHANGED <<state, serverValid, flags, effort>>

\* sendWrenchEffort
ReadyHandleInput ==
    /\ PopInput("Ready")
    /\ effort' = Head(queue).input.stick
    /\ UNCHANGED <<pc, machine, serverValid, flags, net>>

PopResponse(s) ==
    /\ state = s
    /\ Pop("JAUSResponse")
    /\ UNCHANGED <<serverValid, flags, net, effort>>

\* mutant: any response counts as a grant
ControlHandleResponse_AnyResponse ==
    /\ PopResponse("Control")
    /\ Enter("Standby")
    /\ UNCHANGED pc

\* mutant: the status is polled before the operator asks for Resume
ControlHandleResponse_PollsEarly ==
    /\ PopResponse("Control")
    /\ \/ /\ controlGranted
          /\ Enter("Standby")
          /\ pc' = "queryStatus"
       \/ /\ ~controlGranted
          /\ pc' = "sendRequestControl"
          /\ UNCHANGED machine

ControlHandleResponse ==
    /\ PopResponse("Control")
    /\ \/ /\ controlGranted
          /\ Enter("Standby")
          /\ UNCHANGED pc
       \/ /\ ~controlGranted
          /\ pc' = "sendRequestControl"
          /\ UNCHANGED machine

\* mutant: any reported status promotes
StandbyHandleResponse_AnyStatus ==
    /\ PopResponse("Standby")
    /\ \/ /\ currentStatus # "INITIALIZE"
          /\ Enter("Ready")
          /\ UNCHANGED pc
       \/ /\ currentStatus = "INITIALIZE"
          /\ pc' = "queryStatus"
          /\ UNCHANGED machine

StandbyHandleResponse ==
    /\ PopResponse("Standby")
    /\ \/ /\ currentStatus = "READY"
          /\ Enter("Ready")
          /\ UNCHANGED pc
       \/ /\ currentStatus # "READY"
          /\ pc' = "queryStatus"
          /\ UNCHANGED machine

\* InitializeState and ReadyState ignore responses
IgnoreResponse ==
    /\ PopResponse("Initialize") \/ PopResponse("Ready")
    /\ UNCHANGED <<pc, machine>>

(* Calls on the client, inside a handler. The message goes out before the   *)
(* flag is set.                                                             *)

\* mutant: a request goes out although one is pending
Request_IgnoresPending(label, m) ==
    /\ pc = label
    /\ \/ /\ serverValid
          /\ net' = With(m)
          /\ pc' = "setPending"
       \/ /\ ~serverValid
          /\ net' = net
          /\ pc' = "idle"
    /\ UNCHANGED <<running, queue, lastJs, machine, serverValid, flags,
                   callback, vehicle, budget, history>>

Request(label, m) ==
    /\ pc = label
    /\ \/ /\ serverValid /\ ~requestPending
          /\ net' = With(m)
          /\ pc' = "setPending"
       \/ /\ ~serverValid \/ requestPending
          /\ net' = net
          /\ pc' = "idle"
    /\ UNCHANGED <<running, queue, lastJs, machine, serverValid, flags,
                   callback, vehicle, budget, history>>

sendRequestControl == Request("sendRequestControl", "RequestControl")
queryStatus        == Request("queryStatus", "QueryStatus")

\* mutant: the flag is never set
setPending_Missing ==
    /\ pc = "setPending"
    /\ pc' = "idle"
    /\ UNCHANGED <<running, queue, lastJs, machine, serverValid, flags,
                   callback, net, vehicle, budget, history>>

setPending ==
    /\ pc = "setPending"
    /\ requestPending' = TRUE
    /\ pc' = "idle"
    /\ UNCHANGED <<running, queue, lastJs, machine, serverValid,
                   controlGranted, currentStatus, callback, net, vehicle,
                   budget, history>>

-----------------------------------------------------------------------------
(* Callbacks on the OpenJAUS thread *)

\* mutant: a callback runs without a message of its own
Receive_Twice(m) ==
    /\ callback = "idle"
    /\ pc = "setPending" => "earlyReply" \in Faults
    /\ net' = Without(m)
    /\ callback' = "clearPending"
    /\ UNCHANGED <<bridge, machine, serverValid, requestPending, vehicle,
                   budget, history>>

Receive(m) ==
    /\ callback = "idle"
    /\ net[m] > 0
    /\ pc = "setPending" => "earlyReply" \in Faults
    /\ net' = Without(m)
    /\ callback' = "clearPending"
    /\ UNCHANGED <<bridge, machine, serverValid, requestPending, vehicle,
                   budget, history>>

handleRequestControlResponse(m) ==
    /\ Receive(m)
    /\ controlGranted' = (m = "ConfirmControl")
    /\ UNCHANGED currentStatus

handleIncomingReportStatus(m) ==
    /\ Receive(m)
    /\ currentStatus' = m
    /\ UNCHANGED controlGranted

\* mutant: the callback leaves the flag set
clearPending_Missing ==
    /\ callback = "clearPending"
    /\ callback' = "post"
    /\ UNCHANGED <<bridge, machine, serverValid, flags, net, vehicle, budget,
                   history>>

clearPending ==
    /\ callback = "clearPending"
    /\ requestPending' = FALSE
    /\ callback' = "post"
    /\ UNCHANGED <<bridge, machine, serverValid, controlGranted,
                   currentStatus, net, vehicle, budget, history>>

postJAUSResponse ==
    /\ callback = "post"
    /\ queue' = Append(queue, JAUSResponse)
    /\ callback' = "idle"
    /\ UNCHANGED <<running, pc, lastJs, machine, serverValid, flags, net,
                   vehicle, budget, history>>

-----------------------------------------------------------------------------
(* External: the vehicle and the network *)

agent == <<bridge, machine, serverValid, flags, callback, effort>>

VehicleRegisters ==
    /\ alive /\ ~registered
    /\ registered' = TRUE
    /\ UNCHANGED <<agent, net, alive, vehicleStatus, budget, confirmed,
                   wasReady>>

VehicleAnswersControl(m) ==
    /\ alive
    /\ net["RequestControl"] > 0
    /\ confirmed /\ m = "RejectControl" => "revokes" \in Faults
    /\ net' = Replaced("RequestControl", m)
    /\ confirmed' = (confirmed \/ m = "ConfirmControl")
    /\ UNCHANGED <<agent, vehicle, budget, wasReady>>

VehicleResumes ==
    /\ alive
    /\ net["Resume"] > 0
    /\ net' = Without("Resume")
    /\ vehicleStatus' = "READY"
    /\ wasReady' = TRUE
    /\ UNCHANGED <<agent, registered, alive, budget, confirmed>>

VehicleReportsStatus ==
    /\ alive
    /\ net["QueryStatus"] > 0
    /\ net' = Replaced("QueryStatus", vehicleStatus)
    /\ UNCHANGED <<agent, vehicle, budget, confirmed, wasReady>>

\* a status event nobody asked for, or a duplicate of an earlier report
UnsolicitedReport(m) ==
    /\ alive
    /\ interference < MaxInterference
    /\ m = "READY" => wasReady
    /\ interference' = interference + 1
    /\ net' = With(m)
    /\ UNCHANGED <<agent, vehicle, losses, confirmed, wasReady>>

VehicleDies ==
    /\ "vehicleDies" \in Faults
    /\ alive
    /\ alive' = FALSE
    /\ UNCHANGED <<agent, net, registered, vehicleStatus, budget, confirmed,
                   wasReady>>

Lose(m) ==
    /\ losses < MaxLosses
    /\ net[m] > 0
    /\ net' = Without(m)
    /\ losses' = losses + 1
    /\ UNCHANGED <<agent, vehicle, interference, confirmed, wasReady>>

-----------------------------------------------------------------------------
ServiceThread ==
    \/ serviceLoopExits
    \/ InitializeHandleInput
    \/ ControlHandleInput
    \/ StandbyHandleInput
    \/ ReadyHandleInput
    \/ ControlHandleResponse
    \/ StandbyHandleResponse
    \/ IgnoreResponse
    \/ sendRequestControl
    \/ queryStatus
    \/ setPending

OpenJAUSThread ==
    \/ \E m \in ControlReplies : handleRequestControlResponse(m)
    \/ \E m \in StatusReports : handleIncomingReportStatus(m)
    \/ clearPending
    \/ postJAUSResponse

Vehicle ==
    \/ VehicleRegisters
    \/ \E m \in ControlReplies : VehicleAnswersControl(m)
    \/ VehicleResumes
    \/ VehicleReportsStatus

Next ==
    \/ startServiceLoop
    \/ stopServiceLoop
    \/ \E input \in Inputs : postInput(input)
    \/ ServiceThread
    \/ OpenJAUSThread
    \/ Vehicle
    \/ \E m \in StatusReports : UnsolicitedReport(m)
    \/ VehicleDies
    \/ \E m \in Messages : Lose(m)

Spec == Init /\ [][Next]_vars

(***************************************************************************)
(* Fairness. The operating system schedules both threads. A vehicle that   *)
(* is up answers, and one asked again and again finally grants control. An *)
(* operator who wants the vehicle keeps pressing and releasing R-Down: each*)
(* report that can be sent again and again is sent in the end.             *)
(***************************************************************************)
ThreadFairness ==
    /\ WF_vars(startServiceLoop)
    /\ WF_vars(ServiceThread)
    /\ WF_vars(OpenJAUSThread)

VehicleFairness ==
    /\ WF_vars(Vehicle)
    /\ SF_vars(VehicleAnswersControl("ConfirmControl"))
    /\ SF_vars(VehicleResumes)

OperatorFairness == \A input \in Inputs : SF_vars(postInput(input))

ThreadFairSpec == Spec /\ ThreadFairness
FairSpec       == Spec /\ ThreadFairness /\ VehicleFairness /\ OperatorFairness

-----------------------------------------------------------------------------
(* Properties *)

BridgeTypeOK ==
    /\ running \in BOOLEAN
    /\ pc \in Labels
    /\ queue \in Seq(BridgeMessages)
    /\ lastJs \in Inputs \cup {NoInput}

MachineTypeOK ==
    /\ state \in States
    /\ rDownPressed \in BOOLEAN
    /\ requested \in BOOLEAN

ClientTypeOK ==
    /\ serverValid \in BOOLEAN
    /\ requestPending \in BOOLEAN
    /\ controlGranted \in BOOLEAN
    /\ currentStatus \in StatusReports \cup {"INITIALIZE"}
    /\ callback \in {"idle", "clearPending", "post"}

EnvironmentTypeOK ==
    /\ net \in [Messages -> Nat]
    /\ registered \in BOOLEAN
    /\ alive \in BOOLEAN
    /\ vehicleStatus \in StatusReports
    /\ interference \in 0 .. MaxInterference
    /\ losses \in 0 .. MaxLosses

HistoryTypeOK ==
    /\ effort \in Sticks \cup {NoEffort}
    /\ confirmed \in BOOLEAN
    /\ wasReady \in BOOLEAN

\* Every variable stays in its domain (JausBridge, VehicleStateMachine and
\* JAUSClientImpl members; the counters of the environment; the history).
TypeOK ==
    /\ BridgeTypeOK
    /\ MachineTypeOK
    /\ ClientTypeOK
    /\ EnvironmentTypeOK
    /\ HistoryTypeOK

(* Safety in any environment *)

\* The agent drives, or offers to drive, only a vehicle that has confirmed
\* control and has been READY: the chain from the vehicle's answer through
\* the network, the callback and the state machine (handleRequestControl-
\* Response, ControlState and StandbyState::handleResponse) never skips a link.
EffortAuthorised ==
    /\ state = "Standby" => confirmed
    /\ state = "Ready" => confirmed /\ wasReady
    /\ effort # NoEffort => confirmed /\ wasReady

\* The chain behind EffortAuthorised, inductive together with TypeOK: every
\* reply in the network, every flag of the client and every call under way
\* has its cause at the vehicle or in the state machine.
AuthorityChain ==
    /\ pc = "sendRequestControl" => state = "Control"
    /\ pc = "queryStatus" => state = "Standby"
    /\ net["RequestControl"] > 0 => state # "Initialize"
    /\ net["Resume"] > 0 => state \in {"Standby", "Ready"}
    /\ net["ConfirmControl"] > 0 \/ controlGranted => confirmed
    /\ net["READY"] > 0 => wasReady
    /\ vehicleStatus = "READY" \/ currentStatus = "READY" => wasReady

OneIf(condition) == IF condition THEN 1 ELSE 0

\* requests on their way, and replies whose callback has not cleared the flag
Outstanding ==
    net["RequestControl"] + net["QueryStatus"] + net["ConfirmControl"]
    + net["RejectControl"] + net["STANDBY"] + net["READY"]
    + OneIf(callback = "clearPending")

\* everything that can still make the agent send a request by itself
Circulating ==
    Outstanding
    + OneIf(callback = "post")
    + Cardinality(Queued("JAUSResponse"))
    + OneIf(pc \in {"sendRequestControl", "queryStatus"})

\* Retries do not multiply: each exchange under way goes back to the one
\* press the current state has used or to one unsolicited report, however
\* replies, callbacks and retries (handleResponse) interleave.
RetriesBounded == Circulating <= interference + OneIf(requested)

\* The agent implements the abstract hand-over: whatever the threads, the
\* network and the vehicle do, each step is a step of Handover or changes
\* nothing it speaks of.
Abstract ==
    INSTANCE Handover WITH phase <- state, driving <- effort # NoEffort
ImplementsHandover == Abstract!Spec

\* After stopServiceLoop no further message is taken from the queue.
NoPopAfterStop == [][~running => Len(queue') >= Len(queue)]_vars

\* The queue and the service thread are the ones BridgeQueue promises, with
\* every handler as it is: a message that waits is taken as long as the bridge
\* runs, and the loop ends after stopServiceLoop, also when the queue is empty
\* or a handler is in the middle of a request. AgentThreads shows the same of
\* the mutex and the condition variable this module abstracts.
MessageQueue ==
    INSTANCE BridgeQueue WITH
        Items <- BridgeMessages,
        waiting <- queue,
        consumer <- IF pc = "notStarted" THEN "none"
                    ELSE IF pc = "stopped" THEN "ended"
                    ELSE "on"
ImplementsQueue == MessageQueue!FairSpec

\* The agent waits for an answer that nobody will give.
Wedged == requestPending /\ Outstanding = 0 /\ pc # "setPending"

\* A request without an answer is never repeated: no press, no queued response
\* and no answer to anything else gets the agent out of it, only a report
\* nobody asked for (isRequestPending in sendRequestControl and queryStatus).
OnlyReportRevives ==
    [][Wedged => Wedged' \/ interference' > interference]_vars

-----------------------------------------------------------------------------
(* Safety as long as no report was unsolicited, when replies follow the      *)
(* assignment of requestPending                                              *)

\* JAUSClient::isRequestPending tells whether a request is outstanding,
\* between the calls that change it.
PendingExact ==
    interference = 0 /\ pc # "setPending" =>
        (requestPending <=> Outstanding >= 1)

\* RequestControl goes out only after a press of R-Down in ControlState.
PressBeforeRequest ==
    [][interference = 0 /\ net'["RequestControl"] > net["RequestControl"]
        => requested]_vars

\* StandbyState is left for ReadyState only after the operator's press that
\* sends Resume.
ResumeBeforeReady ==
    [][interference = 0 /\ state = "Standby" /\ state' = "Ready"
        => requested]_vars

-----------------------------------------------------------------------------
(* Liveness *)

\* An operator who keeps pressing gets the vehicle: retries after rejections
\* and polling in StandbyState never wedge on requestPending.
EventuallyReady == <>(state = "Ready")

\* The last report with a stick position
Holds(stick) ==
    lastJs # NoInput /\ ~Paused(lastJs) /\ lastJs.stick = stick

\* A stick that moved in ReadyState reaches the vehicle: what sendWrenchEffort
\* sent last becomes the position the operator holds, whatever was queued
\* before, unless the operator moves on, pauses or the agent stops.
StickReaches ==
    \A stick \in Sticks :
        (state = "Ready" /\ Holds(stick) /\ Queued("JoystickInput") # {})
        ~> (effort = stick \/ ~Holds(stick) \/ ~running)

-----------------------------------------------------------------------------
(* What the comments of the code say, checked against what the code does *)

\* JausClient.h: isRequestPending is "true if a JAUS request is waiting on a
\* response".
PendingMeansOutstanding == requestPending => Outstanding >= 1

\* ReadyState.h: "A missed heartbeat triggers EmergencyState".
MissedHeartbeat == (state = "Ready" /\ ~alive) ~> (state = "Emergency")

=============================================================================
