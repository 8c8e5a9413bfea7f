------------------------------ MODULE Handover ------------------------------
(***************************************************************************)
(* What the agent promises about a vehicle, told without threads, queues,  *)
(* flags or messages: the operator goes through the phases in order, joins *)
(* Standby only after the vehicle confirmed control, Ready only after the  *)
(* vehicle was READY as well, and the stick moves the vehicle in Ready     *)
(* only. The vehicle confirms only to an agent that has discovered it.     *)
(***************************************************************************)

VARIABLES
    phase,      \* the active state of VehicleStateMachine
    confirmed,  \* the vehicle has confirmed control to the agent
    wasReady,   \* the vehicle has been READY
    driving     \* a wrench effort was sent

vars == <<phase, confirmed, wasReady, driving>>

Init ==
    /\ phase = "Initialize"
    /\ confirmed = FALSE
    /\ wasReady \in BOOLEAN
    /\ driving = FALSE

Discover ==
    /\ phase = "Initialize"
    /\ phase' = "Control"
    /\ UNCHANGED <<confirmed, wasReady, driving>>

Confirm ==
    /\ phase # "Initialize"
    /\ confirmed' = TRUE
    /\ UNCHANGED <<phase, wasReady, driving>>

TakeControl ==
    /\ phase = "Control"
    /\ confirmed
    /\ phase' = "Standby"
    /\ UNCHANGED <<confirmed, wasReady, driving>>

\* only an agent that took control makes a vehicle READY
BecomeReady ==
    /\ phase \in {"Standby", "Ready"}
    /\ wasReady' = TRUE
    /\ UNCHANGED <<phase, confirmed, driving>>

Activate ==
    /\ phase = "Standby"
    /\ wasReady
    /\ phase' = "Ready"
    /\ UNCHANGED <<confirmed, wasReady, driving>>

Drive ==
    /\ phase = "Ready"
    /\ driving' = TRUE
    /\ UNCHANGED <<phase, confirmed, wasReady>>

Next ==
    \/ Discover
    \/ Confirm
    \/ TakeControl
    \/ BecomeReady
    \/ Activate
    \/ Drive

Spec == Init /\ [][Next]_vars

=============================================================================
