---------------------------- MODULE VehiclePress ----------------------------
(***************************************************************************)
(* VehicleControl with a history of R-Down as the operator works it. Every *)
(* state of the vehicle state machine detects the press with a member of   *)
(* its own, which is FALSE when the state is entered; the history goes on. *)
(***************************************************************************)
EXTENDS VehicleControl

VARIABLE held  \* R-Down in the joystick report the service thread took last

HandlesInput ==
    /\ Len(queue') < Len(queue)
    /\ Head(queue).kind = "JoystickInput"

PressInit == Init /\ held = FALSE

PressNext ==
    /\ Next
    /\ held' = IF HandlesInput THEN Head(queue).input.rDown ELSE held

PressSpec == PressInit /\ [][PressNext]_<<vars, held>>

\* ControlState.h: "On the first R-Down press a JAUS RequestControl command is
\* sent"; StandbyState.h: "First R-Down press sends Resume". A press begins
\* with a report in which R-Down is down after one in which it was not.
OnlyPressRequests == [][requested' /\ ~requested => ~held]_<<vars, held>>

=============================================================================
