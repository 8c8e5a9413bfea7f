-------------------------- MODULE MCVehicleControl --------------------------
(* Instances of VehicleControl for TLC: which joystick reports occur.        *)
EXTENDS VehicleControl

CONSTANTS s1, s2

MCSticks == {s1, s2}

Report(rDown, dataOK, pause, stick) ==
    [rDown |-> rDown, dataOK |-> dataOK, pause |-> pause, stick |-> stick]

\* R-Down released, R-Down held
PressInputs ==
    {Report(FALSE, TRUE, FALSE, s1), Report(TRUE, TRUE, FALSE, s1)}

\* and the stick moved while R-Down is held, and the two pause encodings
AllInputs ==
    PressInputs \cup
    {Report(TRUE, TRUE, FALSE, s2), Report(FALSE, FALSE, FALSE, s1),
     Report(FALSE, TRUE, TRUE, s2)}

\* two stick positions and a paused report
DriveInputs ==
    PressInputs \cup
    {Report(FALSE, TRUE, FALSE, s2), Report(FALSE, FALSE, FALSE, s1)}

=============================================================================
