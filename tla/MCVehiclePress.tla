--------------------------- MODULE MCVehiclePress ---------------------------
(* VehiclePress with the reports of MCVehicleControl.                        *)
EXTENDS MCVehicleControl, VehiclePress
=============================================================================
