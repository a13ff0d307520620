-------------------------------- MODULE MCLag --------------------------------
(* Two ports, of which one may loop back, the LAG and the LED handler in a   *)
(* table with a slot for each, and one group.                                *)
EXTENDS Lag
MCLoopPorts == {1}
MCHandlers == {"lag", "led"}
=============================================================================
