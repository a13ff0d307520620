--------------------------- MODULE MCM0ssqFirmware ---------------------------
(* The specification has no constants: its state space is finite.           *)
EXTENDS M0ssqFirmware
=============================================================================
