----------------------------- MODULE MCM0ssqFifo -----------------------------
(* A ring of five words and messages of one or two words: a message wraps   *)
(* at each position of the ring, and the ring is empty, partly full and     *)
(* full.                                                                    *)
EXTENDS M0ssqFifo

CONSTANTS a, b
MCWords == {a, b}
=============================================================================
