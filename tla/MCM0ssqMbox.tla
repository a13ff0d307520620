----------------------------- MODULE MCM0ssqMbox -----------------------------
(* Two message ids, with and without payload, on a ring of ten words: eight *)
(* are usable, so the FIFO takes two messages and refuses the third, and    *)
(* messages and responses wrap.                                             *)
EXTENDS M0ssqMbox

MCIds == {1, 2}
MCDataWords == [i \in MCIds |-> IF i = 1 THEN 0 ELSE 2]
MCRespWords == [i \in MCIds |-> 1]
=============================================================================
