--------------------------- MODULE M0ssqFifoQueue ---------------------------
(***************************************************************************)
(* What an M0SSQ FIFO promises to its two clients, without the ring: a     *)
(* bounded queue of words.  A write is atomic, a read returns the oldest   *)
(* words in the order they were written.  Capacity is what                 *)
(* m0ssq_fifo_free_size leaves usable: one entry is kept free and the      *)
(* comparison in m0ssq_fifo_write_check is strict, so two entries of the   *)
(* ring are never used.                                                    *)
(***************************************************************************)
EXTENDS Integers, Sequences

CONSTANTS Words, MaxLen, Capacity

VARIABLES q, got

Messages == UNION { [1 .. n -> Words] : n \in 1 .. MaxLen }

Init == q = << >> /\ got = << >>

Write(d) ==
    /\ Len(q) + Len(d) <= Capacity
    /\ q' = q \o d
    /\ UNCHANGED got

Read(n) ==
    /\ n <= Len(q)
    /\ got' = SubSeq(q, 1, n)
    /\ q' = SubSeq(q, n + 1, Len(q))

Next == (\E d \in Messages : Write(d)) \/ (\E n \in 1 .. MaxLen : Read(n))

Spec == Init /\ [][Next]_<<q, got>>
=============================================================================
