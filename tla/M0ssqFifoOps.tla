---------------------------- MODULE M0ssqFifoOps ----------------------------
(***************************************************************************)
(* The pointer arithmetic of the M0SSQ FIFO, the ring of 32-bit words in   *)
(* SRAM that the host and a Cortex-M0 share (driver/m0ssq/main/            *)
(* m0ssq_fifo.c).  The first two words of the ring's memory hold the write *)
(* and the read pointer; the remaining MemSize - PtrSize bytes are the     *)
(* ring.  The pointers are stored in entries and used in bytes.            *)
(***************************************************************************)
EXTENDS Integers

CONSTANT MemSize            \* fifo->mem.size, bytes

EntSize == 4                \* per_entry_size: MBOX_ENT_SIZE, the only value passed
PtrSize == 8                \* FIFO_PTR_SIZE: sizeof(m0ssq_fifo_ptr_t)

ASSUME MemSizeAssumption ==
    /\ MemSize \in Nat
    /\ MemSize >= PtrSize + EntSize
    /\ MemSize % EntSize = 0

FifoSize == MemSize - PtrSize                      \* fifo->size

Pointers == (PtrSize \div EntSize) .. (MemSize \div EntSize) - 1
Cells    == { EntSize * p : p \in Pointers }       \* byte position of each word

InitPointer == PtrSize \div EntSize

\* m0ssq_fifo_wp_get, m0ssq_fifo_rp_get: from entries to bytes
Position(p) == p * EntSize

\* Mutant of UsedSize: the wrapped case forgets that the difference is the free part.
UsedSizeUnwrapped(w, r) ==
    IF Position(w) >= Position(r)
    THEN Position(w) - Position(r)
    ELSE Position(r) - Position(w)

\* m0ssq_fifo_used_size
UsedSize(w, r) ==
    IF Position(w) >= Position(r)
    THEN Position(w) - Position(r)
    ELSE FifoSize - (Position(r) - Position(w))

\* m0ssq_fifo_free_size; unsigned in the code, and never below 0 (M0ssqFifo_proofs!UsedFacts)
FreeSize(w, r) == FifoSize - UsedSize(w, r) - EntSize

\* m0ssq_fifo_write_check, m0ssq_fifo_read_check returning SYS_OK
WriteCheck(w, r, len) == FreeSize(w, r) > len
ReadCheck(w, r, len)  == UsedSize(w, r) >= len

\* Mutant of Forward: a pointer that reaches the end of the memory does not wrap.
ForwardLateWrap(p, len) ==
    LET next == Position(p) + len IN
    (IF next > MemSize THEN (next % MemSize) + PtrSize ELSE next) \div EntSize

\* The next pointer of m0ssq_fifo_wp_forward and m0ssq_fifo_rp_forward
Forward(p, len) ==
    LET next == Position(p) + len IN
    (IF next >= MemSize THEN (next % MemSize) + PtrSize ELSE next) \div EntSize

\* Where m0ssq_fifo_pos_write / _pos_read put the byte at offset off of a
\* block that starts at byte position pos: what does not fit before the end
\* of the memory continues behind the pointer words.
CellAt(pos, off) ==
    IF pos + off < MemSize THEN pos + off ELSE PtrSize + (pos + off - MemSize)
=============================================================================
