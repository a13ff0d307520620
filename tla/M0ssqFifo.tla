------------------------------ MODULE M0ssqFifo ------------------------------
(***************************************************************************)
(* One M0SSQ FIFO between two cores (driver/m0ssq/main/m0ssq_fifo.c).  One *)
(* core runs m0ssq_fifo_write, the other m0ssq_fifo_read; both run the     *)
(* same driver.  m0ssq_fifo_lock is empty, so every access of one 32-bit   *)
(* word of the shared memory may interleave with an access of the other    *)
(* core: a block is copied word by word (m0ssq_mem_write, m0ssq_mem_read), *)
(* and each pointer is one word that only its owner writes.                *)
(***************************************************************************)
EXTENDS M0ssqFifoOps, Sequences

CONSTANTS
    Words,          \* values of a 32-bit word of a message
    MaxLen          \* the longest message a client writes, in words

ASSUME WordsAssumption == Words # {}
ASSUME MaxLenAssumption == MaxLen \in Nat \ {0}

VARIABLES
    wp, rp,         \* the pointer words, in entries
    cell,           \* the words of the ring
    wpc,            \* where the writer is in m0ssq_fifo_write
    wdata, widx,    \* its data, and how many words of it are copied
    rpc,            \* where the reader is in m0ssq_fifo_read
    rlen, rbuf,     \* the length it asked for, in words, and the words read
    got             \* the data of the last m0ssq_fifo_read that returned SYS_OK

vars == <<wp, rp, cell, wpc, wdata, widx, rpc, rlen, rbuf, got>>
writerVars == <<wpc, wdata, widx>>
readerVars == <<rpc, rlen, rbuf, got>>

Messages == UNION { [1 .. n -> Words] : n \in 1 .. MaxLen }

\* m0ssq_fifo_init writes both pointers and leaves the ring as it finds it
Init ==
    /\ wp = InitPointer /\ rp = InitPointer
    /\ cell \in [Cells -> Words]
    /\ wpc = "idle" /\ wdata = << >> /\ widx = 0
    /\ rpc = "idle" /\ rlen = 0 /\ rbuf = << >> /\ got = << >>

-----------------------------------------------------------------------------
\* m0ssq_fifo_write(data, len).  A write that does not fit returns
\* SYS_ERR_UNAVAIL and changes nothing.
WriteBegin(d) ==
    /\ wpc = "idle"
    /\ WriteCheck(wp, rp, EntSize * Len(d))
    /\ wpc' = "copy" /\ wdata' = d /\ widx' = 0
    /\ UNCHANGED <<wp, rp, cell, readerVars>>

WriteWord ==
    /\ wpc = "copy"
    /\ cell' = [cell EXCEPT ![CellAt(Position(wp), EntSize * widx)] = wdata[widx + 1]]
    /\ widx' = widx + 1
    /\ wpc' = IF widx + 1 = Len(wdata) THEN "forward" ELSE "copy"
    /\ UNCHANGED <<wp, rp, wdata, readerVars>>

\* m0ssq_fifo_wp_forward, which checks once more
WriteForward ==
    /\ wpc = "forward"
    /\ wp' = IF WriteCheck(wp, rp, EntSize * Len(wdata))
             THEN Forward(wp, EntSize * Len(wdata)) ELSE wp
    /\ wpc' = "idle" /\ wdata' = << >> /\ widx' = 0
    /\ UNCHANGED <<rp, cell, readerVars>>

\* Mutant of ReadBegin: m0ssq_fifo_peek_read does not check for data.
ReadBeginUnchecked(n) ==
    /\ rpc = "idle"
    /\ rpc' = "copy" /\ rlen' = n /\ rbuf' = << >>
    /\ UNCHANGED <<wp, rp, cell, got, writerVars>>

\* m0ssq_fifo_read(data, len): m0ssq_fifo_peek_read, then m0ssq_fifo_rp_forward
ReadBegin(n) ==
    /\ rpc = "idle"
    /\ ReadCheck(wp, rp, EntSize * n)
    /\ rpc' = "copy" /\ rlen' = n /\ rbuf' = << >>
    /\ UNCHANGED <<wp, rp, cell, got, writerVars>>

ReadWord ==
    /\ rpc = "copy"
    /\ rbuf' = Append(rbuf, cell[CellAt(Position(rp), EntSize * Len(rbuf))])
    /\ rpc' = IF Len(rbuf) + 1 = rlen THEN "forward" ELSE "copy"
    /\ UNCHANGED <<wp, rp, cell, rlen, got, writerVars>>

\* Mutant of ReadForward: the read pointer moves one word for the whole block.
ReadForwardOneWord ==
    /\ rpc = "forward"
    /\ IF ReadCheck(wp, rp, EntSize * rlen)
       THEN rp' = Forward(rp, EntSize) /\ got' = rbuf
       ELSE UNCHANGED <<rp, got>>
    /\ rpc' = "idle" /\ rlen' = 0 /\ rbuf' = << >>
    /\ UNCHANGED <<wp, cell, writerVars>>

ReadForward ==
    /\ rpc = "forward"
    /\ IF ReadCheck(wp, rp, EntSize * rlen)
       THEN rp' = Forward(rp, EntSize * rlen) /\ got' = rbuf
       ELSE UNCHANGED <<rp, got>>
    /\ rpc' = "idle" /\ rlen' = 0 /\ rbuf' = << >>
    /\ UNCHANGED <<wp, cell, writerVars>>

Writer == (\E d \in Messages : WriteBegin(d)) \/ WriteWord \/ WriteForward
Reader == (\E n \in 1 .. MaxLen : ReadBegin(n)) \/ ReadWord \/ ReadForward
Next == Writer \/ Reader

Spec == Init /\ [][Next]_vars

-----------------------------------------------------------------------------
TypeOK ==
    /\ wp \in Pointers /\ rp \in Pointers
    /\ cell \in [Cells -> Words]
    /\ wpc \in {"idle", "copy", "forward"}
    /\ wdata \in Seq(Words) /\ Len(wdata) <= MaxLen
    /\ widx \in 0 .. Len(wdata)
    /\ rpc \in {"idle", "copy", "forward"}
    /\ rlen \in 0 .. MaxLen
    /\ rbuf \in Seq(Words) /\ Len(rbuf) <= rlen
    /\ got \in Seq(Words)

\* What the ring holds: the words from the read to the write pointer.
Contents == [i \in 1 .. UsedSize(wp, rp) \div EntSize |->
                cell[CellAt(Position(rp), EntSize * (i - 1))]]

\* Once a write or a read passed its first check, the check that the pointer
\* update repeats after the copy cannot fail, whatever the other core did in
\* between: m0ssq_fifo_write never leaves copied words behind a wp that did
\* not move (m0ssq_fifo_wp_forward, m0ssq_fifo_rp_forward).
SecondCheckHolds ==
    /\ wpc \in {"copy", "forward"} => WriteCheck(wp, rp, EntSize * Len(wdata))
    /\ rpc \in {"copy", "forward"} => ReadCheck(wp, rp, EntSize * rlen)

\* The words a writer copies never land on words the reader has not consumed,
\* and no word of the ring is written while the reader may be copying it.
NoOverwrite ==
    [][ \A i \in 1 .. Len(Contents) :
            LET c == CellAt(Position(rp), EntSize * (i - 1))
            IN  cell'[c] = cell[c] ]_vars

\* The ring is a bounded queue of words: a write appends all of its words at
\* once, a read takes the oldest ones and returns exactly those.
Queue == INSTANCE M0ssqFifoQueue
            WITH q <- Contents, Capacity <- FifoSize \div EntSize - 2
QueueSpec == Queue!Spec
=============================================================================
