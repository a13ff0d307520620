-------------------------- MODULE M0ssqFifo_proofs --------------------------
(***************************************************************************)
(* Theorems about M0ssqFifo for every ring size, message length and        *)
(* content.                                                                *)
(***************************************************************************)
EXTENDS M0ssqFifo, M0ssqFifoOps_proofs, SequenceTheorems, TLAPS

-----------------------------------------------------------------------------
\* The words the ring holds, as a function of the pointers and the cells.
Ring(w, r, c) == [i \in 1 .. Used(w, r) |-> c[4 * Step(r, i - 1)]]

LEMMA RingFacts ==
    ASSUME NEW w \in Pointers, NEW r \in Pointers, NEW c \in [Cells -> Words]
    PROVE  /\ Ring(w, r, c) \in Seq(Words)
           /\ Len(Ring(w, r, c)) = Used(w, r)
           /\ \A i \in 1 .. Used(w, r) : Ring(w, r, c)[i] = c[4 * Step(r, i - 1)]
           /\ Ring(w, r, c) = [i \in 1 .. UsedSize(w, r) \div EntSize |->
                                  c[CellAt(Position(r), EntSize * (i - 1))]]
  <1>1. Used(w, r) \in 0 .. Top - 3 /\ UsedSize(w, r) \div EntSize = Used(w, r)
    BY UsedFacts
  <1>2. ASSUME NEW i \in 1 .. Used(w, r)
        PROVE  /\ CellAt(Position(r), EntSize * (i - 1)) = 4 * Step(r, i - 1)
               /\ c[4 * Step(r, i - 1)] \in Words
    <2>1. i - 1 \in Nat /\ i - 1 < Top - 2
      BY <1>1, TopFacts
    <2> QED  BY <2>1, CellAtIsStep
  <1>3. Ring(w, r, c) \in [1 .. Used(w, r) -> Words]
    BY <1>2 DEF Ring
  <1>4. Ring(w, r, c) \in Seq(Words) /\ Len(Ring(w, r, c)) = Used(w, r)
    BY <1>1, <1>3, SeqDef, LenProperties
  <1>5. Ring(w, r, c) = [i \in 1 .. UsedSize(w, r) \div EntSize |->
                           c[CellAt(Position(r), EntSize * (i - 1))]]
    BY <1>1, <1>2 DEF Ring
  <1> QED  BY <1>4, <1>5 DEF Ring

-----------------------------------------------------------------------------
\* The inductive invariant: a writer that passed its check has room for its
\* whole block and has copied a prefix of it behind the write pointer; a
\* reader that passed its check has a prefix of what the ring holds.
WriterInv ==
    /\ wpc # "idle" => /\ Len(wdata) > 0
                       /\ Used(wp, rp) + Len(wdata) <= Top - 4
    /\ wpc = "copy" => widx < Len(wdata)
    /\ wpc = "forward" => widx = Len(wdata)
    /\ \A i \in 1 .. widx : cell[4 * Step(wp, i - 1)] = wdata[i]

ReaderInv ==
    /\ rlen <= Used(wp, rp)
    /\ rpc = "idle" <=> rlen = 0
    /\ rpc = "copy" => Len(rbuf) < rlen
    /\ rpc = "forward" => Len(rbuf) = rlen
    /\ \A i \in 1 .. Len(rbuf) : rbuf[i] = cell[4 * Step(rp, i - 1)]

IInv ==
    /\ TypeOK
    /\ Used(wp, rp) <= Top - 4 \/ Used(wp, rp) = 0
    /\ wpc = "idle" => widx = 0 /\ wdata = << >>
    /\ WriterInv
    /\ ReaderInv

LEMMA MessageFacts ==
    ASSUME NEW d \in Messages
    PROVE  d \in Seq(Words) /\ Len(d) \in 1 .. MaxLen
  <1>1. PICK n \in 1 .. MaxLen : d \in [1 .. n -> Words]
    BY DEF Messages
  <1>2. n \in Nat
    BY MaxLenAssumption
  <1> QED  BY <1>1, <1>2, SeqDef, LenProperties, MaxLenAssumption

LEMMA InvInit == Init => IInv
  <1> SUFFICES ASSUME Init PROVE IInv
    OBVIOUS
  <1>1. InitPointer \in Pointers /\ Used(wp, rp) = 0
    BY TopFacts DEF Init, InitPointer, EntSize, PtrSize, Used
  <1>2. TypeOK
    BY <1>1, MaxLenAssumption DEF Init, TypeOK
  <1> QED  BY <1>1, <1>2 DEF Init, IInv, WriterInv, ReaderInv

LEMMA InvWriteBegin == ASSUME IInv, NEW d \in Messages, WriteBegin(d) PROVE IInv'
  <1> USE DEF IInv, TypeOK, writerVars, readerVars
  <1>1. d \in Seq(Words) /\ Len(d) \in 1 .. MaxLen
    BY MessageFacts
  <1>2. Used(wp, rp) + Len(d) <= Top - 4
    BY <1>1, UsedFacts DEF WriteBegin
  <1>3. TypeOK'
    BY <1>1 DEF WriteBegin
  <1>4. WriterInv'
    BY <1>1, <1>2 DEF WriteBegin, WriterInv
  <1>5. ReaderInv'
    BY DEF WriteBegin, ReaderInv
  <1> QED  BY <1>1, <1>3, <1>4, <1>5 DEF WriteBegin

\* The word a writer copies lies behind what the ring holds and behind what
\* it copied before.
LEMMA CopiedWordIsFree ==
    ASSUME IInv, wpc = "copy"
    PROVE  /\ CellAt(Position(wp), EntSize * widx) = 4 * Step(wp, widx)
           /\ 4 * Step(wp, widx) \in Cells
           /\ widx < Top - 2
           /\ \A i \in 1 .. Used(wp, rp) : 4 * Step(rp, i - 1) # 4 * Step(wp, widx)
           /\ \A i \in 1 .. widx : 4 * Step(wp, i - 1) # 4 * Step(wp, widx)
  <1> USE DEF IInv, TypeOK
  <1> DEFINE u == Used(wp, rp)
  <1>1. /\ u \in 0 .. Top - 3 /\ Step(rp, u) = wp /\ Top \in Nat
    BY UsedFacts, TopFacts
  <1>2. widx \in Nat /\ u + widx < Top - 4
    BY <1>1 DEF WriterInv
  <1>3. Step(wp, widx) \in Pointers /\ Step(wp, widx) = Step(rp, u + widx)
    BY <1>1, <1>2, ForwardIsStep, StepStep
  <1>4. ASSUME NEW i \in 1 .. u PROVE 4 * Step(rp, i - 1) # 4 * Step(wp, widx)
    <2>1. i - 1 \in Nat /\ i - 1 < Top - 2 /\ i - 1 # u + widx /\ u + widx \in Nat
      BY <1>1, <1>2
    <2>2. Step(rp, i - 1) # Step(rp, u + widx) /\ Step(rp, i - 1) \in Pointers
      BY <1>1, <1>2, <2>1, StepInjective, ForwardIsStep
    <2> QED  BY <1>3, <2>2, TopFacts
  <1>5. ASSUME NEW i \in 1 .. widx PROVE 4 * Step(wp, i - 1) # 4 * Step(wp, widx)
    <2>1. i - 1 \in Nat /\ i - 1 < Top - 2 /\ i - 1 # widx /\ widx < Top - 2
      BY <1>1, <1>2
    <2>2. Step(wp, i - 1) # Step(wp, widx) /\ Step(wp, i - 1) \in Pointers
      BY <1>1, <1>2, <2>1, StepInjective, ForwardIsStep
    <2> QED  BY <1>3, <2>2, TopFacts
  <1> QED  BY <1>1, <1>2, <1>4, <1>5, CellAtIsStep

LEMMA InvWriteWord == ASSUME IInv, WriteWord PROVE IInv'
  <1> USE DEF IInv, TypeOK, readerVars
  <1>1. wpc = "copy" /\ widx < Len(wdata) /\ widx + 1 \in 1 .. Len(wdata)
    BY DEF WriteWord, WriterInv
  <1>2. wdata[widx + 1] \in Words
    BY <1>1, ElementOfSeq
  <1>3. cell' = [cell EXCEPT ![4 * Step(wp, widx)] = wdata[widx + 1]]
    BY <1>1, CopiedWordIsFree DEF WriteWord
  <1>4. TypeOK'
    <2>1. cell' \in [Cells -> Words]
      BY <1>2, <1>3
    <2>2. Len(wdata) \in Nat
      BY LenProperties
    <2> QED  BY <1>1, <2>1, <2>2 DEF WriteWord
  <1>5. WriterInv'
    <2>1. ASSUME NEW i \in 1 .. widx' PROVE cell'[4 * Step(wp, i - 1)] = wdata[i]
      <3>1. CASE i = widx + 1
        BY <1>1, <1>3, <3>1, CopiedWordIsFree
      <3>2. CASE i \in 1 .. widx
        BY <1>1, <1>3, <3>2, CopiedWordIsFree DEF WriterInv
      <3> QED  BY <3>1, <3>2 DEF WriteWord
    <2> QED  BY <1>1, <2>1 DEF WriteWord, WriterInv
  <1>6. ReaderInv'
    <2>1. ASSUME NEW i \in 1 .. Len(rbuf) PROVE cell'[4 * Step(rp, i - 1)] = rbuf[i]
      <3>1. i \in 1 .. Used(wp, rp)
        BY UsedFacts DEF ReaderInv
      <3> QED  BY <1>1, <1>3, <3>1, CopiedWordIsFree DEF ReaderInv
    <2> QED  BY <2>1 DEF WriteWord, ReaderInv
  <1> QED  BY <1>1, <1>4, <1>5, <1>6 DEF WriteWord

LEMMA InvWriteForward == ASSUME IInv, WriteForward PROVE IInv'
  <1> USE DEF IInv, TypeOK, readerVars
  <1> DEFINE n == Len(wdata)
  <1>1. /\ n \in Nat /\ n > 0 /\ Used(wp, rp) + n <= Top - 4
        /\ Used(wp, rp) \in 0 .. Top - 3 /\ Top \in Nat
    BY UsedFacts, LenProperties, TopFacts DEF WriteForward, WriterInv
  <1>2. WriteCheck(wp, rp, EntSize * n)
    BY <1>1, UsedFacts
  <1>3. wp' = Step(wp, n) /\ wp' \in Pointers
    BY <1>1, <1>2, ForwardIsStep DEF WriteForward, EntSize
  <1>4. Used(wp', rp') = Used(wp, rp) + n
    BY <1>1, <1>3, UsedAfterWrite DEF WriteForward
  <1>5. TypeOK'
    BY <1>3, MaxLenAssumption DEF WriteForward
  <1>6. WriterInv'
    BY <1>1, <1>4 DEF WriteForward, WriterInv
  <1>7. ReaderInv'
    BY <1>1, <1>4 DEF WriteForward, ReaderInv
  <1> QED  BY <1>1, <1>4, <1>5, <1>6, <1>7 DEF WriteForward

LEMMA InvReadBegin == ASSUME IInv, NEW n \in 1 .. MaxLen, ReadBegin(n) PROVE IInv'
  <1> USE DEF IInv, TypeOK, writerVars
  <1>1. n \in Nat /\ n > 0 /\ n <= Used(wp, rp)
    BY UsedFacts, MaxLenAssumption DEF ReadBegin
  <1>2. TypeOK'
    BY <1>1 DEF ReadBegin
  <1>3. WriterInv'
    BY DEF ReadBegin, WriterInv
  <1>4. ReaderInv'
    BY <1>1 DEF ReadBegin, ReaderInv
  <1> QED  BY <1>2, <1>3, <1>4 DEF ReadBegin

LEMMA InvReadWord == ASSUME IInv, ReadWord PROVE IInv'
  <1> USE DEF IInv, TypeOK, writerVars
  <1> DEFINE k == Len(rbuf)
             x == cell[4 * Step(rp, k)]
  <1>1. /\ k \in Nat /\ k < rlen /\ rlen <= Used(wp, rp) /\ k < Top - 2
    <2>1. k \in Nat /\ rlen \in Nat /\ Top \in Nat /\ Used(wp, rp) \in 0 .. Top - 3
      <3>1. k \in Nat /\ rlen \in Nat
        BY MaxLenAssumption
      <3> QED  BY <3>1, UsedFacts, TopFacts
    <2>2. k < rlen /\ rlen <= Used(wp, rp)
      BY DEF ReadWord, ReaderInv
    <2> QED  BY <2>1, <2>2
  <1>2. /\ CellAt(Position(rp), EntSize * k) = 4 * Step(rp, k)
        /\ 4 * Step(rp, k) \in Cells
    BY <1>1, CellAtIsStep
  <1>3. x \in Words
    BY <1>2
  <1>4. rbuf' = Append(rbuf, x)
    BY <1>2 DEF ReadWord
  <1>5. /\ rbuf' \in Seq(Words) /\ Len(rbuf') = k + 1 /\ rbuf'[k + 1] = x
        /\ \A i \in 1 .. k : rbuf'[i] = rbuf[i]
    <2> HIDE DEF x
    <2> QED  BY <1>3, <1>4, AppendProperties
  <1>6. TypeOK'
    BY <1>1, <1>5 DEF ReadWord
  <1>7. WriterInv'
    BY DEF ReadWord, WriterInv
  <1>8. ReaderInv'
    <2>1. ASSUME NEW i \in 1 .. k + 1 PROVE rbuf'[i] = cell[4 * Step(rp, i - 1)]
      <3>1. CASE i = k + 1
        BY <1>1, <1>5, <3>1
      <3>2. CASE i \in 1 .. k
        BY <1>5, <3>2 DEF ReaderInv
      <3> QED  BY <1>1, <3>1, <3>2
    <2> QED  BY <1>1, <1>5, <2>1 DEF ReadWord, ReaderInv
  <1> QED  BY <1>6, <1>7, <1>8 DEF ReadWord

LEMMA InvReadForward == ASSUME IInv, ReadForward PROVE IInv'
  <1> USE DEF IInv, TypeOK, writerVars
  <1>1. /\ rlen \in Nat /\ rlen <= Used(wp, rp)
        /\ Used(wp, rp) \in 0 .. Top - 3 /\ Top \in Nat
    BY UsedFacts, MaxLenAssumption, TopFacts DEF ReadForward, ReaderInv
  <1>2. ReadCheck(wp, rp, EntSize * rlen)
    BY <1>1, UsedFacts
  <1>3. rp' = Step(rp, rlen) /\ rp' \in Pointers
    BY <1>1, <1>2, ForwardIsStep DEF ReadForward, EntSize
  <1>4. Used(wp', rp') = Used(wp, rp) - rlen
    BY <1>1, <1>3, UsedAfterRead DEF ReadForward
  <1>5. TypeOK'
    BY <1>2, <1>3, MaxLenAssumption DEF ReadForward
  <1>6. WriterInv'
    BY <1>1, <1>4 DEF ReadForward, WriterInv
  <1>7. ReaderInv'
    BY <1>1, <1>4, UsedFacts DEF ReadForward, ReaderInv
  <1> QED  BY <1>1, <1>4, <1>5, <1>6, <1>7 DEF ReadForward

LEMMA InvStep == IInv /\ [Next]_vars => IInv'
  <1> SUFFICES ASSUME IInv, [Next]_vars PROVE IInv'
    OBVIOUS
  <1>1. CASE \E d \in Messages : WriteBegin(d)   BY <1>1, InvWriteBegin
  <1>2. CASE WriteWord                           BY <1>2, InvWriteWord
  <1>3. CASE WriteForward                        BY <1>3, InvWriteForward
  <1>4. CASE \E n \in 1 .. MaxLen : ReadBegin(n) BY <1>4, InvReadBegin
  <1>5. CASE ReadWord                            BY <1>5, InvReadWord
  <1>6. CASE ReadForward                         BY <1>6, InvReadForward
  <1>7. CASE UNCHANGED vars
    BY <1>7 DEF vars, IInv, TypeOK, WriterInv, ReaderInv
  <1> QED  BY <1>1, <1>2, <1>3, <1>4, <1>5, <1>6, <1>7 DEF Next, Writer, Reader

THEOREM Invariant == Spec => []IInv
  BY InvInit, InvStep, PTL DEF Spec

-----------------------------------------------------------------------------
\* The pointers stay inside the ring and never point at the pointer words.
THEOREM TypeCorrect == Spec => []TypeOK
  BY Invariant, PTL DEF IInv

\* The check that m0ssq_fifo_wp_forward and m0ssq_fifo_rp_forward repeat
\* after the copy succeeds, for every ring and every interleaving.
THEOREM SecondCheck == Spec => []SecondCheckHolds
  <1>1. IInv => SecondCheckHolds
    <2> SUFFICES ASSUME IInv PROVE SecondCheckHolds
      OBVIOUS
    <2>1. Len(wdata) \in Nat /\ rlen \in Nat
      BY MaxLenAssumption, LenProperties DEF IInv, TypeOK
    <2> QED  BY <2>1, UsedFacts DEF SecondCheckHolds, IInv, TypeOK, WriterInv, ReaderInv
  <1> QED  BY <1>1, Invariant, PTL

-----------------------------------------------------------------------------
\* A step leaves the words of the ring alone, or is a write or a read of the
\* abstract queue.
LEMMA ContentsIsRing == TypeOK => Contents = Ring(wp, rp, cell)
  BY RingFacts DEF TypeOK, Contents

LEMMA ContentsIsRingPrime == TypeOK' => Contents' = Ring(wp', rp', cell')
  BY RingFacts DEF TypeOK, Contents

LEMMA RingKept ==
    ASSUME IInv, [Next]_vars
    PROVE  \A i \in 1 .. Used(wp, rp) : cell'[4 * Step(rp, i - 1)] = cell[4 * Step(rp, i - 1)]
  <1>1. CASE WriteWord
    <2>1. wpc = "copy"
      BY <1>1 DEF WriteWord
    <2>2. cell' = [cell EXCEPT ![4 * Step(wp, widx)] = wdata[widx + 1]]
      BY <1>1, <2>1, CopiedWordIsFree DEF WriteWord
    <2> QED  BY <2>1, <2>2, CopiedWordIsFree DEF IInv, TypeOK
  <1>2. CASE cell' = cell
    BY <1>2
  <1> QED  BY <1>1, <1>2 DEF Next, Writer, Reader, WriteBegin, WriteForward,
                             ReadBegin, ReadWord, ReadForward, vars

\* No step of either core overwrites a word the reader has not consumed yet.
THEOREM NoOverwriteCorrect == Spec => NoOverwrite
  <1>1. ASSUME IInv, [Next]_vars, NEW i \in 1 .. Len(Contents)
        PROVE  LET c == CellAt(Position(rp), EntSize * (i - 1)) IN cell'[c] = cell[c]
    <2>1. Used(wp, rp) \in 0 .. Top - 3 /\ Top \in Nat
      BY <1>1, UsedFacts, TopFacts DEF IInv, TypeOK
    <2>4. Len(Contents) = Used(wp, rp)
      <3>1. Contents = Ring(wp, rp, cell)
        BY <1>1, ContentsIsRing DEF IInv
      <3> QED  BY <1>1, <3>1, RingFacts DEF IInv, TypeOK
    <2>2. i \in 1 .. Used(wp, rp) /\ i - 1 \in Nat /\ i - 1 < Top - 2
      BY <2>1, <2>4
    <2>3. CellAt(Position(rp), EntSize * (i - 1)) = 4 * Step(rp, i - 1)
      BY <1>1, <2>2, CellAtIsStep DEF IInv, TypeOK
    <2> QED  BY <1>1, <2>2, <2>3, RingKept
  <1>2. IInv /\ [Next]_vars =>
          [\A i \in 1 .. Len(Contents) :
              LET c == CellAt(Position(rp), EntSize * (i - 1)) IN cell'[c] = cell[c]]_vars
    BY <1>1
  <1> QED  BY <1>2, Invariant, PTL DEF Spec, NoOverwrite

LEMMA ConcatTail ==
    ASSUME NEW S, NEW s \in Seq(S), NEW t \in Seq(S),
           NEW i \in Len(s) + 1 .. Len(s) + Len(t)
    PROVE  (s \o t)[i] = t[i - Len(s)]
  <1>1. Len(s) \in Nat /\ Len(t) \in Nat
    BY LenProperties
  <1> QED  BY <1>1, ConcatProperties

LEMMA SameSeq ==
    ASSUME NEW S, NEW s \in Seq(S), NEW t \in Seq(S), NEW n \in Nat,
           Len(s) = n, Len(t) = n, \A i \in 1 .. n : s[i] = t[i]
    PROVE  s = t
  BY SeqEqual

LEMMA FirstWords ==
    ASSUME NEW S, NEW s \in Seq(S), NEW n \in 0 .. Len(s)
    PROVE  /\ SubSeq(s, 1, n) \in Seq(S) /\ Len(SubSeq(s, 1, n)) = n
           /\ \A i \in 1 .. n : SubSeq(s, 1, n)[i] = s[i]
  BY LenProperties, SubSeqProperties

LEMMA LastWords ==
    ASSUME NEW S, NEW s \in Seq(S), NEW m \in Nat, Len(s) = m, NEW n \in 0 .. m
    PROVE  /\ SubSeq(s, n + 1, m) \in Seq(S) /\ Len(SubSeq(s, n + 1, m)) = m - n
           /\ \A i \in 1 .. m - n : SubSeq(s, n + 1, m)[i] = s[n + i]
  BY LenProperties, SubSeqProperties

LEMMA ForwardWritesQueue ==
    ASSUME IInv, WriteForward
    PROVE  \E d \in Messages : Queue!Write(d)
  <1> USE DEF IInv, TypeOK
  <1> DEFINE n == Len(wdata)
             u == Used(wp, rp)
  <1>1. /\ n \in 1 .. MaxLen /\ u \in 0 .. Top - 3 /\ u + n <= Top - 4 /\ Top \in Nat
    BY UsedFacts, LenProperties, TopFacts, MaxLenAssumption DEF WriteForward, WriterInv
  <1>2. WriteCheck(wp, rp, EntSize * n)
    BY <1>1, UsedFacts, MaxLenAssumption
  <1>3. wp' = Step(wp, n) /\ wp' \in Pointers /\ rp' = rp /\ cell' = cell
    BY <1>1, <1>2, ForwardIsStep, MaxLenAssumption DEF WriteForward, EntSize
  <1>4. Used(wp', rp') = u + n
    BY <1>1, <1>3, UsedAfterWrite
  <1>5. wdata \in Messages
    <2>1. wdata \in [1 .. n -> Words]
      BY LenProperties
    <2> QED  BY <1>1, <2>1 DEF Messages
  <1>6. Queue!Messages = Messages
    BY DEF Messages, Queue!Messages
  <1>7. /\ Contents = Ring(wp, rp, cell) /\ Contents' = Ring(wp', rp', cell')
        /\ Contents \in Seq(Words) /\ Contents' \in Seq(Words)
        /\ Len(Contents) = u /\ Len(Contents') = u + n
    BY <1>3, <1>4, ContentsIsRing, ContentsIsRingPrime, RingFacts, InvWriteForward
  <1>8. ASSUME NEW i \in 1 .. u + n PROVE Contents'[i] = (Contents \o wdata)[i]
    <2>1. Contents'[i] = cell[4 * Step(rp, i - 1)]
      BY <1>3, <1>4, <1>7 DEF Ring
    <2>2. CASE i \in 1 .. u
      <3>1. Contents[i] = cell[4 * Step(rp, i - 1)]
        BY <1>7, <2>2, RingFacts
      <3> QED  BY <1>7, <2>1, <2>2, <3>1, ConcatProperties
    <2>3. CASE i \in u + 1 .. u + n
      <3>1. /\ i - u \in 1 .. n /\ i - u - 1 \in Nat /\ u + (i - u - 1) < Top - 2
            /\ u + (i - u - 1) = i - 1 /\ u \in Nat
        <4> HIDE DEF u, n
        <4> QED  BY <1>1, <2>3
      <3>2. Step(wp, i - u - 1) = Step(rp, i - 1)
        <4>1. wp = Step(rp, u)
          BY UsedFacts
        <4> HIDE DEF u, IInv, TypeOK
        <4>2. rp \in Pointers
          BY DEF IInv, TypeOK
        <4> QED  BY <3>1, <4>1, <4>2, StepStep
      <3>3. cell[4 * Step(wp, i - u - 1)] = wdata[i - u]
        BY <1>1, <3>1 DEF WriteForward, WriterInv
      <3>4. (Contents \o wdata)[i] = wdata[i - u]
        <4>1. i \in Len(Contents) + 1 .. Len(Contents) + Len(wdata)
          BY <1>7, <2>3
        <4> QED  BY <1>7, <4>1, ConcatTail
      <3> QED  BY <2>1, <3>2, <3>3, <3>4
    <2>4. i \in 1 .. u \/ i \in u + 1 .. u + n
      <3> HIDE DEF u, n
      <3> QED  BY <1>1
    <2> QED  BY <2>2, <2>3, <2>4
  <1>9. Contents' = Contents \o wdata
    <2>1. Contents \o wdata \in Seq(Words) /\ Len(Contents \o wdata) = u + n
      BY <1>7, ConcatProperties
    <2> HIDE DEF u, n
    <2>2. u + n \in Nat
      BY <1>1
    <2> QED  BY <1>7, <1>8, <2>1, <2>2, SameSeq
  <1>10. FifoSize \div EntSize - 2 = Top - 4
    BY TopFacts DEF EntSize
  <1> QED  BY <1>1, <1>5, <1>6, <1>7, <1>9, <1>10 DEF Queue!Write, WriteForward, readerVars

LEMMA ForwardReadsQueue ==
    ASSUME IInv, ReadForward
    PROVE  \E n \in 1 .. MaxLen : Queue!Read(n)
  <1> USE DEF IInv, TypeOK
  <1> DEFINE u == Used(wp, rp)
  <1>1. /\ rlen \in 0 .. MaxLen /\ u \in 0 .. Top - 3 /\ rlen <= u /\ Top \in Nat
        /\ Len(rbuf) = rlen
    BY UsedFacts, TopFacts DEF ReadForward, ReaderInv
  <1>2. ReadCheck(wp, rp, EntSize * rlen)
    BY <1>1, UsedFacts, MaxLenAssumption
  <1>3. /\ rp' = Step(rp, rlen) /\ rp' \in Pointers /\ wp' = wp /\ cell' = cell
        /\ got' = rbuf
    BY <1>1, <1>2, ForwardIsStep, MaxLenAssumption DEF ReadForward, EntSize
  <1>4. Used(wp', rp') = u - rlen
    BY <1>1, <1>3, UsedAfterRead
  <1>5. /\ Contents = Ring(wp, rp, cell) /\ Contents' = Ring(wp', rp', cell')
        /\ Contents \in Seq(Words) /\ Contents' \in Seq(Words)
        /\ Len(Contents) = u /\ Len(Contents') = u - rlen
    BY <1>3, <1>4, ContentsIsRing, ContentsIsRingPrime, RingFacts, InvReadForward
  <1>6. got' = SubSeq(Contents, 1, rlen)
    <2>1. ASSUME NEW i \in 1 .. rlen PROVE rbuf[i] = Contents[i]
      <3>1. i \in 1 .. u /\ i \in 1 .. Len(rbuf)
        BY <1>1
      <3> QED  BY <1>5, <3>1 DEF ReaderInv, Ring
    <2>2. SubSeq(Contents, 1, rlen) \in Seq(Words) /\ Len(SubSeq(Contents, 1, rlen)) = rlen
          /\ \A i \in 1 .. rlen : SubSeq(Contents, 1, rlen)[i] = Contents[i]
      <3>1. rlen \in 0 .. Len(Contents)
        BY <1>1, <1>5
      <3> QED  BY <1>5, <3>1, FirstWords
    <2>3. rlen \in Nat
      BY <1>1
    <2> QED  BY <1>1, <1>3, <2>1, <2>2, <2>3, SameSeq
  <1>7. Contents' = SubSeq(Contents, rlen + 1, Len(Contents))
    <2> DEFINE rest == SubSeq(Contents, rlen + 1, Len(Contents))
    <2>1. rest \in Seq(Words) /\ Len(rest) = u - rlen
          /\ \A i \in 1 .. u - rlen : rest[i] = Contents[rlen + i]
      <3>1. u \in Nat /\ rlen \in 0 .. u /\ Len(Contents) = u
        BY <1>1, <1>5
      <3> HIDE DEF u
      <3> QED  BY <1>5, <3>1, LastWords
    <2>2. ASSUME NEW i \in 1 .. u - rlen PROVE Contents'[i] = Contents[rlen + i]
      <3>1. /\ rlen + i \in 1 .. u /\ i - 1 \in Nat /\ rlen \in Nat
            /\ rlen + (i - 1) < Top - 2 /\ rlen + (i - 1) = (rlen + i) - 1
        BY <1>1
      <3>2. Contents'[i] = cell[4 * Step(Step(rp, rlen), i - 1)]
        BY <1>3, <1>4, <1>5 DEF Ring
      <3>3. Contents[rlen + i] = cell[4 * Step(rp, (rlen + i) - 1)]
        BY <1>5, <3>1, RingFacts
      <3> QED  BY <3>1, <3>2, <3>3, StepStep
    <2> HIDE DEF u, rest
    <2>3. u - rlen \in Nat
      BY <1>1
    <2> QED  BY <1>5, <2>1, <2>2, <2>3, SameSeq DEF rest
  <1>8. rlen \in 1 .. MaxLen
    BY <1>1, MaxLenAssumption DEF ReadForward, ReaderInv
  <1> QED  BY <1>1, <1>5, <1>6, <1>7, <1>8 DEF Queue!Read

\* The FIFO of the two cores implements the bounded queue: the words of one
\* write appear at once and in order, and m0ssq_fifo_read returns exactly the
\* oldest words, for every ring size, message length and interleaving.
THEOREM ImplementsQueue == Spec => QueueSpec
  <1>1. Init => Queue!Init
    <2> SUFFICES ASSUME Init PROVE Contents = << >> /\ got = << >>
      BY DEF Queue!Init
    <2>1. IInv /\ Used(wp, rp) = 0
      BY InvInit, TopFacts DEF Init, Used, InitPointer, EntSize, PtrSize
    <2>2. Contents = Ring(wp, rp, cell)
      BY <2>1, ContentsIsRing DEF IInv
    <2>3. Contents \in Seq(Words) /\ Len(Contents) = 0
      BY <2>1, <2>2, RingFacts DEF IInv, TypeOK
    <2> HIDE DEF Contents
    <2> QED  BY <2>3, EmptySeq DEF Init
  <1>2. IInv /\ IInv' /\ [Next]_vars => [Queue!Next]_<<Contents, got>>
    <2> SUFFICES ASSUME IInv, IInv', [Next]_vars
                 PROVE  Queue!Next \/ UNCHANGED <<Contents, got>>
      OBVIOUS
    <2>1. CASE WriteForward   BY <2>1, ForwardWritesQueue DEF Queue!Next, Queue!Messages, Messages
    <2>2. CASE ReadForward    BY <2>2, ForwardReadsQueue DEF Queue!Next
    <2>3. ASSUME wp' = wp, rp' = rp, got' = got PROVE UNCHANGED <<Contents, got>>
      <3>1. Contents = Ring(wp, rp, cell) /\ Contents' = Ring(wp, rp, cell')
        BY <2>3, ContentsIsRing, ContentsIsRingPrime DEF IInv
      <3>2. Ring(wp, rp, cell') = Ring(wp, rp, cell)
        BY RingKept DEF Ring
      <3> QED  BY <2>3, <3>1, <3>2
    <2> QED  BY <2>1, <2>2, <2>3
             DEF Next, Writer, Reader, WriteBegin, WriteWord, ReadBegin, ReadWord,
                 readerVars, writerVars, vars
  <1> QED  BY <1>1, <1>2, Invariant, PTL DEF Spec, QueueSpec, Queue!Spec
=============================================================================
