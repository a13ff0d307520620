-------------------------- MODULE M0ssqMbox_proofs --------------------------
(* The safety of M0ssqMbox for every ring, set of messages and answers, and   *)
(* for every number of messages in the ring.                                  *)
(*                                                                            *)
(* The argument is about where messages lie: the accepted messages follow     *)
(* each other in the ring, from the read to the write pointer, behind the     *)
(* words of the message that is being answered.  Answers are not longer than  *)
(* their message, so that they stay within those words.  What a sender that   *)
(* polls may have read of its answer (SyncInv) comes on top of that.          *)
EXTENDS M0ssqMbox, M0ssqFifoOps_proofs, SequenceTheorems, TLAPS

USE MboxAssumption

Kinds == {"async", "resp_required"}
Words(i) == HdrWords + DataWords[i]
Answering == rpc \in {"respond", "flag", "forward"}

(* The words at the read pointer of a message that was taken from pending.    *)
Taken == IF Answering THEN Len(rmsg) ELSE 0

(* The k-th accepted message begins off[k] words behind the read pointer.     *)
Laid(off) ==
    /\ off \in [1..(Len(pending) + 1) -> Nat]
    /\ off[1] = Taken /\ off[Len(pending) + 1] = Used(wp, rp)
    /\ \A k \in 1..Len(pending) : off[k + 1] = off[k] + Words(pending[k])
    /\ \A k, l \in 1..(Len(pending) + 1) : k < l => off[k] + Words(pending[k]) <= off[l]
    /\ \A k \in 1..Len(pending) : \E f \in Kinds : \A j \in 1..Words(pending[k]) :
          cell[4 * Step(rp, off[k] + j - 1)] = Message(pending[k], f)[j]

ContentInv == pending \in Seq(Ids) /\ \E off : Laid(off)

(* The receiver has the message it handles whole, and room for its answer.    *)
ReceiverInv ==
    /\ rpc = "handle" => pending # << >> /\ \E f \in Kinds : rmsg = Message(pending[1], f)
    /\ Answering => \E i \in Ids, f \in Kinds : rmsg = Message(i, f)
    /\ rpc = "handle" \/ Answering => rcnt < MaxRxMsgs
    /\ rpc = "respond" => ridx < Len(rresp) /\ Len(rresp) <= Len(rmsg)

(* The message whose answer the sender polls for is no longer than the ring.  *)
SenderInv == spc = "poll" => Len(smsg) < Top - 2

IInv == TypeOK /\ ContentInv /\ ReceiverInv /\ SenderInv

-----------------------------------------------------------------------------
(* Messages and answers as sequences of words.                                *)
LEMMA HeaderFacts ==
    ASSUME NEW f \in Flags, NEW i \in Ids, NEW n \in Nat
    PROVE  /\ Header(f, i, n) \in Seq(Word) /\ Len(Header(f, i, n)) = HdrWords
           /\ Header(f, i, n)[1] = Flag(f) /\ Header(f, i, n)[2] = <<"id", i>>
           /\ Header(f, i, n)[3] = <<"size", n>>
<1>1. Flag(f) \in Word /\ <<"id", i>> \in Word /\ <<"size", n>> \in Word
  BY DEF Word, Flag
<1>. QED
  BY <1>1 DEF Header, HdrWords

LEMMA Behind ==
    ASSUME NEW S, NEW h \in Seq(S), NEW d \in Seq(S), NEW n \in Nat, Len(h) = 3, Len(d) = n
    PROVE  /\ h \o d \in Seq(S) /\ Len(h \o d) = 3 + n
           /\ (h \o d)[1] = h[1] /\ (h \o d)[2] = h[2] /\ (h \o d)[3] = h[3]
           /\ \A w \in 1..n : (h \o d)[3 + w] = d[w]
<1>1. \A i \in 1..(Len(h) + Len(d)) : (h \o d)[i] = IF i <= Len(h) THEN h[i] ELSE d[i - Len(h)]
  BY ConcatProperties
<1>2. h \o d \in Seq(S) /\ Len(h \o d) = Len(h) + Len(d)
  BY ConcatProperties
<1>3. (h \o d)[1] = h[1] /\ (h \o d)[2] = h[2] /\ (h \o d)[3] = h[3]
  <2>1. 1 \in 1..(Len(h) + Len(d)) /\ 2 \in 1..(Len(h) + Len(d)) /\ 3 \in 1..(Len(h) + Len(d))
    OBVIOUS
  <2>2. 1 <= Len(h) /\ 2 <= Len(h) /\ 3 <= Len(h)
    OBVIOUS
  <2>. QED
    BY <1>1, <2>1, <2>2
<1>4. Len(h \o d) = 3 + n
  BY <1>2
<1>5. ASSUME NEW v \in 1..(Len(h) + Len(d)), ~(v <= Len(h))
      PROVE  (h \o d)[v] = d[v - Len(h)]
  BY <1>1, <1>5
<1>6. ASSUME NEW w \in 1..n PROVE (h \o d)[3 + w] = d[w]
  <2>1. 3 + w \in 1..(Len(h) + Len(d)) /\ ~(3 + w <= Len(h)) /\ (3 + w) - Len(h) = w
    OBVIOUS
  <2>2. (h \o d)[3 + w] = d[(3 + w) - Len(h)]
    BY <1>5, <2>1
  <2>. QED
    BY <2>1, <2>2
<1>. QED
  BY <1>2, <1>3, <1>4, <1>6

(* A message with flags f, id i and n words of payload, each <<k, x>>.        *)
IsMessage(m, f, i, n, k, x) ==
    /\ m \in Seq(Word) /\ Len(m) = HdrWords + n
    /\ m[1] = Flag(f) /\ m[2] = <<"id", i>> /\ m[3] = <<"size", n>>
    /\ \A w \in 1..n : m[3 + w] = <<k, x>>

LEMMA WithHeader ==
    ASSUME NEW f \in Flags, NEW i \in Ids, NEW n \in Nat, NEW k, NEW x, <<k, x>> \in Word
    PROVE  IsMessage(Header(f, i, n) \o Payload(k, x, n), f, i, n, k, x)
<1>. DEFINE h == Header(f, i, n)
            d == Payload(k, x, n)
<1>1. h \in Seq(Word) /\ Len(h) = 3 /\ h[1] = Flag(f) /\ h[2] = <<"id", i>> /\ h[3] = <<"size", n>>
  BY HeaderFacts DEF HdrWords
<1>2. d \in Seq(Word) /\ Len(d) = n /\ \A w \in 1..n : d[w] = <<k, x>>
  <2>1. d \in [1..n -> Word] /\ \A w \in 1..n : d[w] = <<k, x>>
    BY DEF Payload
  <2>. HIDE DEF d
  <2>. QED
    BY <2>1
<1>. HIDE DEF h, d
<1>3. /\ h \o d \in Seq(Word) /\ Len(h \o d) = 3 + n
      /\ (h \o d)[1] = h[1] /\ (h \o d)[2] = h[2] /\ (h \o d)[3] = h[3]
      /\ \A w \in 1..n : (h \o d)[3 + w] = d[w]
  <2>1. h \in Seq(Word) /\ d \in Seq(Word) /\ Len(h) = 3 /\ Len(d) = n
    BY <1>1, <1>2
  <2>. QED
    BY <2>1, Behind
<1>. QED
  BY <1>1, <1>2, <1>3 DEF IsMessage, HdrWords, h, d

LEMMA MessageFacts ==
    ASSUME NEW i \in Ids, NEW f \in Kinds
    PROVE  /\ Message(i, f) \in Seq(Word) /\ Len(Message(i, f)) = Words(i)
           /\ Words(i) \in Nat /\ Words(i) >= 3
           /\ Message(i, f)[1] = Flag(f) /\ Message(i, f)[2] = <<"id", i>>
           /\ Message(i, f)[3] = <<"size", DataWords[i]>>
<1>. DEFINE msg == Message(i, f)
            n == DataWords[i]
<1>1. f \in Flags /\ n \in Nat /\ <<"request", i>> \in Word
  BY DEF Kinds, Flags, Word
<1>2. msg = Header(f, i, n) \o Payload("request", i, n)
  BY DEF Message
<1>. HIDE DEF msg, n
<1>3. IsMessage(msg, f, i, n, "request", i)
  BY <1>1, <1>2, WithHeader, Zenon
<1>. QED
  BY <1>1, <1>3 DEF IsMessage, Words, HdrWords, msg, n

(* The answer to message i when its handler returned ret.                     *)
Fits(i, ret) == ret = "ok" /\ RespWords[i] <= DataWords[i]
AnswerWords(i, ret) == IF Fits(i, ret) THEN RespWords[i] ELSE IF DataWords[i] > 0 THEN 1 ELSE 0
AnswerKind(i, ret) == IF Fits(i, ret) THEN "answer" ELSE "ret"
AnswerWord(i, ret) == IF Fits(i, ret) THEN i ELSE IF ret = "fail" THEN "err" ELSE "ok"

LEMMA ResponseFacts ==
    ASSUME NEW i \in Ids, NEW f \in Kinds, NEW ret \in HandlerResults
    PROVE  LET r == Response(Message(i, f), ret)
           IN  /\ IsMessage(r[1], f, i, AnswerWords(i, ret), AnswerKind(i, ret), AnswerWord(i, ret))
               /\ r[1] \in Seq(Word) /\ Len(r[1]) \in 3..Words(i)
               /\ r[2] = IF Fits(i, ret) THEN "ready_success" ELSE "ready"
               /\ r[2] \in Flags
<1>. DEFINE msg == Message(i, f)
            m == AnswerWords(i, ret)
            k == AnswerKind(i, ret)
            w == AnswerWord(i, ret)
            q == Header(f, i, m) \o Payload(k, w, m)
<1>1. msg[1] = Flag(f) /\ msg[2] = <<"id", i>> /\ msg[3] = <<"size", DataWords[i]>>
  BY MessageFacts
<1>2. msg[1][2] = f /\ msg[2][2] = i /\ msg[3][2] = DataWords[i]
  BY <1>1 DEF Flag
<1>3. f \in Flags /\ m \in Nat /\ m <= DataWords[i] /\ <<k, w>> \in Word
  BY DEF Kinds, Flags, Word, AnswerWords, AnswerKind, AnswerWord, Fits
<1>4. IsMessage(q, f, i, m, k, w)
  <2>. HIDE DEF m, k, w
  <2>. QED
    BY <1>3, WithHeader
<1>5. Response(msg, ret) = << q, IF Fits(i, ret) THEN "ready_success" ELSE "ready" >>
  <2>. HIDE DEF msg
  <2>. QED
    BY <1>2 DEF Response, Fits, AnswerWords, AnswerKind, AnswerWord
<1>6. HdrWords + m \in 3..Words(i)
  BY <1>3 DEF Words, HdrWords
<1>. HIDE DEF q, m, k, w, msg
<1>7. q \in Seq(Word) /\ Len(q) \in 3..Words(i)
  BY <1>4, <1>6 DEF IsMessage
<1>. QED
  BY <1>4, <1>5, <1>7 DEF m, k, w, msg, Flags

-----------------------------------------------------------------------------
(* The ring seen from the read pointer.                                       *)
LEMMA RingFacts ==
    ASSUME TypeOK
    PROVE  /\ Top \in Nat /\ Top >= 3 /\ Used(wp, rp) \in 0..(Top - 3)
           /\ Step(rp, Used(wp, rp)) = wp
           /\ \A x \in 0..(Top - 3) :
                 /\ CellOf(rp, x) = 4 * Step(rp, x) /\ CellOf(wp, x) = 4 * Step(wp, x)
                 /\ CellOf(swp, x) \in Cells
                 /\ 4 * Step(rp, x) \in Cells /\ 4 * Step(wp, x) \in Cells
                 /\ cell[4 * Step(rp, x)] \in Word
           /\ \A x, y \in 0..(Top - 3) : x # y => 4 * Step(rp, x) # 4 * Step(rp, y)
<1>1. /\ wp \in Pointers /\ rp \in Pointers /\ swp \in Pointers
      /\ cell \in [Cells -> Word]
  BY DEF TypeOK
<1>2. Top \in Nat /\ Top >= 3
  BY TopFacts
<1>3. Used(wp, rp) \in 0..(Top - 3) /\ Step(rp, Used(wp, rp)) = wp
  BY <1>1, UsedFacts
<1>4. ASSUME NEW x \in 0..(Top - 3)
      PROVE  /\ CellOf(rp, x) = 4 * Step(rp, x) /\ CellOf(wp, x) = 4 * Step(wp, x)
             /\ CellOf(swp, x) \in Cells
             /\ 4 * Step(rp, x) \in Cells /\ 4 * Step(wp, x) \in Cells
  <2>1. x \in Nat /\ x < Top - 2
    BY <1>2
  <2>. QED
    BY <1>1, <2>1, CellAtIsStep DEF CellOf
<1>5. ASSUME NEW x \in 0..(Top - 3), NEW y \in 0..(Top - 3), x # y
      PROVE  4 * Step(rp, x) # 4 * Step(rp, y)
  <2>1. x \in Nat /\ x < Top - 2 /\ y \in Nat /\ y < Top - 2
    BY <1>2
  <2>2. Step(rp, x) # Step(rp, y) /\ Step(rp, x) \in Pointers /\ Step(rp, y) \in Pointers
    BY <1>1, <1>5, <2>1, StepInjective, ForwardIsStep
  <2>. QED
    BY <2>2, TopFacts
<1>. QED
  BY <1>1, <1>2, <1>3, <1>4, <1>5

LEMMA LaidFacts ==
    ASSUME TypeOK, pending \in Seq(Ids), NEW off, Laid(off)
    PROVE  /\ Len(pending) \in Nat /\ Taken \in 0..Used(wp, rp)
           /\ \A k \in 1..(Len(pending) + 1) : off[k] \in Taken..Used(wp, rp)
           /\ \A k \in 1..Len(pending) :
                 /\ pending[k] \in Ids /\ Words(pending[k]) \in Nat /\ Words(pending[k]) >= 3
                 /\ off[k] + Words(pending[k]) <= Used(wp, rp)
<1>. DEFINE N == Len(pending)
            u == Used(wp, rp)
<1>1. /\ off \in [1..(N + 1) -> Nat] /\ off[1] = Taken /\ off[N + 1] = u
      /\ \A k, l \in 1..(N + 1) : k < l => off[k] + Words(pending[k]) <= off[l]
  BY DEF Laid
<1>2. N \in Nat /\ \A k \in 1..N : pending[k] \in Ids
  BY LenProperties, ElementOfSeq
<1>3. \A k \in 1..N : Words(pending[k]) \in Nat /\ Words(pending[k]) >= 3
  <2>. TAKE k \in 1..N
  <2>1. "async" \in Kinds
    BY DEF Kinds
  <2>. QED
    BY <1>2, <2>1, MessageFacts
<1>. HIDE DEF N, u
<1>4. \A k \in 1..N : off[k] + Words(pending[k]) <= u
  <2>. TAKE k \in 1..N
  <2>1. k \in 1..(N + 1) /\ N + 1 \in 1..(N + 1) /\ k < N + 1
    BY <1>2
  <2>. QED
    BY <1>1, <2>1
<1>5. \A k \in 1..(N + 1) : off[k] \in Nat /\ off[1] <= off[k] /\ off[k] <= u
  <2>. TAKE k \in 1..(N + 1)
  <2>1. off[k] \in Nat /\ off[1] \in Nat
    BY <1>1, <1>2
  <2>2. CASE N = 0
    BY <1>1, <2>1, <2>2
  <2>3. CASE N # 0
    <3>1. 1 \in 1..N /\ 1 \in 1..(N + 1)
      BY <1>2, <2>3
    <3>2. k # 1 => off[1] + Words(pending[1]) <= off[k]
      BY <1>1, <3>1
    <3>3. off[1] <= off[k]
      BY <1>3, <2>1, <3>1, <3>2
    <3>4. off[k] <= u
      <4>1. CASE k = N + 1
        BY <1>1, <2>1, <4>1
      <4>2. CASE k # N + 1
        <5>1. k \in 1..N
          BY <1>2, <4>2
        <5>2. off[k] + Words(pending[k]) <= u /\ Words(pending[k]) \in Nat /\ u \in Nat
          BY <1>1, <1>2, <1>3, <1>4, <5>1
        <5>. QED
          BY <2>1, <5>2
      <4>. QED
        BY <4>1, <4>2
    <3>. QED
      BY <2>1, <3>3, <3>4
  <2>. QED
    BY <2>2, <2>3
<1>6. Taken \in Nat /\ u \in Nat
  BY <1>1, <1>2
<1>7. Taken <= u
  BY <1>1, <1>2, <1>5
<1>. QED
  BY <1>1, <1>2, <1>3, <1>4, <1>5, <1>6, <1>7 DEF N, u

(* Steps that write only words of the message that is being answered.         *)
LEMMA ContentKept ==
    ASSUME TypeOK, ContentInv,
           pending' = pending, wp' = wp, rp' = rp, Taken' = Taken,
           \A x \in Taken..(Used(wp, rp) - 1) : cell'[4 * Step(rp, x)] = cell[4 * Step(rp, x)]
    PROVE  ContentInv'
<1>1. PICK off : Laid(off)
  BY DEF ContentInv
<1>2. pending \in Seq(Ids)
  BY DEF ContentInv
<1>3. Laid(off)'
  <2>1. ASSUME NEW k \in 1..Len(pending)
        PROVE  \E f \in Kinds : \A j \in 1..Words(pending[k]) :
                   cell'[4 * Step(rp, off[k] + j - 1)] = Message(pending[k], f)[j]
    <3>1. PICK f \in Kinds : \A j \in 1..Words(pending[k]) :
              cell[4 * Step(rp, off[k] + j - 1)] = Message(pending[k], f)[j]
      BY <1>1 DEF Laid
    <3>2. ASSUME NEW j \in 1..Words(pending[k])
          PROVE  off[k] + j - 1 \in Taken..(Used(wp, rp) - 1)
      <4>1. /\ off[k] \in Taken..Used(wp, rp) /\ Taken \in Nat /\ Used(wp, rp) \in Nat
            /\ Words(pending[k]) \in Nat /\ off[k] + Words(pending[k]) <= Used(wp, rp)
        BY <1>1, <1>2, LaidFacts, RingFacts
      <4>. QED
        BY <4>1
    <3>. QED
      BY <3>1, <3>2
  <2>2. Used(wp', rp') = Used(wp, rp)
    OBVIOUS
  <2>. QED
    BY <1>1, <2>1, <2>2 DEF Laid
<1>. QED
  BY <1>2, <1>3 DEF ContentInv

-----------------------------------------------------------------------------
LEMMA InitInv == Init => IInv
<1>. SUFFICES ASSUME Init PROVE IInv
  OBVIOUS
<1>1. InitPointer \in Pointers /\ Used(wp, rp) = 0
  BY TopFacts DEF Init, InitPointer, EntSize, PtrSize, Used
<1>2. Flag("none") \in Word /\ << >> \in Seq(Word) /\ << >> \in Seq(Ids) /\ Len(<< >>) = 0
  BY DEF Flag, Word, Flags
<1>3. TypeOK
  <2>1. cell \in [Cells -> Word]
    BY <1>2 DEF Init
  <2>2. rcnt \in 0..MaxRxMsgs /\ rflag \in Flags /\ ridx \in 0..Len(rresp)
    BY <1>2 DEF Init, Flags
  <2>3. /\ wp \in Pointers /\ rp \in Pointers /\ swp \in Pointers /\ intr \in BOOLEAN
        /\ smsg \in Seq(Word) /\ sbuf \in Seq(Word) /\ rmsg \in Seq(Word) /\ rresp \in Seq(Word)
        /\ spc \in {"idle", "poll"}
        /\ rpc \in {"idle", "nomem", "peek", "handle", "respond", "flag", "forward"}
    BY <1>1, <1>2 DEF Init
  <2>. QED
    BY <2>1, <2>2, <2>3 DEF TypeOK
<1>4. ContentInv
  <2>. DEFINE off == [k \in 1..1 |-> 0]
  <2>1. off \in [1..1 -> Nat] /\ off[1] = 0
    OBVIOUS
  <2>2. pending = << >> /\ Len(pending) = 0 /\ Taken = 0
    BY <1>2 DEF Init, Taken, Answering
  <2>. HIDE DEF off
  <2>3. Laid(off)
    BY <1>1, <2>1, <2>2 DEF Laid
  <2>. QED
    BY <1>2, <2>2, <2>3 DEF ContentInv
<1>5. ReceiverInv /\ SenderInv
  BY DEF Init, ReceiverInv, SenderInv, Answering
<1>. QED
  BY <1>3, <1>4, <1>5 DEF IInv

-----------------------------------------------------------------------------
Kind(sync) == IF sync THEN "resp_required" ELSE "async"

(* A message that is sent lies behind all others, which it leaves alone.      *)
LEMMA SendFacts ==
    ASSUME TypeOK, NEW i \in Ids, NEW sync \in BOOLEAN, Send(i, sync)
    PROVE  LET u == Used(wp, rp)
               n == Words(i)
           IN  /\ n \in Nat /\ n >= 3 /\ u + n <= Top - 4
               /\ wp' \in Pointers /\ wp' # wp /\ rp' = rp /\ Used(wp', rp') = u + n
               /\ cell' \in [Cells -> Word]
               /\ \A x \in 0..(u - 1) : cell'[4 * Step(rp, x)] = cell[4 * Step(rp, x)]
               /\ \A j \in 1..n : cell'[4 * Step(rp, u + j - 1)] = Message(i, Kind(sync))[j]
               /\ \A c \in Cells : cell'[c] # cell[c] =>
                     \E x \in u..(u + n - 1) : c = 4 * Step(rp, x)
               /\ UNCHANGED recvVars
               /\ pending' = Append(pending, i)
<1>. DEFINE msg == Message(i, Kind(sync))
            n == Words(i)
            u == Used(wp, rp)
            In(c) == {k \in 1..Len(msg) : c = CellOf(wp, k - 1)}
<1>1. /\ WriteCheck(wp, rp, Bytes(msg))
      /\ cell' = [c \in Cells |->
                     IF \E k \in 1..Len(msg) : c = CellOf(wp, k - 1)
                     THEN msg[CHOOSE k \in 1..Len(msg) : c = CellOf(wp, k - 1)]
                     ELSE cell[c]]
      /\ wp' = Forward(wp, Bytes(msg)) /\ rp' = rp
      /\ UNCHANGED recvVars /\ pending' = Append(pending, i)
  BY DEF Send, Kind
<1>2. Kind(sync) \in Kinds
  BY DEF Kinds, Kind
<1>3. msg \in Seq(Word) /\ Len(msg) = n /\ n \in Nat /\ n >= 3
  BY <1>2, MessageFacts
<1>. HIDE DEF msg, n
<1>4. /\ wp \in Pointers /\ rp \in Pointers /\ cell \in [Cells -> Word]
      /\ Top \in Nat /\ Top >= 3 /\ u \in 0..(Top - 3) /\ Step(rp, u) = wp
  BY RingFacts DEF TypeOK
<1>5. u + n <= Top - 4
  BY <1>1, <1>3, <1>4, UsedFacts DEF Bytes
<1>6. wp' = Step(wp, n) /\ wp' \in Pointers
  BY <1>1, <1>3, <1>4, <1>5, ForwardIsStep DEF Bytes, EntSize
<1>. HIDE DEF u
<1>7. Used(wp', rp') = u + n
  <2>1. Used(wp, rp) + n <= Top - 3
    BY <1>3, <1>4, <1>5 DEF u
  <2>. QED
    BY <1>1, <1>3, <1>4, <1>6, <2>1, UsedAfterWrite DEF u
<1>8. wp' # wp
  <2>1. Step(wp, 0) = wp
    BY <1>4, StepZero
  <2>2. n < Top - 2 /\ 0 < Top - 2 /\ 0 \in Nat /\ n # 0
    BY <1>3, <1>4, <1>5
  <2>. QED
    BY <1>3, <1>4, <1>6, <2>1, <2>2, StepInjective
<1>9. ASSUME NEW k \in 1..n
      PROVE  /\ CellOf(wp, k - 1) = 4 * Step(rp, u + k - 1)
             /\ u + k - 1 \in 0..(Top - 3)
  <2>1. k - 1 \in Nat /\ u \in Nat /\ u + (k - 1) < Top - 2 /\ k - 1 \in 0..(Top - 3)
    BY <1>3, <1>4, <1>5
  <2>2. CellOf(wp, k - 1) = 4 * Step(wp, k - 1)
    BY <2>1, RingFacts
  <2>3. Step(wp, k - 1) = Step(rp, u + (k - 1))
    BY <1>4, <2>1, StepStep
  <2>4. u + (k - 1) = u + k - 1 /\ u + k - 1 \in 0..(Top - 3)
    BY <1>3, <1>4, <1>5, <2>1
  <2>5. Step(rp, u + (k - 1)) = Step(rp, u + k - 1)
    BY <2>4
  <2>. QED
    BY <2>2, <2>3, <2>4, <2>5
<1>10. ASSUME NEW k \in 1..n
       PROVE  cell'[4 * Step(rp, u + k - 1)] = msg[k]
  <2>. DEFINE c == 4 * Step(rp, u + k - 1)
              l == CHOOSE l \in 1..Len(msg) : c = CellOf(wp, l - 1)
  <2>1. c \in Cells /\ c = CellOf(wp, k - 1)
    BY <1>9, RingFacts
  <2>2. l \in 1..n /\ c = CellOf(wp, l - 1)
    BY <1>3, <2>1
  <2>3. cell'[c] = msg[l]
    BY <1>1, <1>3, <2>1
  <2>. HIDE DEF l
  <2>4. l = k
    <3>1. /\ u + l - 1 \in 0..(Top - 3) /\ u + k - 1 \in 0..(Top - 3)
          /\ 4 * Step(rp, u + l - 1) = 4 * Step(rp, u + k - 1)
      BY <1>9, <2>1, <2>2
    <3>2. u + l - 1 = u + k - 1
      BY <3>1, RingFacts
    <3>. QED
      BY <1>4, <2>2, <3>2
  <2>. QED
    BY <2>3, <2>4
<1>11. ASSUME NEW c \in Cells, cell'[c] # cell[c]
       PROVE  \E x \in u..(u + n - 1) : c = 4 * Step(rp, x)
  <2>1. PICK k \in 1..n : c = CellOf(wp, k - 1)
    BY <1>1, <1>3, <1>11
  <2>2. c = 4 * Step(rp, u + k - 1) /\ u + k - 1 \in u..(u + n - 1)
    BY <1>3, <1>4, <1>9, <2>1
  <2>. QED
    BY <2>2
<1>12. ASSUME NEW x \in 0..(u - 1)
       PROVE  cell'[4 * Step(rp, x)] = cell[4 * Step(rp, x)]
  <2>1. x \in 0..(Top - 3) /\ \A y \in u..(u + n - 1) : y \in 0..(Top - 3) /\ x # y
    BY <1>3, <1>4, <1>5
  <2>2. 4 * Step(rp, x) \in Cells /\ \A y \in u..(u + n - 1) : 4 * Step(rp, x) # 4 * Step(rp, y)
    BY <2>1, RingFacts
  <2>. QED
    BY <1>11, <2>2
<1>13. cell' \in [Cells -> Word]
  <2>. SUFFICES ASSUME NEW c \in Cells
                PROVE  (IF \E k \in 1..Len(msg) : c = CellOf(wp, k - 1)
                        THEN msg[CHOOSE k \in 1..Len(msg) : c = CellOf(wp, k - 1)]
                        ELSE cell[c]) \in Word
    BY <1>1
  <2>1. \A k \in 1..Len(msg) : msg[k] \in Word
    BY <1>3, ElementOfSeq
  <2>. QED
    BY <1>4, <2>1
<1>. QED
  BY <1>1, <1>2, <1>3, <1>5, <1>6, <1>7, <1>8, <1>10, <1>11, <1>12, <1>13 DEF u, n, msg

LEMMA SendContent ==
    ASSUME TypeOK, ContentInv, NEW i \in Ids, NEW sync \in BOOLEAN, Send(i, sync)
    PROVE  ContentInv'
<1>. DEFINE N == Len(pending)
            n == Words(i)
            u == Used(wp, rp)
<1>1. pending \in Seq(Ids) /\ \E off : Laid(off)
  BY DEF ContentInv
<1>2. PICK off : Laid(off)
  BY <1>1
<1>3. /\ N \in Nat /\ Taken \in 0..u
      /\ \A k \in 1..(N + 1) : off[k] \in Taken..u
      /\ \A k \in 1..N : /\ pending[k] \in Ids /\ Words(pending[k]) \in Nat
                         /\ off[k] + Words(pending[k]) <= u
  BY <1>1, <1>2, LaidFacts
<1>4. /\ n \in Nat /\ n >= 3 /\ rp' = rp /\ Used(wp', rp') = u + n /\ u \in Nat
      /\ \A x \in 0..(u - 1) : cell'[4 * Step(rp, x)] = cell[4 * Step(rp, x)]
      /\ \E f \in Kinds : \A j \in 1..n : cell'[4 * Step(rp, u + j - 1)] = Message(i, f)[j]
      /\ UNCHANGED recvVars /\ pending' = Append(pending, i)
  <2>1. Kind(sync) \in Kinds
    BY DEF Kind, Kinds
  <2>. QED
    BY <2>1, SendFacts, RingFacts
<1>5. /\ pending' \in Seq(Ids) /\ Len(pending') = N + 1 /\ pending'[N + 1] = i
      /\ \A k \in 1..N : pending'[k] = pending[k]
  BY <1>1, <1>4, AppendProperties
<1>6. /\ off[1] = Taken /\ off[N + 1] = u
      /\ \A k \in 1..N : off[k + 1] = off[k] + Words(pending[k])
      /\ \A k, l \in 1..(N + 1) : k < l => off[k] + Words(pending[k]) <= off[l]
  BY <1>2 DEF Laid
<1>. HIDE DEF n, u, N
<1>7. PICK new : /\ new[N + 2] = u + n /\ \A k \in 1..(N + 1) : new[k] = off[k]
                 /\ new \in [1..(N + 2) -> Nat]
  <2>. DEFINE behind == [k \in 1..(N + 2) |-> IF k = N + 2 THEN u + n ELSE off[k]]
  <2>1. /\ behind[N + 2] = u + n /\ \A k \in 1..(N + 1) : behind[k] = off[k]
        /\ behind \in [1..(N + 2) -> Nat]
    <3>1. \A k \in 1..(N + 2) : (IF k = N + 2 THEN u + n ELSE off[k]) \in Nat
      BY <1>3, <1>4
    <3>2. N + 2 \in 1..(N + 2) /\ \A k \in 1..(N + 1) : k \in 1..(N + 2) /\ k # N + 2
      BY <1>3
    <3>. QED
      BY <3>1, <3>2
  <2>. HIDE DEF behind
  <2>. QED
    BY <2>1
<1>8. Taken' = Taken
  BY <1>4 DEF recvVars, Taken, Answering
<1>9. \A k \in 1..(N + 1) : new[k + 1] = new[k] + Words(pending'[k])
  <2>. TAKE k \in 1..(N + 1)
  <2>1. CASE k = N + 1
    <3>1. new[k + 1] = u + n /\ new[k] = u /\ pending'[k] = i
      BY <1>3, <1>5, <1>6, <1>7, <2>1
    <3>. QED
      BY <3>1 DEF n
  <2>2. CASE k # N + 1
    <3>1. k \in 1..N /\ k + 1 \in 1..(N + 1) /\ k \in 1..(N + 1)
      BY <1>3, <2>2
    <3>. QED
      BY <1>5, <1>6, <1>7, <3>1
  <2>. QED
    BY <2>1, <2>2
<1>10. ASSUME NEW k \in 1..(N + 2), NEW l \in 1..(N + 2), k < l
       PROVE  new[k] + Words(pending'[k]) <= new[l]
  <2>1. k \in 1..(N + 1)
    BY <1>3, <1>10
  <2>2. CASE l # N + 2
    <3>1. l \in 1..(N + 1) /\ k \in 1..N
      BY <1>3, <1>10, <2>2
    <3>. QED
      BY <1>5, <1>6, <1>7, <1>10, <2>1, <3>1
  <2>3. CASE l = N + 2 /\ k = N + 1
    BY <1>3, <1>7, <1>9, <2>1, <2>3
  <2>4. CASE l = N + 2 /\ k # N + 1
    <3>1. k \in 1..N
      BY <1>3, <2>1, <2>4
    <3>2. off[k] + Words(pending[k]) <= u /\ off[k] \in Nat /\ Words(pending[k]) \in Nat
      BY <1>3, <2>1, <3>1
    <3>3. new[k] = off[k] /\ pending'[k] = pending[k] /\ new[l] = u + n
      BY <1>5, <1>7, <2>1, <2>4, <3>1
    <3>. QED
      BY <1>4, <3>2, <3>3
  <2>. QED
    BY <2>2, <2>3, <2>4
<1>11. ASSUME NEW k \in 1..(N + 1)
       PROVE  \E f \in Kinds : \A j \in 1..Words(pending'[k]) :
                  cell'[4 * Step(rp, new[k] + j - 1)] = Message(pending'[k], f)[j]
  <2>1. CASE k = N + 1
    <3>1. new[k] = u /\ pending'[k] = i
      BY <1>5, <1>6, <1>7, <2>1
    <3>. QED
      BY <1>4, <3>1 DEF n
  <2>2. CASE k # N + 1
    <3>0. k \in 1..N /\ k \in 1..(N + 1)
      BY <1>3, <2>2
    <3>1. new[k] = off[k] /\ pending'[k] = pending[k]
      BY <1>5, <1>7, <3>0
    <3>2. PICK f \in Kinds : \A j \in 1..Words(pending[k]) :
              cell[4 * Step(rp, off[k] + j - 1)] = Message(pending[k], f)[j]
      BY <1>2, <3>0 DEF Laid, N
    <3>3. ASSUME NEW j \in 1..Words(pending[k])
          PROVE  cell'[4 * Step(rp, off[k] + j - 1)] = Message(pending[k], f)[j]
      <4>1. /\ off[k] \in Nat /\ u \in Nat /\ Words(pending[k]) \in Nat
            /\ off[k] + Words(pending[k]) <= u
        BY <1>3, <1>4, <3>0
      <4>2. off[k] + j - 1 \in 0..(u - 1)
        BY <4>1
      <4>3. cell'[4 * Step(rp, off[k] + j - 1)] = cell[4 * Step(rp, off[k] + j - 1)]
        BY <1>4, <4>2
      <4>. QED
        BY <3>2, <4>3
    <3>4. \E g \in Kinds : \A j \in 1..Words(pending[k]) :
              cell'[4 * Step(rp, off[k] + j - 1)] = Message(pending[k], g)[j]
      BY <3>3
    <3>. QED
      BY <3>1, <3>4, Zenon
  <2>. QED
    BY <2>1, <2>2
<1>12. new[1] = Taken'
  BY <1>3, <1>6, <1>7, <1>8
<1>13. Laid(new)'
  <2>1. Len(pending') + 1 = N + 2 /\ Len(pending') = N + 1 /\ Used(wp', rp') = new[N + 2]
    BY <1>3, <1>4, <1>5, <1>7
  <2>2. new \in [1..(Len(pending') + 1) -> Nat]
    BY <1>7, <2>1
  <2>3. new[1] = Taken' /\ new[Len(pending') + 1] = Used(wp', rp')
    BY <1>12, <2>1
  <2>4. \A k \in 1..Len(pending') : new[k + 1] = new[k] + Words(pending'[k])
    BY <1>9, <2>1
  <2>5. \A k, l \in 1..(Len(pending') + 1) : k < l => new[k] + Words(pending'[k]) <= new[l]
    BY <1>10, <2>1
  <2>6. \A k \in 1..Len(pending') : \E f \in Kinds : \A j \in 1..Words(pending'[k]) :
           cell'[4 * Step(rp', new[k] + j - 1)] = Message(pending'[k], f)[j]
    <3>1. rp' = rp
      BY <1>4
    <3>. QED
      BY <1>11, <2>1, <3>1, Zenon
  <2>. QED
    BY <2>2, <2>3, <2>4, <2>5, <2>6, Zenon DEF Laid
<1>. QED
  BY <1>5, <1>13 DEF ContentInv

LEMMA SendStep ==
    ASSUME IInv, NEW i \in Ids, NEW sync \in BOOLEAN, Send(i, sync)
    PROVE  IInv'
<1>1. TypeOK /\ ContentInv /\ ReceiverInv /\ SenderInv
  BY DEF IInv
<1>2. ContentInv'
  BY <1>1, SendContent
<1>3. /\ wp' \in Pointers /\ rp' = rp /\ cell' \in [Cells -> Word] /\ UNCHANGED recvVars
      /\ Words(i) + Used(wp, rp) <= Top - 4 /\ Words(i) \in Nat
      /\ pending' = Append(pending, i)
  BY <1>1, SendFacts, RingFacts
<1>. DEFINE msg == Message(i, IF sync THEN "resp_required" ELSE "async")
<1>4. msg \in Seq(Word) /\ Len(msg) = Words(i)
  <2>1. (IF sync THEN "resp_required" ELSE "async") \in Kinds
    BY DEF Kinds
  <2>. QED
    BY <2>1, MessageFacts, Zenon
<1>5. /\ intr' = TRUE /\ sbuf' = sbuf
      /\ IF sync THEN spc' = "poll" /\ smsg' = msg /\ swp' = wp ELSE UNCHANGED <<spc, smsg, swp>>
  BY DEF Send
<1>. HIDE DEF msg
<1>6. TypeOK'
  <2>1. spc' \in {"idle", "poll"} /\ swp' \in Pointers /\ smsg' \in Seq(Word)
    BY <1>1, <1>4, <1>5 DEF TypeOK
  <2>. QED
    BY <1>1, <1>3, <1>5, <2>1 DEF TypeOK, recvVars
<1>7. SenderInv'
  <2>1. Used(wp, rp) \in Nat /\ Top \in Nat
    BY <1>1, RingFacts
  <2>2. CASE sync
    BY <1>3, <1>4, <1>5, <2>1, <2>2 DEF SenderInv
  <2>3. CASE ~sync
    BY <1>1, <1>5, <2>3 DEF SenderInv
  <2>. QED
    BY <2>2, <2>3
<1>8. ReceiverInv'
  <2>1. /\ Len(pending') = Len(pending) + 1 /\ Len(pending) \in Nat
        /\ pending # << >> => pending'[1] = pending[1] /\ pending' # << >>
    <3>1. pending \in Seq(Ids)
      BY <1>1 DEF ContentInv
    <3>2. /\ Len(pending') = Len(pending) + 1 /\ Len(pending) \in Nat /\ pending' \in Seq(Ids)
          /\ \A k \in 1..Len(pending) : pending'[k] = pending[k]
      BY <1>3, <3>1, AppendProperties, LenProperties
    <3>. QED
      BY <3>1, <3>2, EmptySeq
  <2>. QED
    BY <1>1, <1>3, <2>1 DEF ReceiverInv, Answering, recvVars
<1>. QED
  BY <1>2, <1>6, <1>7, <1>8 DEF IInv

-----------------------------------------------------------------------------
(* Polling for the answer.                                                    *)
LEMMA PollStep == ASSUME IInv, SenderStep PROVE IInv'
<1>1. TypeOK /\ ContentInv /\ ReceiverInv /\ SenderInv
  BY DEF IInv
<1>2. wp' = wp /\ rp' = rp /\ cell' = cell /\ UNCHANGED recvVars /\ pending' = pending /\ intr' = intr
  BY DEF SenderStep, PollWord, PollReady, PollNotReady, fifoVars
<1>3. << >> \in Seq(Word) /\ InitPointer \in Pointers
  BY TopFacts DEF InitPointer, EntSize, PtrSize
<1>4. /\ spc' \in {"idle", "poll"} /\ swp' \in Pointers
      /\ smsg' \in Seq(Word) /\ sbuf' \in Seq(Word) /\ SenderInv'
  <2>1. CASE PollWord
    <3>1. spc' = spc /\ smsg' = smsg /\ swp' = swp /\ spc = "poll"
      BY <2>1 DEF PollWord
    <3>2. Len(sbuf) \in Nat /\ Len(sbuf) < Len(smsg) /\ Len(smsg) < Top - 2 /\ Len(smsg) \in Nat /\ Top \in Nat
      BY <1>1, <2>1, LenProperties, RingFacts DEF PollWord, TypeOK, SenderInv
    <3>3. Len(sbuf) \in 0..(Top - 3)
      BY <3>2
    <3>4. CellOf(swp, Len(sbuf)) \in Cells
      BY <1>1, <3>3, RingFacts
    <3>5. sbuf' = Append(sbuf, cell[CellOf(swp, Len(sbuf))]) /\ cell[CellOf(swp, Len(sbuf))] \in Word
      BY <1>1, <2>1, <3>4 DEF PollWord, TypeOK
    <3>6. sbuf' \in Seq(Word)
      BY <1>1, <3>5, AppendProperties DEF TypeOK
    <3>. QED
      BY <1>1, <3>1, <3>6 DEF TypeOK, SenderInv
  <2>2. CASE PollReady
    BY <1>1, <1>3, <2>2 DEF TypeOK, SenderInv, PollReady, SendReturn
  <2>3. CASE PollNotReady
    BY <1>1, <1>3, <2>3 DEF TypeOK, SenderInv, PollNotReady, SendReturn
  <2>. QED
    BY <2>1, <2>2, <2>3 DEF SenderStep
<1>5. TypeOK'
  BY <1>1, <1>2, <1>4 DEF TypeOK, recvVars
<1>6. ContentInv'
  <2>1. Taken' = Taken
    BY <1>2 DEF recvVars, Taken, Answering
  <2>. QED
    BY <1>1, <1>2, <2>1, ContentKept
<1>7. ReceiverInv'
  BY <1>1, <1>2 DEF ReceiverInv, Answering, recvVars
<1>. QED
  BY <1>4, <1>5, <1>6, <1>7 DEF IInv

-----------------------------------------------------------------------------
(* The receiver.                                                              *)
LEMMA RecvCallStep == ASSUME IInv, RecvCall PROVE IInv'
<1>1. TypeOK /\ ContentInv /\ ReceiverInv /\ SenderInv
  BY DEF IInv
<1>2. /\ rpc \in {"idle", "nomem"} /\ rpc' \in {"peek", "nomem"} /\ rcnt' = 0 /\ intr' = FALSE
      /\ UNCHANGED <<fifoVars, senderVars, rmsg, rresp, ridx, rflag, pending, handled>>
  BY DEF RecvCall
<1>3. TypeOK'
  <2>1. rcnt' = 0 /\ intr' \in BOOLEAN
    BY <1>2
  <2>2. rcnt' \in 0..MaxRxMsgs
    BY <2>1
  <2>. QED
    BY <1>1, <1>2, <2>1, <2>2 DEF TypeOK, fifoVars, senderVars
<1>4. ContentInv'
  <2>1. Taken' = Taken /\ wp' = wp /\ rp' = rp /\ cell' = cell /\ pending' = pending
    BY <1>2 DEF Taken, Answering, fifoVars
  <2>. QED
    BY <1>1, <2>1, ContentKept
<1>5. ReceiverInv' /\ SenderInv'
  BY <1>1, <1>2 DEF ReceiverInv, SenderInv, Answering, senderVars
<1>. QED
  BY <1>3, <1>4, <1>5 DEF IInv

(* A ring that holds a header holds the first accepted message whole.         *)
LEMMA FirstMessage ==
    ASSUME TypeOK, ContentInv, ~Answering, 3 <= Used(wp, rp)
    PROVE  /\ pending # << >> /\ pending[1] \in Ids
           /\ \E f \in Kinds : \A j \in 1..Words(pending[1]) :
                 cell[CellOf(rp, j - 1)] = Message(pending[1], f)[j]
<1>1. pending \in Seq(Ids) /\ \E off : Laid(off)
  BY DEF ContentInv
<1>2. PICK off : Laid(off)
  BY <1>1
<1>3. /\ Len(pending) \in Nat
      /\ \A k \in 1..Len(pending) :
            /\ pending[k] \in Ids /\ Words(pending[k]) \in Nat /\ Words(pending[k]) >= 3
            /\ off[k] + Words(pending[k]) <= Used(wp, rp)
  BY <1>1, <1>2, LaidFacts
<1>4. off[1] = 0 /\ off[Len(pending) + 1] = Used(wp, rp)
  BY <1>2 DEF Laid, Taken
<1>5. Len(pending) # 0
  BY <1>4, RingFacts
<1>6. 1 \in 1..Len(pending)
  BY <1>3, <1>5
<1>7. /\ pending[1] \in Ids /\ Words(pending[1]) \in Nat
      /\ Words(pending[1]) <= Used(wp, rp)
  BY <1>3, <1>4, <1>6
<1>8. PICK f \in Kinds : \A j \in 1..Words(pending[1]) :
          cell[4 * Step(rp, off[1] + j - 1)] = Message(pending[1], f)[j]
  BY <1>2, <1>6 DEF Laid
<1>9. ASSUME NEW j \in 1..Words(pending[1])
      PROVE  cell[CellOf(rp, j - 1)] = Message(pending[1], f)[j]
  <2>1. j - 1 \in 0..(Top - 3) /\ off[1] + j - 1 = j - 1
    BY <1>4, <1>7, RingFacts
  <2>2. CellOf(rp, j - 1) = 4 * Step(rp, j - 1)
    BY <2>1, RingFacts
  <2>. QED
    BY <1>8, <2>1, <2>2
<1>10. pending # << >>
  BY <1>1, <1>5, EmptySeq
<1>. QED
  BY <1>7, <1>9, <1>10

LEMMA RecvPeekStep == ASSUME IInv, RecvPeek PROVE IInv'
<1>1. TypeOK /\ ContentInv /\ ReceiverInv /\ SenderInv
  BY DEF IInv
<1>2. /\ rpc = "peek" /\ ~Answering /\ rpc' \in {"idle", "handle"}
      /\ UNCHANGED <<fifoVars, intr, senderVars, rresp, ridx, rflag, pending, handled>>
  BY DEF RecvPeek, Answering
<1>3. ContentInv' /\ SenderInv'
  <2>1. Taken' = Taken /\ wp' = wp /\ rp' = rp /\ cell' = cell /\ pending' = pending
    BY <1>2 DEF Taken, Answering, fifoVars
  <2>. QED
    BY <1>1, <1>2, <2>1, ContentKept DEF SenderInv, senderVars
<1>4. CASE rcnt < MaxRxMsgs /\ ReadCheck(wp, rp, EntSize * HdrWords)
  <2>. DEFINE n == cell[CellOf(rp, 2)][2]
  <2>1. rmsg' = [k \in 1..(HdrWords + n) |-> cell[CellOf(rp, k - 1)]] /\ rpc' = "handle" /\ rcnt' = rcnt
    BY <1>4 DEF RecvPeek
  <2>2. 3 <= Used(wp, rp)
    BY <1>1, <1>4, UsedFacts DEF TypeOK, HdrWords
  <2>3. pending # << >> /\ pending[1] \in Ids
    BY <1>1, <1>2, <2>2, FirstMessage
  <2>4. PICK f \in Kinds : \A j \in 1..Words(pending[1]) :
            cell[CellOf(rp, j - 1)] = Message(pending[1], f)[j]
    BY <1>1, <1>2, <2>2, FirstMessage
  <2>5. /\ Message(pending[1], f) \in Seq(Word) /\ Len(Message(pending[1], f)) = Words(pending[1])
        /\ Words(pending[1]) \in Nat /\ Words(pending[1]) >= 3
        /\ Message(pending[1], f)[3] = <<"size", DataWords[pending[1]]>>
    BY <2>3, MessageFacts
  <2>6. n = DataWords[pending[1]]
    <3>1. 3 \in 1..Words(pending[1]) /\ 3 - 1 = 2
      BY <2>5
    <3>2. cell[CellOf(rp, 2)] = <<"size", DataWords[pending[1]]>>
      BY <2>4, <2>5, <3>1
    <3>. QED
      BY <3>2
  <2>7. rmsg' = [k \in 1..Words(pending[1]) |-> cell[CellOf(rp, k - 1)]]
    BY <2>1, <2>6 DEF Words
  <2>. HIDE DEF n
  <2>8. rmsg' = Message(pending[1], f)
    <3>. DEFINE m == Message(pending[1], f)
                w == Words(pending[1])
    <3>1. m \in Seq(Word) /\ Len(m) = w /\ w \in Nat
      BY <2>5
    <3>2. \A j \in 1..w : cell[CellOf(rp, j - 1)] = m[j]
      BY <2>4
    <3>3. rmsg' = [k \in 1..w |-> cell[CellOf(rp, k - 1)]]
      BY <2>7
    <3>. HIDE DEF m, w
    <3>4. m = [k \in 1..w |-> m[k]]
      BY <3>1
    <3>5. m = [k \in 1..w |-> cell[CellOf(rp, k - 1)]]
      BY <3>2, <3>4
    <3>. QED
      BY <3>3, <3>5 DEF m
  <2>9. TypeOK'
    BY <1>1, <1>2, <2>1, <2>5, <2>8 DEF TypeOK, fifoVars, senderVars
  <2>10. ReceiverInv'
    <3>1. ~Answering'
      BY <2>1 DEF Answering
    <3>2. pending' = pending /\ rcnt' < MaxRxMsgs
      BY <1>2, <1>4, <2>1
    <3>. QED
      BY <2>1, <2>3, <2>8, <3>1, <3>2 DEF ReceiverInv
  <2>. QED
    BY <1>3, <2>9, <2>10 DEF IInv
<1>5. CASE ~(rcnt < MaxRxMsgs /\ ReadCheck(wp, rp, EntSize * HdrWords))
  <2>1. rpc' = "idle" /\ rmsg' = << >> /\ rcnt' = 0
    BY <1>5 DEF RecvPeek
  <2>2. rcnt' \in 0..MaxRxMsgs /\ rmsg' \in Seq(Word)
    BY <2>1
  <2>3. TypeOK'
    BY <1>1, <1>2, <2>1, <2>2 DEF TypeOK, fifoVars, senderVars
  <2>4. ReceiverInv'
    BY <2>1 DEF ReceiverInv, Answering
  <2>. QED
    BY <1>3, <2>3, <2>4 DEF IInv
<1>. QED
  BY <1>4, <1>5

LEMMA RecvHandleStep ==
    ASSUME IInv, NEW ret \in HandlerResults, RecvHandle(ret)
    PROVE  IInv'
<1>1. TypeOK /\ ContentInv /\ ReceiverInv /\ SenderInv
  BY DEF IInv
<1>2. /\ rpc = "handle" /\ pending' = IF pending = << >> THEN << >> ELSE Tail(pending)
      /\ IF rmsg[1] = Flag("resp_required")
         THEN /\ rresp' = Response(rmsg, ret)[1] /\ rflag' = Response(rmsg, ret)[2]
              /\ rpc' = "respond"
         ELSE rpc' = "forward" /\ UNCHANGED <<rresp, rflag>>
      /\ ridx' = 0
      /\ UNCHANGED <<fifoVars, intr, senderVars, rmsg, rcnt>>
  BY DEF RecvHandle
<1>3. pending # << >> /\ pending \in Seq(Ids) /\ \E off : Laid(off)
  BY <1>1, <1>2 DEF ReceiverInv, ContentInv
<1>4. PICK f \in Kinds : rmsg = Message(pending[1], f)
  BY <1>1, <1>2 DEF ReceiverInv
<1>5. /\ Tail(pending) \in Seq(Ids) /\ Len(Tail(pending)) = Len(pending) - 1
      /\ \A k \in 1..Len(Tail(pending)) : Tail(pending)[k] = pending[k + 1]
      /\ Len(pending) \in Nat /\ Len(pending) # 0
  BY <1>3, HeadTailProperties, LenProperties, EmptySeq
<1>6. pending[1] \in Ids /\ pending' = Tail(pending)
  BY <1>2, <1>3, <1>5, ElementOfSeq
<1>7. Len(rmsg) = Words(pending[1]) /\ Words(pending[1]) \in Nat /\ Words(pending[1]) >= 3
  BY <1>4, <1>6, MessageFacts
<1>8. Answering' /\ rpc' \in {"respond", "forward"}
  BY <1>2 DEF Answering
<1>9. /\ rresp' \in Seq(Word) /\ rflag' \in Flags
      /\ rpc' = "respond" => 0 < Len(rresp') /\ Len(rresp') <= Len(rmsg)
  <2>1. CASE rmsg[1] = Flag("resp_required")
    <3>. DEFINE r == Response(Message(pending[1], f), ret)
    <3>1. r[1] \in Seq(Word) /\ Len(r[1]) \in 3..Words(pending[1]) /\ r[2] \in Flags
      BY <1>6, ResponseFacts
    <3>2. rresp' = r[1] /\ rflag' = r[2]
      BY <1>2, <1>4, <2>1
    <3>. HIDE DEF r
    <3>. QED
      BY <1>7, <3>1, <3>2
  <2>2. CASE rmsg[1] # Flag("resp_required")
    BY <1>1, <1>2, <2>2 DEF TypeOK
  <2>. QED
    BY <2>1, <2>2
<1>10. TypeOK'
  <2>1. ridx' \in 0..Len(rresp')
    BY <1>2, <1>9, LenProperties
  <2>. QED
    BY <1>1, <1>2, <1>8, <1>9, <2>1 DEF TypeOK, fifoVars, senderVars
<1>11. ReceiverInv'
  <2>1. rmsg' = rmsg /\ rcnt' = rcnt /\ rcnt < MaxRxMsgs /\ ridx' = 0
    BY <1>1, <1>2 DEF ReceiverInv
  <2>. QED
    BY <1>4, <1>6, <1>8, <1>9, <2>1 DEF ReceiverInv
<1>12. SenderInv'
  BY <1>1, <1>2 DEF SenderInv, senderVars
<1>13. ContentInv'
  <2>. DEFINE N == Len(pending)
  <2>1. PICK off : Laid(off)
    BY <1>3
  <2>2. /\ off \in [1..(N + 1) -> Nat] /\ off[1] = 0 /\ off[N + 1] = Used(wp, rp)
        /\ \A k \in 1..N : off[k + 1] = off[k] + Words(pending[k])
        /\ \A k, l \in 1..(N + 1) : k < l => off[k] + Words(pending[k]) <= off[l]
        /\ \A k \in 1..N : \E g \in Kinds : \A j \in 1..Words(pending[k]) :
              cell[4 * Step(rp, off[k] + j - 1)] = Message(pending[k], g)[j]
    BY <1>2, <2>1 DEF Laid, Taken, Answering
  <2>3. N \in Nat /\ N # 0 /\ Len(pending') = N - 1 /\ pending' \in Seq(Ids)
        /\ \A k \in 1..(N - 1) : pending'[k] = pending[k + 1]
    BY <1>5, <1>6
  <2>4. wp' = wp /\ rp' = rp /\ cell' = cell /\ Taken' = Words(pending[1])
    BY <1>2, <1>7, <1>8 DEF fifoVars, Taken
  <2>. HIDE DEF N
  <2>5. PICK new : new \in [1..N -> Nat] /\ \A k \in 1..N : new[k] = off[k + 1]
    <3>. DEFINE rest == [k \in 1..N |-> off[k + 1]]
    <3>1. \A k \in 1..N : k + 1 \in 1..(N + 1)
      BY <2>3
    <3>2. rest \in [1..N -> Nat] /\ \A k \in 1..N : rest[k] = off[k + 1]
      BY <2>2, <3>1
    <3>. HIDE DEF rest
    <3>. QED
      BY <3>2
  <2>6. Laid(new)'
    <3>1. new \in [1..(Len(pending') + 1) -> Nat] /\ Len(pending') + 1 = N
      BY <2>3, <2>5
    <3>2. new[1] = Taken' /\ new[N] = Used(wp', rp')
      <4>1. 1 \in 1..N /\ N \in 1..N
        BY <2>3
      <4>2. off[1 + 1] = off[1] + Words(pending[1])
        BY <2>2, <4>1
      <4>. QED
        BY <1>7, <2>2, <2>4, <2>5, <4>1, <4>2
    <3>3. ASSUME NEW k \in 1..(N - 1)
          PROVE  /\ k + 1 \in 1..N /\ k \in 1..N
                 /\ new[k] = off[k + 1] /\ new[k + 1] = off[k + 1 + 1] /\ pending'[k] = pending[k + 1]
      <4>1. k + 1 \in 1..N /\ k \in 1..N
        BY <2>3
      <4>. QED
        BY <2>3, <2>5, <4>1
    <3>4. \A k \in 1..(N - 1) : new[k + 1] = new[k] + Words(pending'[k])
      BY <2>2, <3>3
    <3>5. ASSUME NEW k \in 1..N, NEW l \in 1..N, k < l
          PROVE  new[k] + Words(pending'[k]) <= new[l]
      <4>1. k \in 1..(N - 1) /\ k + 1 \in 1..(N + 1) /\ l + 1 \in 1..(N + 1) /\ k + 1 < l + 1
        BY <2>3, <3>5
      <4>2. off[k + 1] + Words(pending[k + 1]) <= off[l + 1]
        BY <2>2, <4>1
      <4>3. new[l] = off[l + 1]
        BY <2>5
      <4>4. new[k] = off[k + 1] /\ pending'[k] = pending[k + 1]
        BY <3>3, <4>1
      <4>. QED
        BY <4>2, <4>3, <4>4
    <3>6. ASSUME NEW k \in 1..(N - 1)
          PROVE  \E g \in Kinds : \A j \in 1..Words(pending'[k]) :
                     cell'[4 * Step(rp', new[k] + j - 1)] = Message(pending'[k], g)[j]
      <4>1. \E g \in Kinds : \A j \in 1..Words(pending[k + 1]) :
                cell[4 * Step(rp, off[k + 1] + j - 1)] = Message(pending[k + 1], g)[j]
        BY <2>2, <3>3
      <4>2. new[k] = off[k + 1] /\ pending'[k] = pending[k + 1] /\ rp' = rp /\ cell' = cell
        BY <2>4, <3>3
      <4>. QED
        BY <4>1, <4>2, Zenon
    <3>7. Len(pending') = N - 1
      BY <2>3
    <3>8. \A k, l \in 1..(Len(pending') + 1) : k < l => new[k] + Words(pending'[k]) <= new[l]
      BY <3>1, <3>5
    <3>9. \A k \in 1..Len(pending') : new[k + 1] = new[k] + Words(pending'[k])
      BY <3>4, <3>7
    <3>10. \A k \in 1..Len(pending') : \E g \in Kinds : \A j \in 1..Words(pending'[k]) :
              cell'[4 * Step(rp', new[k] + j - 1)] = Message(pending'[k], g)[j]
      BY <3>6, <3>7
    <3>11. new[1] = Taken' /\ new[Len(pending') + 1] = Used(wp', rp')
      BY <3>1, <3>2
    <3>. QED
      BY <3>1, <3>8, <3>9, <3>10, <3>11, Zenon DEF Laid
  <2>. QED
    BY <2>3, <2>6 DEF ContentInv
<1>. QED
  BY <1>10, <1>11, <1>12, <1>13 DEF IInv

(* Writing the answer touches only words of the message that is answered.     *)
LEMMA RespondFacts ==
    ASSUME TypeOK, ContentInv, ReceiverInv, RespondWord \/ RespondFlag
    PROVE  /\ wp' = wp /\ rp' = rp /\ pending' = pending /\ rmsg' = rmsg /\ rcnt' = rcnt
           /\ UNCHANGED <<intr, senderVars, rresp, rflag>>
           /\ Answering /\ Answering' /\ rpc' \in {"respond", "flag", "forward"}
           /\ \E x \in 0..(Len(rmsg) - 1), w \in Word :
                 x <= Top - 3 /\ cell' = [cell EXCEPT ![4 * Step(rp, x)] = w]
           /\ Len(rmsg) = Taken /\ Taken <= Used(wp, rp) /\ Taken \in Nat
<1>1. Answering /\ Len(rmsg) = Taken
  BY DEF RespondWord, RespondFlag, Answering, Taken
<1>2. PICK off : Laid(off)
  BY DEF ContentInv
<1>3. pending \in Seq(Ids) /\ Taken \in 0..Used(wp, rp) /\ Used(wp, rp) \in 0..(Top - 3) /\ Top \in Nat
  BY <1>2, LaidFacts, RingFacts DEF ContentInv
<1>4. /\ wp' = wp /\ rp' = rp /\ pending' = pending /\ rmsg' = rmsg /\ rcnt' = rcnt
      /\ UNCHANGED <<intr, senderVars, rresp, rflag>>
      /\ rpc' \in {"respond", "flag", "forward"} /\ Answering'
  BY DEF RespondWord, RespondFlag, Answering
<1>5. \E x \in 0..(Len(rmsg) - 1), w \in Word :
          x <= Top - 3 /\ cell' = [cell EXCEPT ![4 * Step(rp, x)] = w]
  <2>1. CASE RespondWord
    <3>1. ridx \in Nat /\ ridx < Len(rresp) /\ Len(rresp) <= Len(rmsg) /\ Len(rresp) \in Nat
      BY <2>1, LenProperties DEF RespondWord, ReceiverInv, TypeOK
    <3>2. ridx \in 0..(Len(rmsg) - 1) /\ ridx <= Top - 3 /\ ridx \in 0..(Top - 3)
      BY <1>1, <1>3, <3>1
    <3>3. ridx + 1 \in 1..Len(rresp)
      BY <3>1
    <3>4. rresp[ridx + 1] \in Word
      BY <3>3, ElementOfSeq DEF TypeOK
    <3>5. CellOf(rp, ridx) = 4 * Step(rp, ridx)
      BY <3>2, RingFacts
    <3>6. cell' = [cell EXCEPT ![4 * Step(rp, ridx)] = rresp[ridx + 1]]
      BY <2>1, <3>5 DEF RespondWord
    <3>. QED
      BY <3>2, <3>4, <3>6
  <2>2. CASE RespondFlag
    <3>1. Len(rmsg) >= 3
      <4>1. PICK i \in Ids, f \in Kinds : rmsg = Message(i, f)
        BY <1>1 DEF ReceiverInv
      <4>. QED
        BY <4>1, MessageFacts
    <3>2. 0 \in 0..(Len(rmsg) - 1) /\ 0 <= Top - 3 /\ 0 \in 0..(Top - 3)
      BY <1>1, <1>3, <3>1
    <3>3. Flag(rflag) \in Word
      BY DEF TypeOK, Flag, Word
    <3>4. CellOf(rp, 0) = 4 * Step(rp, 0)
      BY <3>2, RingFacts
    <3>5. cell' = [cell EXCEPT ![4 * Step(rp, 0)] = Flag(rflag)]
      BY <2>2, <3>4 DEF RespondFlag
    <3>. QED
      BY <3>2, <3>3, <3>5
  <2>. QED
    BY <2>1, <2>2
<1>6. Taken <= Used(wp, rp) /\ Taken \in Nat
  BY <1>3
<1>. QED
  BY <1>1, <1>4, <1>5, <1>6

LEMMA RespondStep == ASSUME IInv, RespondWord \/ RespondFlag PROVE IInv'
<1>1. TypeOK /\ ContentInv /\ ReceiverInv /\ SenderInv
  BY DEF IInv
<1>2. /\ wp' = wp /\ rp' = rp /\ pending' = pending /\ rmsg' = rmsg /\ rcnt' = rcnt
      /\ UNCHANGED <<intr, senderVars, rresp, rflag>>
      /\ Answering /\ Answering' /\ rpc' \in {"respond", "flag", "forward"}
      /\ Len(rmsg) = Taken /\ Taken <= Used(wp, rp) /\ Taken \in Nat
  BY <1>1, RespondFacts
<1>3. PICK x \in 0..(Len(rmsg) - 1), w \in Word :
          x <= Top - 3 /\ cell' = [cell EXCEPT ![4 * Step(rp, x)] = w]
  BY <1>1, RespondFacts
<1>4. Used(wp, rp) \in 0..(Top - 3) /\ Top \in Nat
  BY <1>1, RingFacts
<1>5. ContentInv'
  <2>1. Taken' = Taken
    BY <1>2 DEF Taken
  <2>2. ASSUME NEW y \in Taken..(Used(wp, rp) - 1)
        PROVE  cell'[4 * Step(rp, y)] = cell[4 * Step(rp, y)]
    <3>1. x \in 0..(Top - 3) /\ y \in 0..(Top - 3) /\ x # y
      BY <1>2, <1>3, <1>4
    <3>2. 4 * Step(rp, x) # 4 * Step(rp, y) /\ 4 * Step(rp, y) \in Cells
      BY <1>1, <3>1, RingFacts
    <3>. QED
      BY <1>1, <1>3, <3>2 DEF TypeOK
  <2>. QED
    BY <1>1, <1>2, <2>1, <2>2, ContentKept
<1>6. ridx' \in 0..Len(rresp') /\ (rpc' = "respond" => ridx' < Len(rresp') /\ Len(rresp') <= Len(rmsg'))
  <2>1. CASE RespondWord
    <3>1. /\ ridx \in Nat /\ Len(rresp) \in Nat /\ ridx < Len(rresp) /\ Len(rresp) <= Len(rmsg)
          /\ ridx' = ridx + 1 /\ rpc' = IF ridx + 1 = Len(rresp) THEN "flag" ELSE "respond"
      BY <1>1, <2>1, LenProperties DEF RespondWord, ReceiverInv, TypeOK
    <3>2. rresp' = rresp /\ rmsg' = rmsg
      BY <1>2
    <3>. QED
      BY <3>1, <3>2
  <2>2. CASE RespondFlag
    BY <1>1, <1>2, <2>2 DEF RespondFlag, TypeOK
  <2>. QED
    BY <2>1, <2>2
<1>7. TypeOK'
  <2>1. cell' \in [Cells -> Word]
    BY <1>1, <1>3 DEF TypeOK
  <2>. QED
    BY <1>1, <1>2, <1>6, <2>1 DEF TypeOK, senderVars
<1>8. ReceiverInv'
  <2>1. rcnt < MaxRxMsgs /\ \E i \in Ids, f \in Kinds : rmsg = Message(i, f)
    BY <1>1, <1>2 DEF ReceiverInv
  <2>2. rpc' # "handle"
    BY <1>2
  <2>. QED
    BY <1>2, <1>6, <2>1, <2>2 DEF ReceiverInv
<1>9. SenderInv'
  BY <1>1, <1>2 DEF SenderInv, senderVars
<1>. QED
  BY <1>5, <1>7, <1>8, <1>9 DEF IInv

LEMMA RecvForwardStep == ASSUME IInv, RecvForward PROVE IInv'
<1>1. TypeOK /\ ContentInv /\ ReceiverInv /\ SenderInv
  BY DEF IInv
<1>2. /\ rpc = "forward" /\ rpc' = "peek" /\ Answering /\ ~Answering'
      /\ rp' = IF ReadCheck(wp, rp, Bytes(rmsg)) THEN Forward(rp, Bytes(rmsg)) ELSE rp
      /\ rcnt' = rcnt + 1
      /\ rmsg' = << >> /\ ridx' = 0 /\ rresp' = << >> /\ rflag' = "none"
      /\ UNCHANGED <<wp, cell, intr, senderVars, pending, handled>>
  BY DEF RecvForward, Answering
<1>3. pending \in Seq(Ids) /\ \E off : Laid(off)
  BY <1>1 DEF ContentInv
<1>4. PICK off : Laid(off)
  BY <1>3
<1>. DEFINE N == Len(pending)
            u == Used(wp, rp)
            T == Taken
<1>5. /\ T = Len(rmsg) /\ T \in Nat /\ T <= u /\ u \in 0..(Top - 3) /\ Top \in Nat /\ u \in Nat
      /\ N \in Nat
      /\ \A k \in 1..(N + 1) : off[k] \in T..u
      /\ \A k \in 1..N : /\ Words(pending[k]) \in Nat /\ off[k] + Words(pending[k]) <= u
  BY <1>1, <1>2, <1>3, <1>4, LaidFacts, RingFacts DEF Taken
<1>6. /\ off \in [1..(N + 1) -> Nat] /\ off[1] = T /\ off[N + 1] = u
      /\ \A k \in 1..N : off[k + 1] = off[k] + Words(pending[k])
      /\ \A k, l \in 1..(N + 1) : k < l => off[k] + Words(pending[k]) <= off[l]
      /\ \A k \in 1..N : \E g \in Kinds : \A j \in 1..Words(pending[k]) :
            cell[4 * Step(rp, off[k] + j - 1)] = Message(pending[k], g)[j]
  BY <1>4 DEF Laid
<1>7. rp \in Pointers /\ wp \in Pointers
  BY <1>1 DEF TypeOK
<1>. HIDE DEF N, T
<1>8. rp' = Step(rp, T) /\ rp' \in Pointers
  <2>1. ReadCheck(wp, rp, EntSize * Len(rmsg))
    BY <1>5, <1>7, UsedFacts
  <2>2. T < Top - 2
    BY <1>5
  <2>3. rp' = Forward(rp, 4 * T)
    BY <1>2, <1>5, <2>1 DEF Bytes, EntSize
  <2>. QED
    BY <1>5, <1>7, <2>2, <2>3, ForwardIsStep
<1>9. Used(wp', rp') = u - T
  BY <1>2, <1>5, <1>7, <1>8, UsedAfterRead
<1>. HIDE DEF u
<1>10. TypeOK'
  <2>1. rcnt \in Nat /\ rcnt < MaxRxMsgs /\ rcnt' = rcnt + 1
    BY <1>1, <1>2 DEF ReceiverInv, TypeOK
  <2>2. rcnt' \in 0..MaxRxMsgs
    BY <2>1
  <2>3. /\ rmsg' \in Seq(Word) /\ rresp' \in Seq(Word) /\ rflag' \in Flags
        /\ ridx' \in 0..Len(rresp')
    BY <1>2 DEF Flags
  <2>. QED
    BY <1>1, <1>2, <1>8, <2>2, <2>3 DEF TypeOK, senderVars
<1>11. ReceiverInv' /\ SenderInv'
  BY <1>1, <1>2 DEF ReceiverInv, SenderInv, senderVars
<1>12. PICK new : new \in [1..(N + 1) -> Nat] /\ \A k \in 1..(N + 1) : new[k] = off[k] - T
  <2>. DEFINE rest == [k \in 1..(N + 1) |-> off[k] - T]
  <2>1. \A k \in 1..(N + 1) : off[k] - T \in Nat
    BY <1>5
  <2>2. rest \in [1..(N + 1) -> Nat] /\ \A k \in 1..(N + 1) : rest[k] = off[k] - T
    BY <2>1
  <2>. HIDE DEF rest
  <2>. QED
    BY <2>2
<1>13. Taken' = 0 /\ pending' = pending /\ cell' = cell /\ Len(pending') = N
  BY <1>2 DEF Taken, N
<1>14. new[1] = 0 /\ new[N + 1] = u - T
  <2>1. 1 \in 1..(N + 1) /\ N + 1 \in 1..(N + 1) /\ T \in Nat
    BY <1>5
  <2>2. new[1] = off[1] - T /\ new[N + 1] = off[N + 1] - T
    BY <1>12, <2>1
  <2>3. off[1] = T /\ off[N + 1] = u
    BY <1>6
  <2>. QED
    BY <2>1, <2>2, <2>3
<1>15. ASSUME NEW k \in 1..N PROVE new[k + 1] = new[k] + Words(pending[k])
  <2>1. k \in 1..(N + 1) /\ k + 1 \in 1..(N + 1)
    BY <1>5
  <2>2. /\ new[k] = off[k] - T /\ new[k + 1] = off[k + 1] - T
        /\ off[k] \in Nat /\ Words(pending[k]) \in Nat
    BY <1>5, <1>6, <1>12, <2>1
  <2>3. off[k + 1] = off[k] + Words(pending[k])
    BY <1>6
  <2>. QED
    BY <1>5, <2>2, <2>3
<1>16. ASSUME NEW k \in 1..(N + 1), NEW l \in 1..(N + 1), k < l
       PROVE  new[k] + Words(pending[k]) <= new[l]
  <2>1. k \in 1..N
    BY <1>5, <1>16
  <2>2. /\ new[k] = off[k] - T /\ new[l] = off[l] - T
        /\ off[k] \in Nat /\ off[l] \in Nat
    BY <1>5, <1>6, <1>12
  <2>3. off[k] + Words(pending[k]) <= off[l] /\ Words(pending[k]) \in Nat
    BY <1>5, <1>6, <1>16, <2>1
  <2>. QED
    BY <1>5, <2>2, <2>3
<1>17. ASSUME NEW k \in 1..N
       PROVE  \E f \in Kinds : \A j \in 1..Words(pending[k]) :
                  cell[4 * Step(rp', new[k] + j - 1)] = Message(pending[k], f)[j]
  <2>1. PICK f \in Kinds : \A j \in 1..Words(pending[k]) :
            cell[4 * Step(rp, off[k] + j - 1)] = Message(pending[k], f)[j]
    BY <1>6
  <2>2. ASSUME NEW j \in 1..Words(pending[k])
        PROVE  cell[4 * Step(rp', new[k] + j - 1)] = Message(pending[k], f)[j]
    <3>1. k \in 1..(N + 1)
      BY <1>5
    <3>2. /\ new[k] = off[k] - T /\ off[k] \in T..u /\ Words(pending[k]) \in Nat
          /\ off[k] + Words(pending[k]) <= u
      BY <1>5, <1>12, <3>1
    <3>3. /\ new[k] + j - 1 \in Nat /\ T + (new[k] + j - 1) < Top - 2
          /\ T + (new[k] + j - 1) = off[k] + j - 1
      BY <1>5, <3>2
    <3>4. Step(rp', new[k] + j - 1) = Step(rp, T + (new[k] + j - 1))
      BY <1>5, <1>7, <1>8, <3>3, StepStep
    <3>. QED
      BY <2>1, <3>3, <3>4
  <2>. QED
    BY <2>2
<1>18. Laid(new)'
  <2>1. new \in [1..(Len(pending') + 1) -> Nat]
    BY <1>12, <1>13
  <2>2. new[1] = Taken' /\ new[Len(pending') + 1] = Used(wp', rp')
    BY <1>9, <1>13, <1>14
  <2>3. \A k \in 1..Len(pending') : new[k + 1] = new[k] + Words(pending'[k])
    BY <1>13, <1>15
  <2>4. \A k, l \in 1..(Len(pending') + 1) : k < l => new[k] + Words(pending'[k]) <= new[l]
    BY <1>13, <1>16
  <2>5. \A k \in 1..Len(pending') : \E f \in Kinds : \A j \in 1..Words(pending'[k]) :
           cell'[4 * Step(rp', new[k] + j - 1)] = Message(pending'[k], f)[j]
    BY <1>13, <1>17, Zenon
  <2>. QED
    BY <2>1, <2>2, <2>3, <2>4, <2>5, Zenon DEF Laid
<1>19. ContentInv'
  BY <1>3, <1>13, <1>18 DEF ContentInv
<1>. QED
  BY <1>10, <1>11, <1>19 DEF IInv

-----------------------------------------------------------------------------
LEMMA NextInv == IInv /\ [Next]_vars => IInv'
<1>. SUFFICES ASSUME IInv, [Next]_vars PROVE IInv'
  OBVIOUS
<1>1. ASSUME NEW i \in Ids, NEW sync \in BOOLEAN, Send(i, sync) PROVE IInv'
  BY <1>1, SendStep
<1>2. CASE SenderStep
  BY <1>2, PollStep
<1>3. CASE RecvCall
  BY <1>3, RecvCallStep
<1>4. CASE RecvPeek
  BY <1>4, RecvPeekStep
<1>5. ASSUME NEW ret \in HandlerResults, RecvHandle(ret) PROVE IInv'
  BY <1>5, RecvHandleStep
<1>6. CASE RespondWord \/ RespondFlag
  BY <1>6, RespondStep
<1>7. CASE RecvForward
  BY <1>7, RecvForwardStep
<1>8. CASE UNCHANGED vars
  <2>1. TypeOK /\ ContentInv /\ ReceiverInv /\ SenderInv
    BY DEF IInv
  <2>2. /\ wp' = wp /\ rp' = rp /\ cell' = cell /\ pending' = pending
        /\ UNCHANGED <<intr, senderVars, recvVars>>
    BY <1>8 DEF vars, fifoVars
  <2>3. Taken' = Taken
    BY <2>2 DEF recvVars, Taken, Answering
  <2>4. ContentInv'
    BY <2>1, <2>2, <2>3, ContentKept
  <2>5. TypeOK'
    BY <2>1, <2>2 DEF TypeOK, senderVars, recvVars
  <2>6. ReceiverInv' /\ SenderInv'
    BY <2>1, <2>2 DEF ReceiverInv, SenderInv, Answering, senderVars, recvVars
  <2>. QED
    BY <2>4, <2>5, <2>6 DEF IInv
<1>. QED
  BY <1>1, <1>2, <1>3, <1>4, <1>5, <1>6, <1>7, <1>8 DEF Next, ReceiverStep

(* The invariant holds of every behaviour of the channel.                     *)
THEOREM Invariant == Spec => []IInv
<1>. QED
  BY InitInv, NextInv, PTL DEF Spec

(* m0ssq_mbox_process_recv_msgs hands every accepted message to the handler   *)
(* once, whole and in the order in which m0ssq_mbox_msg_send accepted them,   *)
(* for every ring, every length of messages and answers and any number of     *)
(* messages in the ring, although answers are written over messages.          *)
THEOREM HandledInOrderCorrect == Spec => []HandledInOrder
<1>1. IInv => HandledInOrder
  <2>. SUFFICES ASSUME IInv PROVE HandledInOrder
    OBVIOUS
  <2>1. TypeOK /\ ReceiverInv
    BY DEF IInv
  <2>2. rpc = "handle" => pending # << >> /\ \E f \in {"async", "resp_required"} : rmsg = Message(pending[1], f)
    BY <2>1 DEF ReceiverInv, Kinds
  <2>. QED
    BY <2>1, <2>2 DEF HandledInOrder
<1>. QED
  BY <1>1, Invariant, PTL

(* A step of the sender writes only words that the ring does not hold, and a  *)
(* step of the receiver only words of the message it is answering: neither    *)
(* core ever writes a word that belongs to the other, and a late answer does  *)
(* not reach a later message.                                                 *)
THEOREM OwnWordsCorrect == Spec => OwnWords
<1>. DEFINE Own == \A c \in Cells : cell'[c] # cell[c] =>
                       IF wp' # wp THEN c \notin Held
                       ELSE c \in {CellOf(rp, k) : k \in 0..(Len(rmsg) - 1)}
<1>1. IInv /\ [Next]_vars => [Own]_vars
  <2>. SUFFICES ASSUME IInv, [Next]_vars PROVE Own
    OBVIOUS
  <2>1. TypeOK /\ ContentInv /\ ReceiverInv
    BY DEF IInv
  <2>2. ASSUME NEW i \in Ids, NEW sync \in BOOLEAN, Send(i, sync) PROVE Own
    <3>. DEFINE u == Used(wp, rp)
                n == Words(i)
    <3>1. /\ n \in Nat /\ n >= 3 /\ u + n <= Top - 4 /\ wp' # wp /\ u \in 0..(Top - 3) /\ Top \in Nat
          /\ \A c \in Cells : cell'[c] # cell[c] => \E x \in u..(u + n - 1) : c = 4 * Step(rp, x)
      BY <2>1, <2>2, SendFacts, RingFacts
    <3>2. Held = {CellOf(rp, k) : k \in 0..(u - 1)}
      BY <2>1, UsedFacts DEF Held, TypeOK
    <3>. HIDE DEF u, n
    <3>3. ASSUME NEW c \in Cells, cell'[c] # cell[c] PROVE c \notin Held
      <4>1. PICK x \in u..(u + n - 1) : c = 4 * Step(rp, x)
        BY <3>1, <3>3
      <4>2. ASSUME NEW k \in 0..(u - 1) PROVE CellOf(rp, k) # c
        <5>1. k \in 0..(Top - 3) /\ x \in 0..(Top - 3) /\ k # x
          BY <3>1, <4>1
        <5>2. CellOf(rp, k) = 4 * Step(rp, k) /\ 4 * Step(rp, k) # 4 * Step(rp, x)
          BY <2>1, <5>1, RingFacts
        <5>. QED
          BY <4>1, <5>2
      <4>. QED
        BY <3>2, <4>2
    <3>. QED
      BY <3>1, <3>3
  <2>3. CASE RespondWord \/ RespondFlag
    <3>1. wp' = wp
      BY <2>1, <2>3, RespondFacts
    <3>2. PICK x \in 0..(Len(rmsg) - 1), w \in Word :
              x <= Top - 3 /\ cell' = [cell EXCEPT ![4 * Step(rp, x)] = w]
      BY <2>1, <2>3, RespondFacts
    <3>3. CellOf(rp, x) = 4 * Step(rp, x)
      <4>1. Len(rmsg) \in Nat /\ Top \in Nat
        BY <2>1, LenProperties, RingFacts DEF TypeOK
      <4>2. x \in 0..(Top - 3)
        BY <3>2, <4>1
      <4>. QED
        BY <2>1, <4>2, RingFacts
    <3>4. ASSUME NEW c \in Cells, cell'[c] # cell[c] PROVE c = CellOf(rp, x)
      BY <2>1, <3>2, <3>3, <3>4 DEF TypeOK
    <3>. QED
      BY <3>1, <3>4
  <2>4. ASSUME cell' = cell PROVE Own
    BY <2>4
  <2>5. CASE SenderStep
    BY <2>4, <2>5 DEF SenderStep, PollWord, PollReady, PollNotReady, fifoVars
  <2>6. ASSUME NEW ret \in HandlerResults, RecvHandle(ret) PROVE Own
    BY <2>4, <2>6 DEF RecvHandle, fifoVars
  <2>7. CASE RecvCall \/ RecvPeek \/ RecvForward \/ UNCHANGED vars
    BY <2>4, <2>7 DEF RecvCall, RecvPeek, RecvForward, fifoVars, vars
  <2>. QED
    BY <2>2, <2>3, <2>5, <2>6, <2>7 DEF Next, ReceiverStep
<1>. QED
  BY <1>1, Invariant, PTL DEF Spec, OwnWords

-----------------------------------------------------------------------------
(* What a synchronous sender polls: its message lies in the ring until it is  *)
(* answered, and its words stay where they are as long as the sender waits,   *)
(* since nobody else sends.                                                   *)

(* The answer to a synchronous message as it is once its flags are written.   *)
Answer(m) == Response(m, handled.ret)[1]
Final(m, j) == IF j = 1 THEN Flag(Response(m, handled.ret)[2]) ELSE Answer(m)[j]

(* The j-th word the sender polls.                                            *)
Polled(j) == cell[4 * Step(swp, j - 1)]

(* Its message waits as the last one, is being answered, or is answered.      *)
Waiting(i) ==
    /\ pending # << >> /\ pending[Len(pending)] = i
    /\ swp = Step(rp, Used(wp, rp) - Words(i))
    /\ \A j \in 1..Words(i) : Polled(j) = smsg[j]

InAnswer(i) ==
    /\ pending = << >> /\ rpc \in {"respond", "flag"}
    /\ swp = rp /\ rmsg = smsg
    /\ handled.id = i /\ handled.ret \in HandlerResults
    /\ rresp = Answer(smsg) /\ rflag = Response(smsg, handled.ret)[2]
    /\ Polled(1) = Flag("resp_required")
    /\ \A j \in 1..Len(rresp) : rpc = "flag" \/ j <= ridx => Polled(j) = rresp[j]

Answered(i) ==
    /\ pending = << >> /\ rpc \in {"forward", "peek", "idle", "nomem"}
    /\ handled.id = i /\ handled.ret \in HandlerResults
    /\ \A j \in 1..Len(Answer(smsg)) : Polled(j) = Final(smsg, j)

(* What the sender has read is part of the answer if its flags are not those  *)
(* of the message.                                                            *)
ReadInv(i) ==
    /\ Len(sbuf) <= Len(smsg)
    /\ sbuf # << >> /\ sbuf[1] # Flag("resp_required") =>
          /\ Answered(i)
          /\ \A j \in 1..Len(sbuf) : j <= Len(Answer(smsg)) => sbuf[j] = Final(smsg, j)

SyncInv ==
    /\ rpc = "handle" => rmsg[1] = cell[4 * Step(rp, 0)]
    /\ spc = "idle" => sbuf = << >>
    /\ spc = "poll" =>
          \E i \in Ids : /\ smsg = Message(i, "resp_required")
                         /\ Waiting(i) \/ InAnswer(i) \/ Answered(i)
                         /\ ReadInv(i)

(* A step of the receiver takes the message further, and never back.          *)
Moves(i) ==
    /\ Waiting(i) => (Waiting(i) \/ InAnswer(i))'
    /\ InAnswer(i) => (InAnswer(i) \/ Answered(i))'
    /\ Answered(i) => Answered(i)' /\ handled' = handled

LEMMA LastMessage ==
    ASSUME TypeOK, ContentInv, pending # << >>
    PROVE  LET i == pending[Len(pending)]
           IN  /\ Len(pending) \in Nat /\ Len(pending) >= 1
               /\ i \in Ids /\ Words(i) \in Nat /\ Words(i) >= 3
               /\ Taken \in Nat /\ Taken + Words(i) <= Used(wp, rp)
               /\ Len(pending) = 1 => Used(wp, rp) = Taken + Words(i)
<1>. DEFINE N == Len(pending)
<1>1. pending \in Seq(Ids) /\ \E off : Laid(off)
  BY DEF ContentInv
<1>2. PICK off : Laid(off)
  BY <1>1
<1>3. N \in Nat /\ N # 0
  BY <1>1, EmptySeq, LenProperties
<1>4. /\ Taken \in Nat
      /\ \A k \in 1..(N + 1) : off[k] \in Taken..Used(wp, rp)
      /\ \A k \in 1..N : pending[k] \in Ids /\ Words(pending[k]) \in Nat /\ Words(pending[k]) >= 3
  BY <1>1, <1>2, LaidFacts, RingFacts
<1>5. /\ off[1] = Taken /\ off[N + 1] = Used(wp, rp)
      /\ \A k \in 1..N : off[k + 1] = off[k] + Words(pending[k])
  BY <1>2 DEF Laid
<1>6. Used(wp, rp) \in Nat
  BY RingFacts
<1>. HIDE DEF N
<1>7. N \in 1..N /\ N \in 1..(N + 1)
  BY <1>3
<1>8. /\ pending[N] \in Ids /\ Words(pending[N]) \in Nat /\ Words(pending[N]) >= 3
      /\ off[N] \in Taken..Used(wp, rp) /\ Used(wp, rp) = off[N] + Words(pending[N])
  BY <1>4, <1>5, <1>7
<1>9. Taken + Words(pending[N]) <= Used(wp, rp)
  BY <1>4, <1>6, <1>8
<1>10. N = 1 => Used(wp, rp) = Taken + Words(pending[N])
  BY <1>5, <1>8
<1>. QED
  BY <1>3, <1>4, <1>8, <1>9, <1>10 DEF N

(* The words of a waiting message, seen from the read pointer.                *)
LEMMA WaitingPlace ==
    ASSUME TypeOK, ContentInv, NEW i \in Ids, Waiting(i)
    PROVE  LET d == Used(wp, rp) - Words(i)
           IN  /\ Words(i) \in Nat /\ Words(i) >= 3 /\ Used(wp, rp) \in 0..(Top - 3)
               /\ Taken \in Nat /\ Taken <= d /\ d \in Nat /\ Top \in Nat
               /\ swp = Step(rp, d)
               /\ \A j \in 1..Words(i) :
                     /\ Step(swp, j - 1) = Step(rp, d + (j - 1))
                     /\ d + (j - 1) \in Taken..(Used(wp, rp) - 1)
<1>. DEFINE d == Used(wp, rp) - Words(i)
            n == Words(i)
            u == Used(wp, rp)
<1>1. /\ n \in Nat /\ n >= 3 /\ Taken \in Nat /\ Taken + n <= u
      /\ u \in 0..(Top - 3) /\ Top \in Nat /\ rp \in Pointers
      /\ swp = Step(rp, d)
  BY LastMessage, RingFacts DEF Waiting, TypeOK
<1>. HIDE DEF n, u
<1>2. d \in Nat /\ Taken <= d /\ d + n = u
  BY <1>1 DEF n, u
<1>. HIDE DEF d
<1>3. ASSUME NEW j \in 1..n
      PROVE  /\ Step(swp, j - 1) = Step(rp, d + (j - 1))
             /\ d + (j - 1) \in Taken..(u - 1)
  <2>1. j - 1 \in Nat /\ d + (j - 1) < Top - 2 /\ d + (j - 1) \in Taken..(u - 1)
    BY <1>1, <1>2
  <2>. QED
    BY <1>1, <1>2, <2>1, StepStep
<1>. QED
  BY <1>1, <1>2, <1>3 DEF d, n, u

(* A waiting message is left alone by a step that writes words of the message *)
(* that is being answered, and by none at all.                                *)
LEMMA WaitingKept ==
    ASSUME TypeOK, ContentInv, NEW i \in Ids, Waiting(i),
           pending' # << >>, pending'[Len(pending')] = i,
           wp' = wp, rp' = rp, swp' = swp, smsg' = smsg,
           \A x \in Taken..(Used(wp, rp) - 1) : cell'[4 * Step(rp, x)] = cell[4 * Step(rp, x)]
    PROVE  Waiting(i)'
<1>1. ASSUME NEW j \in 1..Words(i) PROVE cell'[4 * Step(swp, j - 1)] = smsg[j]
  <2>. DEFINE x == Used(wp, rp) - Words(i) + (j - 1)
  <2>1. Step(swp, j - 1) = Step(rp, x) /\ x \in Taken..(Used(wp, rp) - 1)
    BY WaitingPlace
  <2>2. cell[4 * Step(swp, j - 1)] = smsg[j]
    BY DEF Waiting, Polled
  <2>. HIDE DEF x
  <2>3. cell'[4 * Step(rp, x)] = cell[4 * Step(rp, x)]
    BY <2>1
  <2>. QED
    BY <2>1, <2>2, <2>3
<1>2. swp' = Step(rp', Used(wp', rp') - Words(i))
  BY DEF Waiting
<1>3. \A j \in 1..Words(i) : Polled(j)' = smsg'[j]
  BY <1>1 DEF Polled
<1>. QED
  BY <1>2, <1>3 DEF Waiting

LEMMA ReceiverSync ==
    ASSUME SyncInv, UNCHANGED senderVars,
           rpc' = "handle" => rmsg'[1] = cell'[4 * Step(rp', 0)],
           \A i \in Ids : spc = "poll" /\ smsg = Message(i, "resp_required") => Moves(i)
    PROVE  SyncInv'
<1>1. spc' = spc /\ smsg' = smsg /\ swp' = swp /\ sbuf' = sbuf
  BY DEF senderVars
<1>2. ASSUME spc' = "poll"
      PROVE  \E i \in Ids : /\ smsg' = Message(i, "resp_required")
                            /\ (Waiting(i) \/ InAnswer(i) \/ Answered(i))'
                            /\ ReadInv(i)'
  <2>1. PICK i \in Ids : /\ smsg = Message(i, "resp_required")
                         /\ Waiting(i) \/ InAnswer(i) \/ Answered(i)
                         /\ ReadInv(i)
    BY <1>1, <1>2 DEF SyncInv
  <2>2. Moves(i)
    BY <1>1, <1>2, <2>1
  <2>3. (Waiting(i) \/ InAnswer(i) \/ Answered(i))'
    BY <2>1, <2>2 DEF Moves
  <2>4. ReadInv(i)'
    <3>1. CASE sbuf = << >> \/ sbuf[1] = Flag("resp_required")
      BY <1>1, <2>1, <3>1 DEF ReadInv
    <3>2. CASE ~(sbuf = << >> \/ sbuf[1] = Flag("resp_required"))
      <4>1. Answered(i) /\ \A j \in 1..Len(sbuf) : j <= Len(Answer(smsg)) => sbuf[j] = Final(smsg, j)
        BY <2>1, <3>2 DEF ReadInv
      <4>2. Answered(i)' /\ handled' = handled
        BY <2>2, <4>1 DEF Moves
      <4>3. Answer(smsg)' = Answer(smsg) /\ \A j : Final(smsg, j)' = Final(smsg, j)
        BY <1>1, <4>2 DEF Answer, Final
      <4>4. Len(sbuf) <= Len(smsg)
        BY <2>1 DEF ReadInv
      <4>. QED
        BY <1>1, <4>1, <4>2, <4>3, <4>4 DEF ReadInv
    <3>. QED
      BY <3>1, <3>2
  <2>. QED
    BY <1>1, <2>1, <2>3, <2>4
<1>3. spc' = "idle" => sbuf' = << >>
  BY <1>1 DEF SyncInv
<1>. QED
  BY <1>2, <1>3 DEF SyncInv

LEMMA SendSync ==
    ASSUME IInv, SyncInv, NEW i \in Ids, NEW sync \in BOOLEAN, Send(i, sync)
    PROVE  SyncInv'
<1>1. TypeOK /\ ContentInv /\ ReceiverInv
  BY DEF IInv
<1>. DEFINE u == Used(wp, rp)
            n == Words(i)
            msg == Message(i, Kind(sync))
<1>2. /\ n \in Nat /\ n >= 3 /\ rp' = rp /\ Used(wp', rp') = u + n
      /\ \A x \in 0..(u - 1) : cell'[4 * Step(rp, x)] = cell[4 * Step(rp, x)]
      /\ \A j \in 1..n : cell'[4 * Step(rp, u + j - 1)] = msg[j]
      /\ UNCHANGED recvVars /\ pending' = Append(pending, i)
      /\ u + n <= Top - 4
  BY <1>1, SendFacts
<1>3. u \in 0..(Top - 3) /\ Top \in Nat /\ Step(rp, u) = wp /\ rp \in Pointers
  BY <1>1, RingFacts DEF TypeOK
<1>4. /\ spc = "idle" /\ sbuf' = sbuf
      /\ IF sync THEN spc' = "poll" /\ smsg' = msg /\ swp' = wp ELSE UNCHANGED <<spc, smsg, swp>>
  BY DEF Send, Kind
<1>. HIDE DEF u, n, msg
<1>5. rpc' = "handle" => rmsg'[1] = cell'[4 * Step(rp', 0)]
  <2>. SUFFICES ASSUME rpc' = "handle" PROVE rmsg'[1] = cell'[4 * Step(rp', 0)]
    OBVIOUS
  <2>1. rpc = "handle" /\ rmsg' = rmsg
    BY <1>2 DEF recvVars
  <2>2. pending # << >>
    BY <1>1, <2>1 DEF ReceiverInv
  <2>3. u >= 3
    BY <1>1, <1>3, <2>2, LastMessage DEF u
  <2>4. 0 \in 0..(u - 1)
    BY <1>3, <2>3
  <2>5. cell'[4 * Step(rp, 0)] = cell[4 * Step(rp, 0)]
    BY <1>2, <2>4
  <2>. QED
    BY <1>2, <2>1, <2>5 DEF SyncInv
<1>6. sbuf' = << >>
  BY <1>4 DEF SyncInv
<1>7. CASE sync
  <2>1. msg = Message(i, "resp_required")
    BY <1>7 DEF msg, Kind
  <2>2. pending' # << >> /\ pending'[Len(pending')] = i
    <3>1. pending \in Seq(Ids)
      BY <1>1 DEF ContentInv
    <3>2. /\ pending' \in Seq(Ids) /\ Len(pending') = Len(pending) + 1 /\ Len(pending) \in Nat
          /\ pending'[Len(pending) + 1] = i
      BY <1>2, <3>1, AppendProperties, LenProperties
    <3>. QED
      BY <3>2, EmptySeq
  <2>3. swp' = Step(rp', Used(wp', rp') - Words(i))
    <3>1. u + n - n = u
      BY <1>2, <1>3
    <3>. QED
      BY <1>2, <1>3, <1>4, <1>7, <3>1 DEF n
  <2>4. ASSUME NEW j \in 1..Words(i) PROVE cell'[4 * Step(wp, j - 1)] = msg[j]
    <3>1. j \in 1..n /\ j - 1 \in Nat /\ u + (j - 1) < Top - 2 /\ u \in Nat
      BY <1>2, <1>3 DEF n
    <3>2. Step(wp, j - 1) = Step(rp, u + (j - 1))
      BY <1>3, <3>1, StepStep
    <3>3. u + (j - 1) = u + j - 1
      BY <3>1
    <3>4. cell'[4 * Step(rp, u + j - 1)] = msg[j]
      BY <1>2, <3>1
    <3>. QED
      BY <3>2, <3>3, <3>4
  <2>5. Waiting(i)'
    BY <1>4, <1>7, <2>2, <2>3, <2>4 DEF Waiting, Polled
  <2>6. ReadInv(i)'
    <3>1. Len(<< >>) = 0 /\ Len(smsg') \in Nat
      <4>1. msg \in Seq(Word)
        BY <2>1, MessageFacts DEF Kinds
      <4>. QED
        BY <1>4, <1>7, <4>1, LenProperties
    <3>. QED
      BY <1>6, <3>1 DEF ReadInv
  <2>. QED
    BY <1>4, <1>5, <1>7, <2>1, <2>5, <2>6 DEF SyncInv
<1>8. CASE ~sync
  BY <1>4, <1>5, <1>6, <1>8 DEF SyncInv
<1>. QED
  BY <1>7, <1>8

(* What a message looks like to its sender until its flags are written.       *)
LEMMA FirstPolled ==
    ASSUME TypeOK, ContentInv, NEW i \in Ids, smsg = Message(i, "resp_required"),
           Waiting(i) \/ InAnswer(i) \/ Answered(i), Polled(1) # Flag("resp_required")
    PROVE  Answered(i)
<1>1. smsg[1] = Flag("resp_required") /\ Words(i) \in Nat /\ Words(i) >= 3
  BY MessageFacts DEF Kinds
<1>2. ~Waiting(i)
  <2>1. 1 \in 1..Words(i)
    BY <1>1
  <2>. QED
    BY <1>1, <2>1 DEF Waiting
<1>. QED
  BY <1>2 DEF InAnswer

LEMMA PollWordSync ==
    ASSUME IInv, SyncInv, PollWord
    PROVE  SyncInv'
<1>1. TypeOK /\ ContentInv /\ SenderInv
  BY DEF IInv
<1>2. /\ spc = "poll" /\ Len(sbuf) < Len(smsg)
      /\ sbuf' = Append(sbuf, cell[CellOf(swp, Len(sbuf))])
      /\ UNCHANGED <<fifoVars, intr, spc, smsg, swp, sret, recvVars, pending, handled>>
  BY DEF PollWord
<1>3. PICK i \in Ids : /\ smsg = Message(i, "resp_required")
                       /\ Waiting(i) \/ InAnswer(i) \/ Answered(i)
                       /\ ReadInv(i)
  BY <1>2 DEF SyncInv
<1>. DEFINE l == Len(sbuf)
            w == cell[CellOf(swp, l)]
<1>4. l \in Nat /\ Len(smsg) \in Nat /\ Top \in Nat /\ l < Top - 2
  <2>1. l \in Nat /\ Len(smsg) \in Nat /\ Top \in Nat
    BY <1>1, LenProperties, RingFacts DEF TypeOK
  <2>2. l < Len(smsg) /\ Len(smsg) < Top - 2
    BY <1>1, <1>2 DEF SenderInv
  <2>. QED
    BY <2>1, <2>2
<1>5. w = Polled(l + 1)
  <2>1. CellOf(swp, l) = 4 * Step(swp, l)
    BY <1>1, <1>4, CellAtIsStep DEF CellOf, TypeOK
  <2>2. l + 1 - 1 = l
    BY <1>4
  <2>. QED
    BY <2>1, <2>2 DEF Polled
<1>6. /\ sbuf' = Append(sbuf, w) /\ Len(sbuf') = l + 1
      /\ \A j \in 1..l : sbuf'[j] = sbuf[j]
      /\ sbuf'[l + 1] = w
  <2>1. sbuf \in Seq(Word) /\ sbuf' = Append(sbuf, w)
    BY <1>1, <1>2 DEF TypeOK
  <2>2. w \in Word
    <3>1. l \in 0..(Top - 3)
      BY <1>4
    <3>2. CellOf(swp, l) \in Cells
      BY <1>1, <3>1, RingFacts
    <3>. QED
      BY <1>1, <3>2 DEF TypeOK
  <2>. HIDE DEF w, l
  <2>. QED
    BY <2>1, <2>2, AppendProperties DEF l
<1>. HIDE DEF w
<1>7. /\ (Waiting(i) <=> Waiting(i)') /\ (InAnswer(i) <=> InAnswer(i)')
      /\ (Answered(i) <=> Answered(i)')
      /\ Answer(smsg)' = Answer(smsg) /\ \A j : Final(smsg, j)' = Final(smsg, j)
  BY <1>2 DEF Waiting, InAnswer, Answered, Answer, Final, Polled, fifoVars, recvVars
<1>8. ReadInv(i)'
  <2>1. Len(sbuf') <= Len(smsg')
    BY <1>2, <1>4, <1>6
  <2>2. ASSUME sbuf'[1] # Flag("resp_required")
        PROVE  /\ Answered(i)
               /\ \A j \in 1..Len(sbuf') : j <= Len(Answer(smsg)) => sbuf'[j] = Final(smsg, j)
    <3>1. Answered(i) /\ \A j \in 1..l : j <= Len(Answer(smsg)) => sbuf[j] = Final(smsg, j)
      <4>1. CASE l = 0
        <5>1. w = Polled(1) /\ sbuf'[1] = w
          BY <1>5, <1>6, <4>1
        <5>2. Answered(i)
          BY <1>1, <1>3, <2>2, <5>1, FirstPolled
        <5>. QED
          BY <4>1, <5>2
      <4>2. CASE l # 0
        <5>1. 1 \in 1..l /\ sbuf # << >>
          BY <1>4, <4>2 DEF l
        <5>2. sbuf[1] # Flag("resp_required")
          BY <1>6, <2>2, <5>1
        <5>. QED
          BY <1>3, <5>1, <5>2 DEF ReadInv, l
      <4>. QED
        BY <4>1, <4>2
    <3>2. ASSUME NEW j \in 1..(l + 1), j <= Len(Answer(smsg))
          PROVE  sbuf'[j] = Final(smsg, j)
      <4>1. CASE j = l + 1
        <5>1. Len(Answer(smsg)) \in Nat /\ j \in 1..Len(Answer(smsg))
          <6>1. Len(Answer(smsg)) \in 3..Words(i) /\ Words(i) \in Nat
            BY <1>3, <3>1, ResponseFacts, MessageFacts DEF Answered, Answer, Kinds
          <6>. QED
            BY <3>2, <6>1
        <5>2. Polled(j) = Final(smsg, j)
          BY <3>1, <5>1 DEF Answered
        <5>. QED
          BY <1>5, <1>6, <4>1, <5>2
      <4>2. CASE j # l + 1
        <5>1. j \in 1..l
          BY <1>4, <4>2
        <5>. QED
          BY <1>6, <3>1, <3>2, <5>1
      <4>. QED
        BY <4>1, <4>2
    <3>. QED
      BY <1>6, <3>1, <3>2
  <2>. QED
    BY <1>2, <1>7, <2>1, <2>2 DEF ReadInv
<1>9. smsg' = smsg /\ spc' = spc /\ rpc' = rpc /\ rmsg' = rmsg /\ cell' = cell /\ rp' = rp
  BY <1>2 DEF fifoVars, recvVars
<1>10. rpc' = "handle" => rmsg'[1] = cell'[4 * Step(rp', 0)]
  BY <1>9 DEF SyncInv
<1>. QED
  BY <1>2, <1>3, <1>7, <1>8, <1>9, <1>10 DEF SyncInv

LEMMA PollSync ==
    ASSUME IInv, SyncInv, SenderStep
    PROVE  SyncInv'
<1>1. CASE PollWord
  BY <1>1, PollWordSync
<1>2. CASE PollReady \/ (PollNotReady /\ spc' = "idle")
  <2>1. /\ spc' = "idle" /\ sbuf' = << >>
        /\ UNCHANGED <<fifoVars, recvVars, pending, handled>>
    BY <1>2 DEF PollReady, PollNotReady, SendReturn, IInv, SenderInv
  <2>2. rpc' = "handle" => rmsg'[1] = cell'[4 * Step(rp', 0)]
    BY <2>1 DEF SyncInv, fifoVars, recvVars
  <2>. QED
    BY <2>1, <2>2 DEF SyncInv
<1>3. CASE PollNotReady /\ spc' # "idle"
  <2>1. /\ spc = "poll" /\ sbuf' = << >>
        /\ UNCHANGED <<fifoVars, spc, smsg, swp, recvVars, pending, handled>>
    BY <1>3 DEF PollNotReady, SendReturn
  <2>2. PICK i \in Ids : /\ smsg = Message(i, "resp_required")
                         /\ Waiting(i) \/ InAnswer(i) \/ Answered(i)
    BY <2>1 DEF SyncInv
  <2>3. (Waiting(i) \/ InAnswer(i) \/ Answered(i))'
    BY <2>1, <2>2 DEF Waiting, InAnswer, Answered, Answer, Final, Polled, fifoVars, recvVars
  <2>4. ReadInv(i)'
    <3>1. Len(<< >>) = 0 /\ Len(smsg') \in Nat
      BY <2>1, LenProperties DEF IInv, TypeOK
    <3>. QED
      BY <2>1, <3>1 DEF ReadInv
  <2>5. rpc' = "handle" => rmsg'[1] = cell'[4 * Step(rp', 0)]
    BY <2>1 DEF SyncInv, fifoVars, recvVars
  <2>. QED
    BY <2>1, <2>2, <2>3, <2>4, <2>5 DEF SyncInv
<1>. QED
  BY <1>1, <1>2, <1>3 DEF SenderStep

LEMMA RecvCallSync == ASSUME IInv, SyncInv, RecvCall PROVE SyncInv'
<1>1. /\ rpc \in {"idle", "nomem"} /\ rpc' \in {"peek", "nomem"}
      /\ UNCHANGED <<fifoVars, senderVars, rmsg, rresp, ridx, rflag, pending, handled>>
  BY DEF RecvCall
<1>2. \A i \in Ids : Moves(i)
  BY <1>1 DEF Moves, Waiting, InAnswer, Answered, Answer, Final, Polled, fifoVars, senderVars
<1>3. UNCHANGED senderVars /\ rpc' # "handle"
  BY <1>1
<1>. QED
  BY <1>2, <1>3, ReceiverSync

LEMMA RecvPeekSync == ASSUME IInv, IInv', SyncInv, RecvPeek PROVE SyncInv'
<1>1. TypeOK /\ ContentInv /\ ReceiverInv'
  BY DEF IInv
<1>2. /\ rpc = "peek" /\ rpc' \in {"idle", "handle"}
      /\ UNCHANGED <<fifoVars, intr, senderVars, rresp, ridx, rflag, pending, handled>>
  BY DEF RecvPeek
<1>3. ASSUME rpc' = "handle" PROVE rmsg'[1] = cell'[4 * Step(rp', 0)]
  <2>. DEFINE n == cell[CellOf(rp, 2)][2]
  <2>1. rmsg' = [k \in 1..(HdrWords + n) |-> cell[CellOf(rp, k - 1)]]
    BY <1>3 DEF RecvPeek
  <2>2. pending # << >> /\ \E f \in Kinds : rmsg' = Message(pending[1], f)
    BY <1>1, <1>2, <1>3 DEF ReceiverInv
  <2>3. pending[1] \in Ids
    <3>1. 1 \in 1..Len(pending) /\ pending \in Seq(Ids)
      BY <1>1, <2>2, LastMessage DEF ContentInv
    <3>. QED
      BY <3>1, ElementOfSeq
  <2>4. rmsg' \in Seq(Word) /\ Len(rmsg') \in Nat /\ Len(rmsg') >= 3
    BY <2>2, <2>3, MessageFacts
  <2>5. DOMAIN rmsg' = 1..Len(rmsg')
    BY <2>4
  <2>. HIDE DEF n
  <2>6. DOMAIN rmsg' = 1..(HdrWords + n)
    BY <2>1
  <2>7. 1 \in 1..(HdrWords + n)
    <3>1. 1 \in DOMAIN rmsg'
      BY <2>4, <2>5
    <3>. QED
      BY <2>6, <3>1, Zenon
  <2>8. rmsg'[1] = cell[CellOf(rp, 1 - 1)]
    BY <2>1, <2>7
  <2>9. CellOf(rp, 0) = 4 * Step(rp, 0) /\ 1 - 1 = 0
    BY <1>1, RingFacts
  <2>. QED
    BY <1>2, <2>8, <2>9 DEF fifoVars
<1>4. ASSUME NEW i \in Ids PROVE Moves(i)
  <2>1. Waiting(i) => Waiting(i)'
    BY <1>2 DEF Waiting, Polled, fifoVars, senderVars
  <2>2. ~InAnswer(i)
    BY <1>2 DEF InAnswer
  <2>3. Answered(i) => Answered(i)'
    <3>. SUFFICES ASSUME Answered(i) PROVE Answered(i)'
      OBVIOUS
    <3>1. rpc' # "handle"
      BY <1>1, <1>2 DEF Answered, ReceiverInv
    <3>. QED
      BY <1>2, <3>1 DEF Answered, Answer, Final, Polled, fifoVars, senderVars
  <2>. QED
    BY <1>2, <2>1, <2>2, <2>3 DEF Moves
<1>5. UNCHANGED senderVars
  BY <1>2
<1>. QED
  BY <1>3, <1>4, <1>5, ReceiverSync

LEMMA RecvHandleSync ==
    ASSUME IInv, SyncInv, NEW ret \in HandlerResults, RecvHandle(ret)
    PROVE  SyncInv'
<1>1. TypeOK /\ ContentInv /\ ReceiverInv
  BY DEF IInv
<1>2. /\ rpc = "handle" /\ handled' = [id |-> rmsg[2][2], ret |-> ret]
      /\ pending' = IF pending = << >> THEN << >> ELSE Tail(pending)
      /\ IF rmsg[1] = Flag("resp_required")
         THEN /\ rresp' = Response(rmsg, ret)[1] /\ rflag' = Response(rmsg, ret)[2]
              /\ rpc' = "respond"
         ELSE rpc' = "forward" /\ UNCHANGED <<rresp, rflag>>
      /\ ridx' = 0
      /\ UNCHANGED <<fifoVars, intr, senderVars, rmsg, rcnt>>
  BY DEF RecvHandle
<1>3. /\ pending # << >> /\ pending \in Seq(Ids)
      /\ Len(pending) \in Nat /\ Len(pending) >= 1
      /\ Tail(pending) \in Seq(Ids) /\ Len(Tail(pending)) = Len(pending) - 1
      /\ \A k \in 1..Len(Tail(pending)) : Tail(pending)[k] = pending[k + 1]
      /\ pending' = Tail(pending)
  <2>1. pending # << >> /\ pending \in Seq(Ids)
    BY <1>1, <1>2 DEF ReceiverInv, ContentInv
  <2>. QED
    BY <1>1, <1>2, <2>1, LastMessage, HeadTailProperties
<1>4. ASSUME NEW i \in Ids, smsg = Message(i, "resp_required"), Waiting(i)
      PROVE  (Waiting(i) \/ InAnswer(i))'
  <2>1. CASE Len(pending) > 1
    <3>. DEFINE N == Len(pending)
    <3>1. pending' # << >>
      <4>1. Len(pending') = Len(pending) - 1 /\ Len(pending) \in Nat /\ Len(<< >>) = 0
        BY <1>3
      <4>2. Len(pending') # Len(<< >>)
        BY <2>1, <4>1
      <4>. QED
        BY <4>2
    <3>2. pending'[Len(pending')] = pending[Len(pending)]
      <4>1. N - 1 \in 1..Len(Tail(pending)) /\ N - 1 + 1 = N /\ Len(pending') = N - 1
        BY <1>3, <2>1
      <4>2. Tail(pending)[N - 1] = pending[N - 1 + 1]
        BY <1>3, <4>1
      <4>. QED
        BY <1>3, <4>1, <4>2
    <3>3. pending[Len(pending)] = i
      BY <1>4 DEF Waiting
    <3>. QED
      BY <1>1, <1>2, <1>4, <3>1, <3>2, <3>3, WaitingKept DEF fifoVars, senderVars
  <2>2. CASE ~(Len(pending) > 1)
    <3>1. Len(pending) = 1
      BY <1>3, <2>2
    <3>2. pending[1] = i /\ pending' = << >>
      <4>1. Len(Tail(pending)) = 0
        BY <1>3, <3>1
      <4>. QED
        BY <1>3, <1>4, <3>1, <4>1, EmptySeq DEF Waiting
    <3>3. Used(wp, rp) = Words(i) /\ Words(i) \in Nat /\ Words(i) >= 3
      <4>1. Taken = 0
        BY <1>2 DEF Taken, Answering
      <4>. QED
        BY <1>1, <1>3, <3>1, <3>2, <4>1, LastMessage
    <3>4. swp = rp
      <4>1. swp = Step(rp, Used(wp, rp) - Words(i)) /\ Used(wp, rp) - Words(i) = 0
        BY <1>4, <3>3 DEF Waiting
      <4>2. Step(rp, 0) = rp
        BY <1>1, StepZero DEF TypeOK
      <4>. QED
        BY <4>1, <4>2
    <3>5. Polled(1) = smsg[1] /\ smsg[1] = Flag("resp_required") /\ smsg[2] = <<"id", i>>
      <4>1. 1 \in 1..Words(i)
        BY <3>3
      <4>. QED
        BY <1>4, <4>1, MessageFacts DEF Waiting, Kinds
    <3>6. rmsg[1] = Polled(1)
      <4>1. 1 - 1 = 0
        OBVIOUS
      <4>. QED
        BY <1>2, <3>4, <4>1 DEF SyncInv, Polled
    <3>7. rmsg = smsg
      <4>1. PICK f \in Kinds : rmsg = Message(pending[1], f)
        BY <1>1, <1>2 DEF ReceiverInv
      <4>2. rmsg[1] = Flag(f)
        BY <3>2, <4>1, MessageFacts
      <4>3. f = "resp_required"
        BY <3>5, <3>6, <4>2 DEF Flag
      <4>. QED
        BY <1>4, <3>2, <4>1, <4>3
    <3>8. /\ rpc' = "respond" /\ ridx' = 0 /\ handled'.id = i /\ handled'.ret = ret
          /\ rresp' = Response(smsg, ret)[1] /\ rflag' = Response(smsg, ret)[2]
      BY <1>2, <3>5, <3>6, <3>7
    <3>9. swp' = rp' /\ rmsg' = smsg' /\ Polled(1)' = Flag("resp_required") /\ smsg' = smsg
      BY <1>2, <3>4, <3>5, <3>7 DEF Polled, fifoVars, senderVars
    <3>10. \A j \in 1..Len(rresp') : ~(j <= ridx')
      <4>1. rresp' \in Seq(Word)
        BY <1>4, <3>8, ResponseFacts DEF Kinds
      <4>2. Len(rresp') \in Nat
        BY <4>1, LenProperties
      <4>. QED
        BY <3>8, <4>2
    <3>. QED
      BY <3>2, <3>8, <3>9, <3>10 DEF InAnswer, Answer
  <2>. QED
    BY <2>1, <2>2
<1>5. ASSUME NEW i \in Ids, spc = "poll" /\ smsg = Message(i, "resp_required")
      PROVE  Moves(i)
  <2>1. ~InAnswer(i) /\ ~Answered(i)
    BY <1>2 DEF InAnswer, Answered
  <2>. QED
    BY <1>4, <1>5, <2>1 DEF Moves
<1>6. UNCHANGED senderVars /\ rpc' # "handle"
  BY <1>2
<1>. QED
  BY <1>5, <1>6, ReceiverSync

LEMMA RespondSync ==
    ASSUME IInv, SyncInv, RespondWord \/ RespondFlag
    PROVE  SyncInv'
<1>1. TypeOK /\ ContentInv /\ ReceiverInv
  BY DEF IInv
<1>2. /\ wp' = wp /\ rp' = rp /\ pending' = pending /\ rmsg' = rmsg
      /\ UNCHANGED <<intr, senderVars, rresp, rflag>>
      /\ rpc' \in {"respond", "flag", "forward"}
      /\ Len(rmsg) = Taken /\ Taken <= Used(wp, rp) /\ Taken \in Nat
  BY <1>1, RespondFacts
<1>3. PICK x \in 0..(Len(rmsg) - 1), w \in Word :
          x <= Top - 3 /\ cell' = [cell EXCEPT ![4 * Step(rp, x)] = w]
  BY <1>1, RespondFacts
<1>4. Used(wp, rp) \in 0..(Top - 3) /\ Top \in Nat
  BY <1>1, RingFacts
<1>5. rpc \in {"respond", "flag"} /\ handled' = handled
  BY DEF RespondWord, RespondFlag
<1>6. ASSUME NEW i \in Ids, Waiting(i) PROVE Waiting(i)'
  <2>1. ASSUME NEW y \in Taken..(Used(wp, rp) - 1)
        PROVE  cell'[4 * Step(rp, y)] = cell[4 * Step(rp, y)]
    <3>1. x \in 0..(Top - 3) /\ y \in 0..(Top - 3) /\ x # y
      BY <1>2, <1>3, <1>4
    <3>2. 4 * Step(rp, x) # 4 * Step(rp, y) /\ 4 * Step(rp, y) \in Cells
      BY <1>1, <3>1, RingFacts
    <3>. QED
      BY <1>1, <1>3, <3>2 DEF TypeOK
  <2>2. pending' # << >> /\ pending'[Len(pending')] = i /\ swp' = swp /\ smsg' = smsg
    BY <1>2, <1>6 DEF Waiting, senderVars
  <2>. QED
    BY <1>1, <1>2, <1>6, <2>1, <2>2, WaitingKept
<1>7. ASSUME NEW i \in Ids, smsg = Message(i, "resp_required"), InAnswer(i)
      PROVE  (InAnswer(i) \/ Answered(i))'
  <2>1. /\ pending = << >> /\ swp = rp /\ rmsg = smsg
        /\ handled.id = i /\ handled.ret \in HandlerResults
        /\ rresp = Answer(smsg) /\ rflag = Response(smsg, handled.ret)[2]
        /\ Polled(1) = Flag("resp_required")
        /\ \A j \in 1..Len(rresp) : rpc = "flag" \/ j <= ridx => Polled(j) = rresp[j]
    BY <1>7 DEF InAnswer
  <2>2. /\ Len(rresp) \in 3..Words(i) /\ rresp[1] = Flag("resp_required")
        /\ Words(i) = Len(rmsg) /\ Words(i) \in Nat
    BY <1>7, <2>1, ResponseFacts, MessageFacts DEF Answer, Kinds, IsMessage
  <2>3. \A j \in 1..Len(rresp) :
           /\ j - 1 \in 0..(Top - 3) /\ 4 * Step(rp, j - 1) \in Cells
           /\ CellOf(rp, j - 1) = 4 * Step(rp, j - 1)
    <3>. TAKE j \in 1..Len(rresp)
    <3>1. j - 1 \in 0..(Top - 3)
      BY <1>2, <1>4, <2>2
    <3>. QED
      BY <1>1, <3>1, RingFacts
  <2>4. \A j, k \in 1..Len(rresp) : j # k => 4 * Step(rp, j - 1) # 4 * Step(rp, k - 1)
    <3>. TAKE j, k \in 1..Len(rresp)
    <3>. HAVE j # k
    <3>1. j - 1 \in 0..(Top - 3) /\ k - 1 \in 0..(Top - 3) /\ j - 1 # k - 1
      BY <2>2, <2>3
    <3>. QED
      BY <1>1, <3>1, RingFacts
  <2>5. /\ smsg' = smsg /\ swp' = swp /\ Answer(smsg)' = Answer(smsg)
        /\ Response(smsg', handled'.ret) = Response(smsg, handled.ret)
        /\ \A j : Final(smsg, j)' = Final(smsg, j)
        /\ \A j : Polled(j)' = cell'[4 * Step(rp, j - 1)]
        /\ \A j : Polled(j) = cell[4 * Step(rp, j - 1)]
    BY <1>2, <1>5, <2>1 DEF Answer, Final, Polled, senderVars
  <2>6. CASE RespondWord
    <3>. DEFINE l == ridx + 1
    <3>1. /\ rpc = "respond" /\ ridx' = ridx + 1 /\ ridx \in Nat /\ ridx < Len(rresp)
          /\ cell' = [cell EXCEPT ![CellOf(rp, ridx)] = rresp[ridx + 1]]
          /\ rpc' = IF ridx + 1 = Len(rresp) THEN "flag" ELSE "respond"
      BY <1>1, <2>6 DEF RespondWord, ReceiverInv, TypeOK
    <3>2. l \in 1..Len(rresp) /\ l - 1 = ridx
      BY <2>2, <3>1
    <3>3. cell' = [cell EXCEPT ![4 * Step(rp, l - 1)] = rresp[l]]
      BY <2>3, <3>1, <3>2
    <3>4. cell'[4 * Step(rp, l - 1)] = rresp[l]
      BY <1>1, <2>3, <3>2, <3>3 DEF TypeOK
    <3>. HIDE DEF l
    <3>5. ASSUME NEW j \in 1..Len(rresp), j # l PROVE Polled(j)' = Polled(j)
      <4>1. cell'[4 * Step(rp, j - 1)] = cell[4 * Step(rp, j - 1)]
        BY <1>1, <2>3, <2>4, <3>2, <3>3, <3>5 DEF TypeOK
      <4>. QED
        BY <2>5, <4>1
    <3>6. Polled(1)' = Flag("resp_required")
      <4>1. 1 \in 1..Len(rresp)
        BY <2>2
      <4>2. CASE l = 1
        BY <2>2, <2>5, <3>4, <4>2
      <4>3. CASE l # 1
        BY <2>1, <3>5, <4>1, <4>3
      <4>. QED
        BY <4>2, <4>3
    <3>7. ASSUME NEW j \in 1..Len(rresp), rpc' = "flag" \/ j <= ridx' PROVE Polled(j)' = rresp[j]
      <4>1. CASE j = l
        BY <2>5, <3>4, <4>1
      <4>2. CASE j # l
        <5>1. j <= ridx
          BY <2>2, <3>1, <3>7, <4>2 DEF l
        <5>. QED
          BY <2>1, <3>5, <4>2, <5>1
      <4>. QED
        BY <4>1, <4>2
    <3>8. rpc' \in {"respond", "flag"}
      BY <3>1
    <3>. QED
      BY <1>2, <1>5, <2>1, <2>5, <3>6, <3>7, <3>8 DEF InAnswer
  <2>7. CASE RespondFlag
    <3>1. rpc = "flag" /\ rpc' = "forward" /\ cell' = [cell EXCEPT ![CellOf(rp, 0)] = Flag(rflag)]
      BY <2>7 DEF RespondFlag
    <3>2. 1 \in 1..Len(rresp) /\ 1 - 1 = 0
      BY <2>2
    <3>3. cell' = [cell EXCEPT ![4 * Step(rp, 1 - 1)] = Flag(rflag)]
      BY <2>3, <3>1, <3>2
    <3>4. cell'[4 * Step(rp, 1 - 1)] = Flag(rflag)
      BY <1>1, <2>3, <3>2, <3>3 DEF TypeOK
    <3>5. ASSUME NEW j \in 1..Len(rresp) PROVE Polled(j)' = Final(smsg, j)
      <4>1. CASE j = 1
        BY <2>1, <2>5, <3>4, <4>1 DEF Final
      <4>2. CASE j # 1
        <5>1. cell'[4 * Step(rp, j - 1)] = cell[4 * Step(rp, j - 1)]
          BY <1>1, <2>3, <2>4, <3>2, <3>3, <4>2 DEF TypeOK
        <5>2. Polled(j) = rresp[j]
          BY <2>1, <3>1
        <5>. QED
          BY <2>1, <2>5, <4>2, <5>1, <5>2 DEF Final
      <4>. QED
        BY <4>1, <4>2
    <3>. QED
      BY <1>2, <1>5, <2>1, <2>5, <3>1, <3>5 DEF Answered
  <2>. QED
    BY <2>6, <2>7
<1>8. ASSUME NEW i \in Ids, spc = "poll" /\ smsg = Message(i, "resp_required")
      PROVE  Moves(i)
  <2>1. ~Answered(i)
    BY <1>5 DEF Answered
  <2>. QED
    BY <1>6, <1>7, <1>8, <2>1 DEF Moves
<1>9. UNCHANGED senderVars /\ rpc' # "handle"
  BY <1>2
<1>. QED
  BY <1>8, <1>9, ReceiverSync

LEMMA RecvForwardSync == ASSUME IInv, SyncInv, RecvForward PROVE SyncInv'
<1>1. TypeOK /\ ContentInv /\ ReceiverInv
  BY DEF IInv
<1>2. /\ rpc = "forward" /\ rpc' = "peek" /\ Answering
      /\ rp' = IF ReadCheck(wp, rp, Bytes(rmsg)) THEN Forward(rp, Bytes(rmsg)) ELSE rp
      /\ UNCHANGED <<wp, cell, intr, senderVars, pending, handled>>
  BY DEF RecvForward, Answering
<1>3. ASSUME NEW i \in Ids, Waiting(i) PROVE Waiting(i)'
  <2>. DEFINE d == Used(wp, rp) - Words(i)
              T == Taken
              u == Used(wp, rp)
  <2>1. /\ Words(i) \in Nat /\ u \in 0..(Top - 3) /\ T \in Nat /\ T <= d /\ d \in Nat
        /\ Top \in Nat /\ swp = Step(rp, d) /\ T = Len(rmsg)
    BY <1>1, <1>2, <1>3, WaitingPlace DEF Taken
  <2>2. rp \in Pointers /\ wp \in Pointers
    BY <1>1 DEF TypeOK
  <2>3. T <= u /\ d = u - Words(i) /\ T < Top - 2 /\ u \in Nat
    BY <2>1
  <2>. HIDE DEF d, T
  <2>4. rp' = Step(rp, T)
    <3>1. ReadCheck(wp, rp, EntSize * T)
      BY <2>1, <2>2, <2>3, UsedFacts
    <3>2. rp' = Forward(rp, 4 * T)
      BY <1>2, <2>1, <3>1 DEF Bytes, EntSize
    <3>. QED
      BY <2>1, <2>2, <2>3, <3>2, ForwardIsStep
  <2>5. Used(wp', rp') = u - T
    BY <1>2, <2>1, <2>2, <2>3, <2>4, UsedAfterRead
  <2>. HIDE DEF u
  <2>6. swp = Step(rp', Used(wp', rp') - Words(i))
    <3>1. /\ Used(wp', rp') - Words(i) = d - T /\ d - T \in Nat
          /\ T + (d - T) = d /\ d < Top - 2
      BY <2>1, <2>3, <2>5
    <3>2. Step(Step(rp, T), d - T) = Step(rp, T + (d - T))
      BY <2>1, <2>2, <3>1, StepStep
    <3>. QED
      BY <2>1, <2>4, <3>1, <3>2
  <2>. QED
    BY <1>2, <1>3, <2>6 DEF Waiting, Polled, senderVars
<1>4. ASSUME NEW i \in Ids, Answered(i) PROVE Answered(i)'
  BY <1>2, <1>4 DEF Answered, Answer, Final, Polled, senderVars
<1>5. \A i \in Ids : Moves(i)
  BY <1>2, <1>3, <1>4 DEF Moves, InAnswer
<1>6. UNCHANGED senderVars /\ rpc' # "handle"
  BY <1>2
<1>. QED
  BY <1>5, <1>6, ReceiverSync

LEMMA NextSync == IInv /\ IInv' /\ SyncInv /\ [Next]_vars => SyncInv'
<1>. SUFFICES ASSUME IInv, IInv', SyncInv, [Next]_vars PROVE SyncInv'
  OBVIOUS
<1>1. ASSUME NEW i \in Ids, NEW sync \in BOOLEAN, Send(i, sync) PROVE SyncInv'
  BY <1>1, SendSync
<1>2. CASE SenderStep
  BY <1>2, PollSync
<1>3. CASE RecvCall
  BY <1>3, RecvCallSync
<1>4. CASE RecvPeek
  BY <1>4, RecvPeekSync
<1>5. ASSUME NEW ret \in HandlerResults, RecvHandle(ret) PROVE SyncInv'
  BY <1>5, RecvHandleSync
<1>6. CASE RespondWord \/ RespondFlag
  BY <1>6, RespondSync
<1>7. CASE RecvForward
  BY <1>7, RecvForwardSync
<1>8. CASE UNCHANGED vars
  <2>1. /\ UNCHANGED senderVars /\ UNCHANGED fifoVars /\ UNCHANGED recvVars
        /\ pending' = pending /\ handled' = handled
    BY <1>8 DEF vars
  <2>2. \A i \in Ids : Moves(i)
    BY <2>1 DEF Moves, Waiting, InAnswer, Answered, Answer, Final, Polled, fifoVars, senderVars, recvVars
  <2>3. rpc' = "handle" => rmsg'[1] = cell'[4 * Step(rp', 0)]
    BY <2>1 DEF SyncInv, fifoVars, recvVars
  <2>. QED
    BY <2>1, <2>2, <2>3, ReceiverSync
<1>. QED
  BY <1>1, <1>2, <1>3, <1>4, <1>5, <1>6, <1>7, <1>8 DEF Next, ReceiverStep

LEMMA InitSync == Init => SyncInv
<1>. SUFFICES ASSUME Init PROVE SyncInv
  OBVIOUS
<1>. QED
  BY DEF Init, SyncInv

(* A sender that returns with a result has read the whole answer.             *)
LEMMA ReadAnswer ==
    ASSUME IInv, SyncInv, PollReady
    PROVE  \E i \in Ids, ret \in HandlerResults :
              /\ handled.id = i /\ handled.ret = ret
              /\ smsg = Message(i, "resp_required") /\ Len(sbuf) = Words(i)
              /\ sbuf \in Seq(Word)
              /\ sbuf[1] = Flag(IF Fits(i, ret) THEN "ready_success" ELSE "ready")
              /\ sbuf[3] = <<"size", AnswerWords(i, ret)>>
              /\ AnswerWords(i, ret) \in Nat /\ 3 + AnswerWords(i, ret) <= Words(i)
              /\ \A w \in 1..AnswerWords(i, ret) :
                    sbuf[3 + w] = <<AnswerKind(i, ret), AnswerWord(i, ret)>>
<1>1. spc = "poll" /\ Len(sbuf) = Len(smsg) /\ sbuf[1] \in {Flag("ready"), Flag("ready_success")}
  BY DEF PollReady
<1>2. PICK i \in Ids : smsg = Message(i, "resp_required") /\ ReadInv(i)
  BY <1>1 DEF SyncInv
<1>. DEFINE ret == handled.ret
            m == AnswerWords(i, ret)
            a == Answer(smsg)
<1>3. Len(smsg) = Words(i) /\ Words(i) \in Nat /\ Words(i) >= 3 /\ sbuf \in Seq(Word)
  BY <1>2, MessageFacts DEF Kinds, IInv, TypeOK
<1>4. sbuf # << >> /\ sbuf[1] # Flag("resp_required")
  <2>1. sbuf # << >>
    <3>1. Len(sbuf) # Len(<< >>)
      BY <1>1, <1>3
    <3>. QED
      BY <3>1
  <2>. QED
    BY <1>1, <2>1 DEF Flag
<1>5. /\ handled.id = i /\ ret \in HandlerResults
      /\ \A j \in 1..Len(sbuf) : j <= Len(a) => sbuf[j] = Final(smsg, j)
  BY <1>2, <1>4 DEF ReadInv, Answered
<1>6. /\ IsMessage(a, "resp_required", i, m, AnswerKind(i, ret), AnswerWord(i, ret))
      /\ Len(a) \in 3..Words(i)
      /\ Response(smsg, ret)[2] = IF Fits(i, ret) THEN "ready_success" ELSE "ready"
  BY <1>2, <1>5, ResponseFacts DEF Answer, Kinds
<1>7. m \in Nat
  BY <1>5 DEF AnswerWords
<1>. HIDE DEF m, a
<1>8. Len(a) = 3 + m /\ 3 + m <= Words(i) /\ \A w \in 1..m : a[3 + w] = <<AnswerKind(i, ret), AnswerWord(i, ret)>>
  BY <1>6, <1>7 DEF IsMessage, HdrWords
<1>9. ASSUME NEW j \in 2..(3 + m) PROVE sbuf[j] = a[j]
  <2>1. j \in 1..Len(sbuf) /\ j <= Len(a) /\ j # 1
    BY <1>1, <1>3, <1>7, <1>8
  <2>2. sbuf[j] = Final(smsg, j)
    BY <1>5, <2>1
  <2>. QED
    BY <2>1, <2>2 DEF Final, a
<1>10. sbuf[1] = Flag(Response(smsg, ret)[2])
  <2>1. 1 \in 1..Len(sbuf) /\ 1 <= Len(a)
    BY <1>1, <1>3, <1>7, <1>8
  <2>. QED
    BY <1>5, <2>1 DEF Final
<1>11. sbuf[3] = <<"size", m>>
  <2>1. 3 \in 2..(3 + m)
    BY <1>7
  <2>. QED
    BY <1>6, <1>9, <2>1 DEF IsMessage
<1>12. ASSUME NEW w \in 1..m PROVE sbuf[3 + w] = <<AnswerKind(i, ret), AnswerWord(i, ret)>>
  <2>1. 3 + w \in 2..(3 + m)
    BY <1>7
  <2>. QED
    BY <1>8, <1>9, <2>1
<1>. QED
  BY <1>1, <1>2, <1>3, <1>5, <1>6, <1>7, <1>8, <1>10, <1>11, <1>12 DEF m

(* A synchronous m0ssq_mbox_msg_send that does not time out returns what the  *)
(* handler made of this message, whole: for every ring, all lengths of        *)
(* messages and answers and however the sender's polls fall between the words *)
(* that the receiver writes, and after any number of time-outs before.        *)
THEOREM SyncResultCorrect == Spec => SyncResult
<1>. DEFINE Returns == spc = "poll" /\ spc' = "idle" /\ sret'.rv # "timeout"
            Right == Returns => smsg[2] = <<"id", handled.id>> /\ sret' = Outcome(handled)
<1>1. IInv /\ SyncInv /\ [Next]_vars => [Right]_vars
  <2>. SUFFICES ASSUME IInv, SyncInv, [Next]_vars, Returns
                PROVE  smsg[2] = <<"id", handled.id>> /\ sret' = Outcome(handled)
    OBVIOUS
  <2>1. PollReady
    <3>1. ~(\E i \in Ids, sync \in BOOLEAN : Send(i, sync)) /\ ~PollWord
      BY DEF Send, PollWord
    <3>2. ~PollNotReady
      <4>1. ASSUME PollNotReady, SendReturn, sret' = [rv |-> "timeout"] PROVE FALSE
        BY <4>1
      <4>2. ASSUME PollNotReady, UNCHANGED <<spc, smsg, swp, sret>> PROVE FALSE
        BY <4>2
      <4>. QED
        BY <4>1, <4>2 DEF PollNotReady
    <3>3. ReceiverStep => spc' = spc
      BY DEF ReceiverStep, RecvCall, RecvPeek, RecvHandle, RespondWord, RespondFlag, RecvForward, senderVars
    <3>4. UNCHANGED vars => spc' = spc
      BY DEF vars, senderVars
    <3>. QED
      BY <3>1, <3>2, <3>3, <3>4 DEF Next, SenderStep
  <2>2. PICK i \in Ids, ret \in HandlerResults :
            /\ handled.id = i /\ handled.ret = ret
            /\ smsg = Message(i, "resp_required") /\ Len(sbuf) = Words(i)
            /\ sbuf \in Seq(Word)
            /\ sbuf[1] = Flag(IF Fits(i, ret) THEN "ready_success" ELSE "ready")
            /\ sbuf[3] = <<"size", AnswerWords(i, ret)>>
            /\ AnswerWords(i, ret) \in Nat /\ 3 + AnswerWords(i, ret) <= Words(i)
            /\ \A w \in 1..AnswerWords(i, ret) :
                  sbuf[3 + w] = <<AnswerKind(i, ret), AnswerWord(i, ret)>>
    BY <2>1, ReadAnswer
  <2>3. smsg[2] = <<"id", i>> /\ smsg[2][2] = i /\ Words(i) \in Nat
    BY <2>2, MessageFacts DEF Kinds
  <2>4. /\ sbuf[1] = Flag("ready_success") =>
               sret' = [rv |-> "ok", data |-> SubSeq(sbuf, 4, 3 + RespWords[i])]
        /\ sbuf[1] # Flag("ready_success") =>
               sret' = IF sbuf[3][2] > 0 /\ sbuf[4] # <<"ret", "ok">>
                       THEN [rv |-> "handler_error"] ELSE [rv |-> "error"]
    BY <2>1, <2>3 DEF PollReady, HdrWords
  <2>5. CASE Fits(i, ret)
    <3>. DEFINE m == RespWords[i]
    <3>1. sbuf[1] = Flag("ready_success") /\ AnswerWords(i, ret) = m /\ m \in Nat
      BY <2>2, <2>5 DEF AnswerWords
    <3>2. \A w \in 1..m : sbuf[3 + w] = <<"answer", i>>
      BY <2>2, <2>5, <3>1 DEF AnswerKind, AnswerWord
    <3>3. SubSeq(sbuf, 4, 3 + m) = [w \in 1..m |-> <<"answer", i>>]
      <4>. HIDE DEF m
      <4>1. SubSeq(sbuf, 4, 3 + m) = [w \in 1..m |-> sbuf[3 + w]]
        BY <2>2, <3>1
      <4>. QED
        BY <3>2, <4>1
    <3>4. Outcome(handled) = [rv |-> "ok", data |-> [w \in 1..m |-> <<"answer", i>>]]
      BY <2>2, <2>5 DEF Outcome, Fits, Payload
    <3>. HIDE DEF m
    <3>. QED
      BY <2>2, <2>3, <2>4, <3>1, <3>3, <3>4 DEF m
  <2>6. CASE ~Fits(i, ret)
    <3>1. sbuf[1] # Flag("ready_success")
      BY <2>2, <2>6 DEF Flag
    <3>2. sbuf[3][2] = AnswerWords(i, ret)
      BY <2>2
    <3>3. CASE DataWords[i] > 0
      <4>1. AnswerWords(i, ret) = 1
        BY <2>6, <3>3 DEF AnswerWords
      <4>2. sbuf[4] = <<"ret", IF ret = "fail" THEN "err" ELSE "ok">>
        <5>1. 1 \in 1..AnswerWords(i, ret) /\ 3 + 1 = 4
          BY <4>1
        <5>2. sbuf[3 + 1] = <<AnswerKind(i, ret), AnswerWord(i, ret)>>
          BY <2>2, <5>1
        <5>. QED
          BY <2>6, <5>1, <5>2 DEF AnswerKind, AnswerWord
      <4>3. sret' = IF ret = "fail" THEN [rv |-> "handler_error"] ELSE [rv |-> "error"]
        BY <2>4, <3>1, <3>2, <4>1, <4>2
      <4>. QED
        BY <2>2, <2>3, <2>6, <3>3, <4>3 DEF Outcome, Fits, HandlerResults
    <3>4. CASE ~(DataWords[i] > 0)
      <4>1. AnswerWords(i, ret) = 0
        BY <2>6, <3>4 DEF AnswerWords
      <4>2. sret' = [rv |-> "error"]
        BY <2>4, <3>1, <3>2, <4>1
      <4>. QED
        BY <2>2, <2>3, <2>6, <3>4, <4>2 DEF Outcome, Fits, HandlerResults
    <3>. QED
      BY <3>3, <3>4
  <2>. QED
    BY <2>5, <2>6
<1>2. Spec => []SyncInv
  BY InitSync, NextSync, Invariant, PTL DEF Spec
<1>. QED
  BY <1>1, <1>2, Invariant, PTL DEF Spec, SyncResult
=============================================================================
