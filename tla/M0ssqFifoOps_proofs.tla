------------------------ MODULE M0ssqFifoOps_proofs ------------------------
(***************************************************************************)
(* What the pointer arithmetic of the ring comes to, for every size: moves *)
(* around a ring of Top - 2 entries.  The proofs about the FIFO and about  *)
(* the mailbox rest on these lemmas alone, and not on the arithmetic.      *)
(***************************************************************************)
EXTENDS M0ssqFifoOps, TLAPS

\* The size of the memory in entries.
Top == MemSize \div EntSize

LEMMA TopFacts == Top \in Nat /\ MemSize = 4 * Top /\ Top >= 3 /\ Pointers = 2 .. Top - 1
                  /\ FifoSize = 4 * (Top - 2)
  BY MemSizeAssumption DEF Top, EntSize, PtrSize, Pointers, FifoSize

LEMMA ModOnce == ASSUME NEW m \in Nat, m > 0, NEW x \in m .. 2 * m - 1
                 PROVE  x % m = x - m
  OBVIOUS

\* Where a pointer ends up after n entries: n further, around the ring.
Step(p, n) == IF p + n >= Top THEN p + n - Top + 2 ELSE p + n

LEMMA ForwardIsStep ==
    ASSUME NEW p \in Pointers, NEW n \in Nat, n < Top - 2
    PROVE  Forward(p, 4 * n) = Step(p, n) /\ Step(p, n) \in Pointers
  <1>1. CASE p + n < Top
    BY <1>1, TopFacts DEF Forward, Step, Position, EntSize, PtrSize
  <1>2. CASE p + n >= Top
    <2>1. 4 * (p + n) \in MemSize .. 2 * MemSize - 1
      BY <1>2, TopFacts
    <2>2. (4 * (p + n)) % MemSize = 4 * (p + n) - MemSize
      BY <2>1, TopFacts, ModOnce
    <2> QED  BY <1>2, <2>1, <2>2, TopFacts DEF Forward, Step, Position, EntSize, PtrSize
  <1> QED  BY <1>1, <1>2, TopFacts

LEMMA CellAtIsStep ==
    ASSUME NEW p \in Pointers, NEW i \in Nat, i < Top - 2
    PROVE  /\ CellAt(Position(p), EntSize * i) = 4 * Step(p, i)
           /\ 4 * Step(p, i) \in Cells
  <1>1. Step(p, i) \in Pointers
    BY ForwardIsStep
  <1>2. CellAt(Position(p), EntSize * i) = 4 * Step(p, i)
    BY TopFacts DEF CellAt, Step, Position, EntSize, PtrSize
  <1> QED  BY <1>1, <1>2 DEF Cells, EntSize

\* Steps from one pointer add up and never meet within one turn of the ring.
LEMMA StepStep ==
    ASSUME NEW p \in Pointers, NEW i \in Nat, NEW j \in Nat, i + j < Top - 2
    PROVE  Step(Step(p, i), j) = Step(p, i + j)
  BY TopFacts DEF Step

LEMMA StepInjective ==
    ASSUME NEW p \in Pointers, NEW i \in Nat, NEW j \in Nat,
           i < Top - 2, j < Top - 2, Step(p, i) = Step(p, j)
    PROVE  i = j
  BY TopFacts DEF Step

LEMMA StepZero == ASSUME NEW p \in Pointers PROVE Step(p, 0) = p
  BY TopFacts DEF Step

-----------------------------------------------------------------------------
\* The number of words between the read and the write pointer.
Used(w, r) == IF w >= r THEN w - r ELSE Top - 2 - (r - w)

LEMMA UsedFacts ==
    ASSUME NEW w \in Pointers, NEW r \in Pointers
    PROVE  /\ Used(w, r) \in 0 .. Top - 3
           /\ UsedSize(w, r) = 4 * Used(w, r)
           /\ UsedSize(w, r) \div EntSize = Used(w, r)
           /\ Step(r, Used(w, r)) = w
           /\ \A n \in Nat : WriteCheck(w, r, EntSize * n) <=> Used(w, r) + n <= Top - 4
           /\ \A n \in Nat : ReadCheck(w, r, EntSize * n) <=> n <= Used(w, r)
  BY TopFacts DEF Used, UsedSize, WriteCheck, ReadCheck, FreeSize, Step, Position, EntSize

LEMMA UsedAfterWrite ==
    ASSUME NEW w \in Pointers, NEW r \in Pointers, NEW n \in Nat, Used(w, r) + n <= Top - 3
    PROVE  Used(Step(w, n), r) = Used(w, r) + n
  BY TopFacts DEF Used, Step

LEMMA UsedAfterRead ==
    ASSUME NEW w \in Pointers, NEW r \in Pointers, NEW n \in Nat, n <= Used(w, r)
    PROVE  Used(w, Step(r, n)) = Used(w, r) - n
  BY TopFacts DEF Used, Step
=============================================================================
