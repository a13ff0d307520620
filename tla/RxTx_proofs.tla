---------------------------- MODULE RxTx_proofs ----------------------------
(* Packet reception and transmission.                                         *)
(*                                                                            *)
(* Rx: the handlers are offered packets in the order of their priorities, for *)
(* every set of handlers and size of the table.  That no buffer is lost or    *)
(* doubled is proved for the one buffer that board.h asks for, whatever       *)
(* allocations fail: with more,                                               *)
(* the buffers that the full engine refuses are freed while its list holds    *)
(* them.                                                                      *)
(*                                                                            *)
(* Tx: descriptors are in one place and carry one packet each, and a polling  *)
(* sender reads what became of its own packet, for any number of packets and  *)
(* any nesting of senders, callbacks and receive handlers.                    *)
EXTENDS Rx, Tx, SequenceTheorems, FiniteSetTheorems, WellFoundedInduction, TLAPS

-----------------------------------------------------------------------------
(* Sequences.  A set of indices has a least one.                              *)
LEMMA LeastIndex ==
    ASSUME NEW S \in SUBSET Nat, S # {}
    PROVE  \E i \in S : \A j \in S : i <= j
<1>. DEFINE R == OpToRel(<, Nat)
<1>1. \A i, j \in Nat : <<j, i>> \in R <=> j < i
  BY DEF OpToRel
<1>2. IsWellFoundedOn(R, Nat)
  BY NatLessThanWellFounded
<1>. HIDE DEF R
<1>3. PICK i \in S : \A j \in S : ~(<<j, i>> \in R)
  BY <1>2, WFMin, S \subseteq Nat
<1>4. \A j \in S : i <= j
  <2>. TAKE j \in S
  <2>1. i \in Nat /\ j \in Nat
    OBVIOUS
  <2>2. ~(<<j, i>> \in R)
    BY <1>3
  <2>3. ~(j < i)
    BY <1>1, <2>1, <2>2
  <2>. QED
    BY <2>1, <2>3
<1>. QED
  BY <1>4

(* A slice of a sequence, which may be empty.                                 *)
LEMMA SliceLength ==
    \A m, n \in Int : n >= m - 1 => (IF m <= n THEN n - m + 1 ELSE 0) = n - m + 1
  OBVIOUS

LEMMA SliceProperties ==
    ASSUME NEW S, NEW s \in Seq(S), NEW m \in 1..(Len(s) + 1), NEW n \in (m - 1)..Len(s)
    PROVE  /\ SubSeq(s, m, n) \in Seq(S) /\ Len(SubSeq(s, m, n)) = n - m + 1
           /\ \A i \in 1..(n - m + 1) : SubSeq(s, m, n)[i] = s[m + i - 1]
<1>1. Len(s) \in Nat
  BY LenProperties
<1>2. m \in Int /\ n \in Int /\ n >= m - 1
  BY <1>1
<1>3. \A i \in m..n : s[i] \in S
  BY <1>1, ElementOfSeq
<1>. DEFINE f == SubSeq(s, m, n)
<1>4. /\ f \in Seq(S) /\ Len(f) = IF m <= n THEN n - m + 1 ELSE 0
      /\ \A i \in 1..(n - m + 1) : f[i] = s[m + i - 1]
  BY <1>2, <1>3, SubSeqProperties
<1>. HIDE DEF f
<1>5. Len(f) = n - m + 1
  BY <1>2, <1>4, SliceLength
<1>. QED
  BY <1>4, <1>5 DEF f

LEMMA FrontProperties ==
    ASSUME NEW S, NEW s \in Seq(S), s # <<>>
    PROVE  /\ Front(s) \in Seq(S) /\ Len(Front(s)) = Len(s) - 1
           /\ \A i \in 1..(Len(s) - 1) : Front(s)[i] = s[i]
<1>1. Len(s) \in Nat \ {0}
  BY EmptySeq
<1>. DEFINE n == Len(s) - 1
            f == SubSeq(s, 1, n)
<1>2. n \in 0..Len(s) /\ n - 1 + 1 = n /\ \A i \in 1..n : 1 + i - 1 = i
  BY <1>1
<1>3. Front(s) = f
  BY DEF Front
<1>. HIDE DEF n, f
<1>4. 1 \in 1..(Len(s) + 1) /\ n \in (1 - 1)..Len(s)
  BY <1>1, <1>2
<1>5. /\ f \in Seq(S) /\ Len(f) = n - 1 + 1
      /\ \A i \in 1..(n - 1 + 1) : f[i] = s[1 + i - 1]
  BY <1>4, SliceProperties DEF f
<1>. QED
  BY <1>2, <1>3, <1>5 DEF n

(* One element in front, as the lists of packets grow.                        *)
LEMMA ConsProperties ==
    ASSUME NEW S, NEW s \in Seq(S), NEW x \in S
    PROVE  /\ <<x>> \o s \in Seq(S) /\ Len(<<x>> \o s) = Len(s) + 1 /\ <<x>> \o s # <<>>
           /\ (<<x>> \o s)[1] = x
           /\ \A i \in 1..Len(s) : (<<x>> \o s)[i + 1] = s[i]
<1>1. <<x>> \in Seq(S) /\ Len(<<x>>) = 1 /\ <<x>>[1] = x /\ Len(s) \in Nat
  BY LenProperties
<1>2. /\ <<x>> \o s \in Seq(S) /\ Len(<<x>> \o s) = 1 + Len(s)
      /\ \A i \in 1..(1 + Len(s)) : (<<x>> \o s)[i] = IF i <= 1 THEN <<x>>[i] ELSE s[i - 1]
  BY <1>1, ConcatProperties
<1>3. <<x>> \o s # <<>>
  BY <1>1, <1>2, EmptySeq
<1>4. (<<x>> \o s)[1] = x
  BY <1>1, <1>2
<1>5. \A i \in 1..Len(s) : (<<x>> \o s)[i + 1] = s[i]
  <2>. TAKE i \in 1..Len(s)
  <2>1. i + 1 \in 1..(1 + Len(s)) /\ ~(i + 1 <= 1) /\ i + 1 - 1 = i
    BY <1>1
  <2>. QED
    BY <1>2, <2>1
<1>. QED
  BY <1>1, <1>2, <1>3, <1>4, <1>5

(* RemoveFirst takes one element out and keeps the order of the others.       *)
LEMMA RemoveFirstProperties ==
    ASSUME NEW S, NEW s \in Seq(S), NEW e \in ToSet(s)
    PROVE  \E k \in 1..Len(s) :
              /\ RemoveFirst(s, e) \in Seq(S) /\ Len(RemoveFirst(s, e)) = Len(s) - 1
              /\ \A i \in 1..(Len(s) - 1) :
                    RemoveFirst(s, e)[i] = IF i < k THEN s[i] ELSE s[i + 1]
<1>. DEFINE I == {i \in 1..Len(s) : s[i] = e}
            k == Min(I)
<1>1. Len(s) \in Nat /\ DOMAIN s = 1..Len(s)
  BY LenProperties
<1>2. I # {} /\ I \subseteq Nat
  BY <1>1 DEF ToSet
<1>3. k \in I
  <2>. HIDE DEF I
  <2>1. \E x \in I : \A y \in I : x <= y
    BY <1>2, LeastIndex
  <2>. QED
    BY <2>1 DEF Min
<1>4. RemoveFirst(s, e) = SubSeq(s, 1, k - 1) \o SubSeq(s, k + 1, Len(s))
  BY <1>2, <1>3 DEF RemoveFirst, RemoveAt, SelectInSeq
<1>5. k \in 1..Len(s) /\ Len(s) \in Nat
  BY <1>1, <1>3
<1>. HIDE DEF k, I
<1>. DEFINE a == SubSeq(s, 1, k - 1)
            b == SubSeq(s, k + 1, Len(s))
<1>. HIDE DEF a, b
<1>6. /\ a \in Seq(S) /\ Len(a) = k - 1 - 1 + 1
      /\ \A i \in 1..(k - 1 - 1 + 1) : a[i] = s[1 + i - 1]
  BY <1>5, SliceProperties DEF a
<1>7. Len(a) = k - 1 /\ \A i \in 1..(k - 1) : a[i] = s[i]
  BY <1>5, <1>6
<1>8. /\ b \in Seq(S) /\ Len(b) = Len(s) - (k + 1) + 1
      /\ \A i \in 1..(Len(s) - (k + 1) + 1) : b[i] = s[k + 1 + i - 1]
  BY <1>5, SliceProperties DEF b
<1>9. Len(b) = Len(s) - k
  BY <1>5, <1>8
<1>10. \A i \in 1..(Len(s) - k) : b[i] = s[k + i]
  <2>. TAKE i \in 1..(Len(s) - k)
  <2>1. i \in 1..(Len(s) - (k + 1) + 1) /\ k + 1 + i - 1 = k + i
    BY <1>5
  <2>. QED
    BY <1>8, <2>1
<1>11. RemoveFirst(s, e) = a \o b
  BY <1>4 DEF a, b
<1>12. /\ a \o b \in Seq(S) /\ Len(a \o b) = Len(a) + Len(b)
       /\ \A i \in 1..(Len(a) + Len(b)) : (a \o b)[i] = IF i <= Len(a) THEN a[i] ELSE b[i - Len(a)]
  BY <1>6, <1>8, ConcatProperties
<1>13. Len(a) + Len(b) = Len(s) - 1
  BY <1>5, <1>7, <1>9
<1>14. \A i \in 1..(Len(s) - 1) : (a \o b)[i] = IF i < k THEN s[i] ELSE s[i + 1]
  <2>. TAKE i \in 1..(Len(s) - 1)
  <2>1. CASE i < k
    BY <1>1, <1>5, <1>7, <1>12, <1>13, <2>1
  <2>2. CASE ~(i < k)
    <3>1. i - (k - 1) \in 1..(Len(s) - k) /\ k + (i - (k - 1)) = i + 1 /\ ~(i <= k - 1)
      BY <1>1, <1>5, <2>2
    <3>. QED
      BY <1>7, <1>10, <1>12, <1>13, <2>2, <3>1
  <2>. QED
    BY <2>1, <2>2
<1>. QED
  BY <1>5, <1>11, <1>12, <1>13, <1>14

(* InsertAt puts one element in and keeps the order of the others.            *)
Inserted(t, s, k, e) ==
    /\ Len(t) = Len(s) + 1
    /\ \A i \in 1..(Len(s) + 1) :
          t[i] = IF i < k THEN s[i] ELSE IF i = k THEN e ELSE s[i - 1]

LEMMA InsertAtProperties ==
    ASSUME NEW S, NEW s \in Seq(S), NEW e \in S, NEW k \in 1..(Len(s) + 1)
    PROVE  InsertAt(s, k, e) \in Seq(S) /\ Inserted(InsertAt(s, k, e), s, k, e)
<1>. DEFINE a == SubSeq(s, 1, k - 1)
            b == SubSeq(s, k, Len(s))
            c == <<e>> \o b
<1>1. Len(s) \in Nat /\ k \in Int
  BY LenProperties
<1>2. InsertAt(s, k, e) = a \o <<e>> \o b
  BY DEF InsertAt
<1>. HIDE DEF a, b, c
<1>3. /\ a \in Seq(S) /\ Len(a) = k - 1 - 1 + 1
      /\ \A i \in 1..(k - 1 - 1 + 1) : a[i] = s[1 + i - 1]
  BY <1>1, SliceProperties DEF a
<1>4. Len(a) = k - 1 /\ \A i \in 1..(k - 1) : a[i] = s[i]
  BY <1>1, <1>3
<1>5. /\ b \in Seq(S) /\ Len(b) = Len(s) - k + 1
      /\ \A i \in 1..(Len(s) - k + 1) : b[i] = s[k + i - 1]
  BY <1>1, SliceProperties DEF b
<1>6. /\ c \in Seq(S) /\ Len(c) = Len(b) + 1 /\ c[1] = e
      /\ \A i \in 1..Len(b) : c[i + 1] = b[i]
  <2>1. b \in Seq(S)
    BY <1>5
  <2>2. /\ <<e>> \o b \in Seq(S) /\ Len(<<e>> \o b) = Len(b) + 1 /\ (<<e>> \o b)[1] = e
        /\ \A i \in 1..Len(b) : (<<e>> \o b)[i + 1] = b[i]
    BY <2>1, ConsProperties
  <2>. QED
    BY <2>2 DEF c
<1>7. a \o <<e>> \o b = a \o c
  <2>1. <<e>> \in Seq(S)
    OBVIOUS
  <2>. QED
    BY <1>3, <1>5, <2>1, ConcatAssociative DEF c
<1>8. /\ a \o c \in Seq(S) /\ Len(a \o c) = Len(a) + Len(c)
      /\ \A i \in 1..(Len(a) + Len(c)) : (a \o c)[i] = IF i <= Len(a) THEN a[i] ELSE c[i - Len(a)]
  BY <1>3, <1>6, ConcatProperties
<1>9. Len(a) + Len(c) = Len(s) + 1
  BY <1>1, <1>4, <1>5, <1>6
<1>10. \A i \in 1..(Len(s) + 1) :
          (a \o c)[i] = IF i < k THEN s[i] ELSE IF i = k THEN e ELSE s[i - 1]
  <2>. TAKE i \in 1..(Len(s) + 1)
  <2>1. CASE i < k
    BY <1>1, <1>4, <1>8, <1>9, <2>1
  <2>2. CASE i = k
    <3>1. ~(i <= Len(a)) /\ i - Len(a) = 1
      BY <1>1, <1>4, <2>2
    <3>. QED
      BY <1>6, <1>8, <1>9, <2>2, <3>1
  <2>3. CASE i > k
    <3>1. /\ ~(i <= Len(a)) /\ i - k \in 1..Len(b) /\ i - Len(a) = i - k + 1
          /\ i - k \in 1..(Len(s) - k + 1) /\ k + (i - k) - 1 = i - 1
      BY <1>1, <1>4, <1>5, <2>3
    <3>2. (a \o c)[i] = b[i - k]
      BY <1>6, <1>8, <1>9, <3>1
    <3>3. b[i - k] = s[i - 1]
      BY <1>5, <3>1
    <3>. QED
      BY <1>1, <2>3, <3>2, <3>3
  <2>4. i < k \/ i = k \/ i > k
    BY <1>1
  <2>. QED
    BY <2>1, <2>2, <2>3, <2>4, Zenon
<1>. QED
  BY <1>2, <1>7, <1>8, <1>9, <1>10 DEF Inserted

-----------------------------------------------------------------------------
(* The list of handlers.                                                      *)
ListOK == rx_cbk_list \in Seq(Callbacks) /\ Len(rx_cbk_list) <= Slots

(* A handler goes where all before it have a lower priority number and all    *)
(* from there on, which are in order, the same or a higher one.               *)
LEMMA PlaceOrdered ==
    ASSUME ListOK, InPriorityOrder, NEW c \in Callbacks
    PROVE  /\ Place(c) \in 1..(Len(rx_cbk_list) + 1)
           /\ \A i \in 1..Len(rx_cbk_list) :
                 /\ i < Place(c) => Priority[rx_cbk_list[i]] <= Priority[c]
                 /\ i >= Place(c) => Priority[c] <= Priority[rx_cbk_list[i]]
<1>. DEFINE n == Len(rx_cbk_list)
            P(i) == Priority[rx_cbk_list[i]]
            I == {i \in 1..n : P(i) >= Priority[c]}
<1>1. n \in Nat /\ DOMAIN rx_cbk_list = 1..n
  BY LenProperties DEF ListOK
<1>2. Priority[c] \in Nat /\ \A i \in 1..n : P(i) \in Nat
  BY ElementOfSeq, RxAssumption DEF ListOK
<1>3. \A i, j \in 1..n : i < j => P(i) <= P(j)
  BY <1>1 DEF InPriorityOrder
<1>4. Place(c) = IF I # {} THEN CHOOSE i \in 1..n :
                                   P(i) >= Priority[c] /\ \A j \in 1..(i - 1) : P(j) < Priority[c]
                           ELSE n + 1
  BY <1>1 DEF Place
<1>. HIDE DEF n, P
<1>5. CASE I = {}
  BY <1>1, <1>2, <1>4, <1>5 DEF n, P
<1>6. CASE I # {}
  <2>1. PICK k \in I : \A j \in I : k <= j
    <3>1. I \in SUBSET Nat
      BY <1>1
    <3>. QED
      BY <1>6, <3>1, LeastIndex
  <2>2. k \in 1..n /\ P(k) >= Priority[c]
    OBVIOUS
  <2>3. \A j \in 1..(k - 1) : P(j) < Priority[c]
    <3>. TAKE j \in 1..(k - 1)
    <3>1. j \in 1..n /\ ~(k <= j)
      BY <1>1, <2>2
    <3>2. ~(P(j) >= Priority[c])
      BY <2>1, <3>1
    <3>. QED
      BY <1>2, <3>1, <3>2
  <2>. DEFINE m == Place(c)
  <2>4. m \in 1..n /\ P(m) >= Priority[c] /\ \A j \in 1..(m - 1) : P(j) < Priority[c]
    BY <1>4, <1>6, <2>2, <2>3
  <2>. HIDE DEF m
  <2>5. ASSUME NEW i \in 1..n
        PROVE  (i < m => P(i) <= Priority[c]) /\ (i >= m => Priority[c] <= P(i))
    <3>1. CASE i < m
      BY <1>1, <1>2, <2>4, <3>1
    <3>2. CASE i = m
      BY <1>1, <1>2, <2>4, <3>2
    <3>3. CASE i > m
      <4>1. P(m) <= P(i)
        BY <1>1, <1>3, <2>4, <3>3
      <4>2. P(m) \in Nat /\ P(i) \in Nat /\ P(m) >= Priority[c]
        BY <1>2, <2>4
      <4>3. Priority[c] <= P(i)
        BY <1>2, <4>1, <4>2
      <4>. QED
        BY <1>1, <2>4, <3>3, <4>3
    <3>. QED
      BY <1>1, <2>4, <3>1, <3>2, <3>3
  <2>. QED
    BY <1>1, <2>4, <2>5 DEF m, n, P
<1>. QED
  BY <1>5, <1>6

LEMMA RegisterOrdered ==
    ASSUME ListOK, InPriorityOrder, NEW c \in Callbacks, Register(c)
    PROVE  (ListOK /\ InPriorityOrder)'
<1>. DEFINE s == rx_cbk_list
            k == Place(c)
            t == rx_cbk_list'
            n == Len(rx_cbk_list)
<1>1. s \in Seq(Callbacks) /\ n \in Nat /\ n + 1 <= Slots /\ DOMAIN s = 1..n
  BY LenProperties, RxAssumption DEF Register, FreeSlot, ListOK
<1>2. /\ k \in 1..(n + 1)
      /\ \A i \in 1..n : i < k => Priority[s[i]] <= Priority[c]
      /\ \A i \in 1..n : i >= k => Priority[c] <= Priority[s[i]]
  BY PlaceOrdered
<1>3. t = InsertAt(s, k, c)
  BY DEF Register
<1>4. \A i, j \in 1..n : i < j => Priority[s[i]] <= Priority[s[j]]
  BY <1>1 DEF InPriorityOrder
<1>. HIDE DEF s, k, t, n
<1>5. /\ t \in Seq(Callbacks) /\ Len(t) = n + 1
      /\ \A i \in 1..(n + 1) : t[i] = IF i < k THEN s[i] ELSE IF i = k THEN c ELSE s[i - 1]
  <2>0. s \in Seq(Callbacks)
    BY <1>1
  <2>1. Len(s) = n /\ k \in 1..(Len(s) + 1)
    BY <1>2 DEF n, s
  <2>2. t \in Seq(Callbacks) /\ Inserted(t, s, k, c)
    BY <1>3, <2>0, <2>1, InsertAtProperties, Zenon
  <2>. QED
    BY <2>1, <2>2 DEF Inserted
<1>6. DOMAIN t = 1..(n + 1)
  BY <1>5, LenProperties
<1>7. ASSUME NEW i \in 1..(n + 1), NEW j \in 1..(n + 1), i < j
      PROVE  Priority[t[i]] <= Priority[t[j]]
  <2>1. CASE j < k
    <3>1. i \in 1..n /\ j \in 1..n /\ i < k
      BY <1>1, <1>2, <1>7, <2>1
    <3>2. t[i] = s[i] /\ t[j] = s[j]
      BY <1>5, <2>1, <3>1
    <3>. QED
      BY <1>4, <1>7, <3>1, <3>2
  <2>2. CASE j = k
    <3>1. i \in 1..n /\ i < k
      BY <1>1, <1>2, <1>7, <2>2
    <3>2. t[i] = s[i] /\ t[j] = c
      BY <1>5, <2>2, <3>1
    <3>. QED
      BY <1>2, <3>1, <3>2
  <2>3. CASE j > k /\ i < k
    <3>1. i \in 1..n /\ j - 1 \in 1..n /\ i < j - 1 /\ ~(j < k) /\ j # k
      BY <1>1, <1>2, <1>7, <2>3
    <3>2. t[i] = s[i] /\ t[j] = s[j - 1]
      BY <1>5, <2>3, <3>1
    <3>. QED
      BY <1>4, <3>1, <3>2
  <2>4. CASE j > k /\ i = k
    <3>1. j - 1 \in 1..n /\ j - 1 >= k /\ ~(j < k) /\ j # k
      BY <1>1, <1>2, <1>7, <2>4
    <3>2. t[i] = c /\ t[j] = s[j - 1]
      BY <1>5, <2>4, <3>1
    <3>. QED
      BY <1>2, <3>1, <3>2
  <2>5. CASE j > k /\ i > k
    <3>1. /\ i - 1 \in 1..n /\ j - 1 \in 1..n /\ i - 1 < j - 1
          /\ ~(j < k) /\ j # k /\ ~(i < k) /\ i # k
      BY <1>1, <1>2, <1>7, <2>5
    <3>2. t[i] = s[i - 1] /\ t[j] = s[j - 1]
      BY <1>5, <3>1
    <3>. QED
      BY <1>4, <3>1, <3>2
  <2>6. j < k \/ j = k \/ (j > k /\ (i < k \/ i = k \/ i > k))
    BY <1>2
  <2>. QED
    BY <2>1, <2>2, <2>3, <2>4, <2>5, <2>6, Zenon
<1>8. InPriorityOrder'
  BY <1>6, <1>7 DEF InPriorityOrder, t
<1>. QED
  BY <1>1, <1>5, <1>8 DEF ListOK, t

LEMMA UnregisterOrdered ==
    ASSUME ListOK, InPriorityOrder, NEW c \in Callbacks, Unregister(c)
    PROVE  (ListOK /\ InPriorityOrder)'
<1>. DEFINE s == rx_cbk_list
            t == rx_cbk_list'
            n == Len(rx_cbk_list)
<1>1. /\ s \in Seq(Callbacks) /\ n \in Nat /\ n <= Slots /\ DOMAIN s = 1..n
      /\ c \in ToSet(s) /\ t = RemoveFirst(s, c) /\ Slots \in Nat
  BY LenProperties, RxAssumption DEF Unregister, ListOK
<1>2. \A i, j \in 1..n : i < j => Priority[s[i]] <= Priority[s[j]]
  BY <1>1 DEF InPriorityOrder
<1>3. PICK k \in 1..n :
         /\ t \in Seq(Callbacks) /\ Len(t) = n - 1
         /\ \A i \in 1..(n - 1) : t[i] = IF i < k THEN s[i] ELSE s[i + 1]
  BY <1>1, RemoveFirstProperties
<1>. HIDE DEF s, t, n
<1>4. DOMAIN t = 1..(n - 1)
  BY <1>3, LenProperties
<1>5. ASSUME NEW i \in 1..(n - 1), NEW j \in 1..(n - 1), i < j
      PROVE  Priority[t[i]] <= Priority[t[j]]
  <2>1. /\ i \in 1..n /\ j \in 1..n /\ i + 1 \in 1..n /\ j + 1 \in 1..n
        /\ i < j + 1 /\ i + 1 < j + 1
    BY <1>1, <1>5
  <2>2. CASE j < k
    BY <1>2, <1>3, <1>5, <2>1, <2>2
  <2>3. CASE ~(j < k) /\ i < k
    <3>1. t[i] = s[i] /\ t[j] = s[j + 1]
      BY <1>3, <2>3
    <3>. QED
      BY <1>2, <2>1, <3>1
  <2>4. CASE ~(j < k) /\ ~(i < k)
    <3>1. t[i] = s[i + 1] /\ t[j] = s[j + 1]
      BY <1>3, <2>4
    <3>. QED
      BY <1>2, <2>1, <3>1
  <2>. QED
    BY <2>2, <2>3, <2>4
<1>6. InPriorityOrder'
  BY <1>4, <1>5 DEF InPriorityOrder, t
<1>. QED
  BY <1>1, <1>3, <1>6 DEF ListOK, t

LEMMA OrderedStep == ListOK /\ InPriorityOrder /\ [RxNext]_rxVars => (ListOK /\ InPriorityOrder)'
<1>. SUFFICES ASSUME ListOK, InPriorityOrder, [RxNext]_rxVars
              PROVE  (ListOK /\ InPriorityOrder)'
  OBVIOUS
<1>1. ASSUME rx_cbk_list' = rx_cbk_list PROVE (ListOK /\ InPriorityOrder)'
  BY <1>1 DEF ListOK, InPriorityOrder
<1>2. CASE \E c \in Callbacks : Register(c)
  BY <1>2, RegisterOrdered
<1>3. CASE \E c \in Callbacks : Unregister(c)
  BY <1>3, UnregisterOrdered
<1>4. CASE \/ Receive \/ ReceiveError \/ NotHandled \/ Handled \/ HandledAndOwned
           \/ \E b \in Bufs : FreePacket(b)
           \/ \E result \in {"done", "error"} : RxDmaEnds(result)
  <2>1. rx_cbk_list' = rx_cbk_list
    BY <1>4 DEF Receive, ReceiveError, NotHandled, Handled, HandledAndOwned, FreePacket, RxDmaEnds
  <2>. QED
    BY <1>1, <2>1
<1>5. CASE UNCHANGED rxVars
  BY <1>1, <1>5 DEF rxVars
<1>. QED
  BY <1>2, <1>3, <1>4, <1>5 DEF RxNext

(* kernel/rx.c: packets are offered in the order of the priorities, after any *)
(* number of registrations and removals, for every size of the table.         *)
THEOREM InPriorityOrderCorrect == RxSpec => []InPriorityOrder
<1>1. RxInit => ListOK /\ InPriorityOrder
  BY RxAssumption DEF RxInit, ListOK, InPriorityOrder
<1>. QED
  BY <1>1, OrderedStep, PTL DEF RxSpec

-----------------------------------------------------------------------------
(* The one buffer: DEFAULT_RX_BUFFER_COUNT is 1 (board.h:64).                 *)
OneBuffer == \E b : Bufs = {b}

Channels == {"idle", "busy", "done", "error"}
Walks == [pkt : Bufs, rest : Seq(Callbacks)]

(* The driver holds the buffer exactly while the board has it in its list.    *)
EngineInv ==
    /\ rx_syspkt_list \in Seq(Bufs) /\ rx_pkt_list \in Nat /\ rx_pkt_valid \in BOOLEAN
    /\ rx_pkt_in_dma = rx_pkt_valid /\ (rx_pkt_valid <=> rx_syspkt_list # <<>>)
    /\ rx_channel \in Channels /\ freed \in SUBSET Bufs

(* One of the pool, the board's list, the handlers on the stack, the owners    *)
(* and the heap has the buffer.                                                *)
OnePlace ==
    Len(rx_pkt_pool) + Len(rx_syspkt_list) + Len(walks)
        + (IF owned = {} THEN 0 ELSE 1) + (IF freed = {} THEN 0 ELSE 1) = 1

(* The soc_rx_packet_t of a packet that was received waits for its buffer, so  *)
(* that no refill is refused for want of memory.                               *)
PacketKept ==
    /\ walks # <<>> \/ owned # {} => rx_pkt_list # 0
    /\ freed # {} => rx_pkt_list = 0

RxInv ==
    /\ ListOK /\ InPriorityOrder /\ EngineInv
    /\ rx_pkt_pool \in Seq(Bufs) /\ walks \in Seq(Walks) /\ owned \in SUBSET Bufs
    /\ OnePlace /\ PacketKept

(* What the sum says of each place.                                            *)
LEMMA PlaceFacts ==
    ASSUME RxInv
    PROVE  /\ Len(rx_pkt_pool) \in Nat /\ Len(rx_syspkt_list) \in Nat /\ Len(walks) \in Nat
           /\ Len(rx_pkt_pool) = 0 => rx_pkt_pool = <<>>
           /\ Len(rx_syspkt_list) = 0 => rx_syspkt_list = <<>>
           /\ Len(walks) = 0 => walks = <<>>
           /\ rx_pkt_pool # <<>> => /\ Len(rx_pkt_pool) = 1 /\ rx_syspkt_list = <<>>
                                    /\ walks = <<>> /\ owned = {} /\ freed = {}
           /\ rx_syspkt_list # <<>> => /\ Len(rx_syspkt_list) = 1 /\ rx_pkt_pool = <<>>
                                       /\ walks = <<>> /\ owned = {} /\ freed = {}
           /\ walks # <<>> => /\ Len(walks) = 1 /\ rx_pkt_pool = <<>>
                              /\ rx_syspkt_list = <<>> /\ owned = {} /\ freed = {}
           /\ owned # {} => /\ rx_pkt_pool = <<>> /\ rx_syspkt_list = <<>>
                            /\ walks = <<>> /\ freed = {}
           /\ freed # {} => rx_syspkt_list = <<>>
<1>. DEFINE a == Len(rx_pkt_pool)
            b == Len(rx_syspkt_list)
            c == Len(walks)
            d == IF owned = {} THEN 0 ELSE 1
            e == IF freed = {} THEN 0 ELSE 1
<1>1. /\ a \in Nat /\ b \in Nat /\ c \in Nat
      /\ a = 0 <=> rx_pkt_pool = <<>>
      /\ b = 0 <=> rx_syspkt_list = <<>>
      /\ c = 0 <=> walks = <<>>
  BY EmptySeq, LenProperties DEF RxInv, EngineInv
<1>2. d \in Nat /\ e \in Nat /\ (d = 0 <=> owned = {}) /\ (e = 0 <=> freed = {})
  OBVIOUS
<1>3. a + b + c + d + e = 1
  BY DEF RxInv, OnePlace
<1>. HIDE DEF a, b, c, d, e
<1>4. /\ a # 0 => a = 1 /\ b = 0 /\ c = 0 /\ d = 0 /\ e = 0
      /\ b # 0 => b = 1 /\ a = 0 /\ c = 0 /\ d = 0 /\ e = 0
      /\ c # 0 => c = 1 /\ a = 0 /\ b = 0 /\ d = 0 /\ e = 0
      /\ d # 0 => a = 0 /\ b = 0 /\ c = 0 /\ e = 0
      /\ e # 0 => b = 0
  BY <1>1, <1>2, <1>3
<1>. QED
  BY <1>1, <1>2, <1>4 DEF a, b, c

(* Filling a buffer into an engine that has none and has, or can have, a       *)
(* soc_rx_packet_t: sys_rx_refill, and sys_rx_register when it drains the pool. *)
LEMMA FillStep ==
    ASSUME EngineInv, rx_syspkt_list = <<>>, NEW b \in Bufs, NEW mem,
           ~OutOfResource(Engine(mem), b), SetEngine(Fill(Engine(mem), b))
    PROVE  EngineInv' /\ Len(rx_syspkt_list') = 1 /\ freed' = freed
<1>. DEFINE n == IF rx_pkt_list = 0 THEN 0 ELSE rx_pkt_list - 1
            e == [Engine(mem) EXCEPT !.pkts = n]
<1>1. rx_pkt_valid = FALSE /\ rx_pkt_in_dma = FALSE /\ n \in Nat
  BY DEF EngineInv
<1>2. Fill(Engine(mem), b) = Post(e, b)
  BY DEF Fill, Engine
<1>3. e = [list |-> rx_syspkt_list, pkts |-> n, mem |-> mem, valid |-> rx_pkt_valid,
           dma |-> rx_pkt_in_dma, channel |-> rx_channel, freed |-> freed]
  BY DEF Engine
<1>. HIDE DEF e, n
<1>4. Post(e, b) = [list |-> <<b>> \o rx_syspkt_list, pkts |-> n, mem |-> mem, valid |-> TRUE,
                    dma |-> TRUE, channel |-> "busy", freed |-> freed]
  BY <1>1, <1>3 DEF Post
<1>5. /\ rx_syspkt_list' = <<b>> \o rx_syspkt_list /\ rx_pkt_list' = n /\ rx_pkt_valid' = TRUE
      /\ rx_pkt_in_dma' = TRUE /\ rx_channel' = "busy" /\ freed' = freed
  BY <1>2, <1>4 DEF SetEngine
<1>6. <<>> \in Seq(Bufs) /\ Len(<<>>) = 0
  OBVIOUS
<1>7. rx_syspkt_list' \in Seq(Bufs) /\ Len(rx_syspkt_list') = 0 + 1 /\ rx_syspkt_list' # <<>>
  BY <1>5, <1>6, ConsProperties
<1>. QED
  BY <1>1, <1>5, <1>7 DEF EngineInv, Channels

LEMMA RefillStep ==
    ASSUME EngineInv, rx_pkt_list # 0, rx_syspkt_list = <<>>, rx_pkt_pool = <<>>,
           NEW b \in Bufs, Refill(b)
    PROVE  /\ EngineInv' /\ rx_pkt_pool' \in Seq(Bufs) /\ freed' = freed
           /\ Len(rx_pkt_pool') + Len(rx_syspkt_list') = 1
<1>1. <<>> \in Seq(Bufs) /\ Len(<<>>) = 0
  OBVIOUS
<1>2. CASE rx_cbk_list # <<>>
  <2>1. PICK mem \in SUBSET {b} : SetEngine(Fill(Engine(mem), b)) /\ rx_pkt_pool' = rx_pkt_pool
    BY <1>2 DEF Refill
  <2>2. ~OutOfResource(Engine(mem), b)
    BY DEF OutOfResource, Engine
  <2>3. EngineInv' /\ Len(rx_syspkt_list') = 1 /\ freed' = freed
    BY <2>1, <2>2, FillStep
  <2>. QED
    BY <1>1, <2>1, <2>3
<1>3. CASE rx_cbk_list = <<>>
  <2>1. rx_pkt_pool' = <<b>> \o rx_pkt_pool /\ UNCHANGED engineVars
    BY <1>3 DEF Refill
  <2>2. rx_pkt_pool' \in Seq(Bufs) /\ Len(rx_pkt_pool') = 0 + 1
    BY <1>1, <2>1, ConsProperties
  <2>3. EngineInv' /\ freed' = freed
    BY <2>1 DEF EngineInv, engineVars
  <2>. QED
    BY <1>1, <2>1, <2>2, <2>3 DEF engineVars
<1>. QED
  BY <1>2, <1>3

(* The walk of sys_rx_register over the pool, for at most one buffer in it.    *)
LEMMA DrainNone == ASSUME NEW e, rx_pkt_pool = <<>> PROVE Drain(e) = e
<1>. DEFINE IsIter(f) == f = [s \in SUBSET {} |-> IF s = {} THEN e
                                  ELSE DrainOne(f[s \ {Max(s)}], rx_pkt_pool[Max(s)])]
<1>1. DOMAIN rx_pkt_pool = {}
  OBVIOUS
<1>2. Drain(e) = (CHOOSE f : IsIter(f))[{}]
  BY <1>1 DEF Drain, FoldLeft, MapThenFoldSet
<1>3. IsIter([s \in SUBSET {} |-> e])
  OBVIOUS
<1>4. IsIter(CHOOSE f : IsIter(f))
  BY <1>3
<1>. QED
  BY <1>2, <1>4

LEMMA DrainSingle ==
    ASSUME NEW e, NEW b, DOMAIN rx_pkt_pool = {1}, rx_pkt_pool[1] = b
    PROVE  Drain(e) = DrainOne(e, b)
<1>. DEFINE IsIter(f) == f = [s \in SUBSET {1} |-> IF s = {} THEN e
                                  ELSE DrainOne(f[s \ {Max(s)}], rx_pkt_pool[Max(s)])]
            g == [s \in SUBSET {1} |-> IF s = {} THEN e ELSE DrainOne(e, b)]
<1>1. Drain(e) = (CHOOSE f : IsIter(f))[{1}]
  BY DEF Drain, FoldLeft, MapThenFoldSet
<1>2. Max({1}) = 1
  BY DEF Max
<1>3. ASSUME NEW s \in SUBSET {1}, s # {} PROVE s = {1} /\ s \ {Max(s)} = {} /\ Max(s) = 1
  BY <1>2, <1>3
<1>4. IsIter(g)
  <2>1. g[{}] = e
    OBVIOUS
  <2>. HIDE DEF g
  <2>2. ASSUME NEW s \in SUBSET {1}
        PROVE  (IF s = {} THEN e ELSE DrainOne(g[s \ {Max(s)}], rx_pkt_pool[Max(s)]))
                   = (IF s = {} THEN e ELSE DrainOne(e, b))
    BY <1>3, <2>1
  <2>. QED
    BY <2>2 DEF g
<1>5. IsIter(CHOOSE f : IsIter(f))
  BY <1>4
<1>6. PICK f : IsIter(f) /\ Drain(e) = f[{1}]
  BY <1>1, <1>5
<1>7. f[{}] = e
  BY <1>6
<1>8. f[{1}] = DrainOne(f[{1} \ {Max({1})}], rx_pkt_pool[Max({1})])
  <2>1. {1} \in SUBSET {1} /\ {1} # {}
    OBVIOUS
  <2>. QED
    BY <1>6, <2>1
<1>9. {1} \ {Max({1})} = {}
  BY <1>2
<1>. QED
  BY <1>2, <1>6, <1>7, <1>8, <1>9

(* The first fill of all may find no memory: then the buffer is given up.      *)
LEMMA RegisterKeeps ==
    ASSUME RxInv, NEW c \in Callbacks, Register(c)
    PROVE  /\ EngineInv' /\ rx_pkt_pool' \in Seq(Bufs) /\ UNCHANGED <<walks, owned>>
           /\ OnePlace' /\ PacketKept'
<1>1. UNCHANGED <<walks, owned>>
  BY DEF Register
<1>2. EngineInv /\ rx_pkt_pool \in Seq(Bufs) /\ OnePlace /\ PacketKept
  BY DEF RxInv
<1>3. CASE rx_cbk_list # <<>>
  <2>1. rx_pkt_pool' = rx_pkt_pool /\ UNCHANGED engineVars
    BY <1>3 DEF Register
  <2>. QED
    BY <1>1, <1>2, <2>1 DEF EngineInv, OnePlace, PacketKept, engineVars
<1>4. CASE rx_cbk_list = <<>> /\ rx_pkt_pool = <<>>
  <2>1. PICK mem : SetEngine(Drain(Engine(mem))) /\ rx_pkt_pool' = rx_pkt_pool
    BY <1>4 DEF Register
  <2>2. Drain(Engine(mem)) = Engine(mem)
    BY <1>4, DrainNone
  <2>3. rx_pkt_pool' = rx_pkt_pool /\ UNCHANGED engineVars
    BY <2>1, <2>2 DEF SetEngine, Engine, engineVars
  <2>. QED
    BY <1>1, <1>2, <2>3 DEF EngineInv, OnePlace, PacketKept, engineVars
<1>5. CASE rx_cbk_list = <<>> /\ rx_pkt_pool # <<>>
  <2>. DEFINE b == rx_pkt_pool[1]
  <2>1. /\ Len(rx_pkt_pool) = 1 /\ rx_syspkt_list = <<>> /\ walks = <<>> /\ owned = {}
        /\ freed = {} /\ DOMAIN rx_pkt_pool = {1}
    <3>1. /\ Len(rx_pkt_pool) = 1 /\ rx_syspkt_list = <<>> /\ walks = <<>> /\ owned = {}
          /\ freed = {}
      BY <1>5, PlaceFacts
    <3>2. DOMAIN rx_pkt_pool = 1..1
      BY <1>2, <3>1, LenProperties
    <3>. QED
      BY <3>1, <3>2
  <2>2. b \in Bufs
    <3>1. 1 \in 1..Len(rx_pkt_pool)
      BY <2>1
    <3>. QED
      BY <1>2, <3>1, ElementOfSeq, Zenon
  <2>3. PICK mem : SetEngine(Drain(Engine(mem))) /\ rx_pkt_pool' = <<>>
    BY <1>5 DEF Register
  <2>4. Drain(Engine(mem)) = DrainOne(Engine(mem), b)
    BY <2>1, DrainSingle
  <2>5. Len(<<>>) = 0 /\ <<>> \in Seq(Bufs) /\ Len(walks) = 0 /\ Len(walks') = 0
    BY <1>1, <2>1
  <2>. HIDE DEF b
  <2>6. CASE OutOfResource(Engine(mem), b)
    <3>1. SetEngine([Engine(mem) EXCEPT !.freed = @ \cup {b}]) /\ rx_pkt_list = 0
      BY <2>3, <2>4, <2>6 DEF DrainOne, Refused, Fill, OutOfResource, Engine
    <3>2. /\ UNCHANGED <<rx_syspkt_list, rx_pkt_list, rx_pkt_valid, rx_pkt_in_dma, rx_channel>>
          /\ freed' = {b}
      BY <2>1, <3>1 DEF SetEngine, Engine
    <3>3. EngineInv' /\ PacketKept'
      BY <1>1, <1>2, <2>1, <2>2, <3>1, <3>2 DEF EngineInv, PacketKept
    <3>4. OnePlace'
      BY <1>1, <2>1, <2>3, <2>5, <3>2 DEF OnePlace
    <3>. QED
      BY <1>1, <2>3, <2>5, <3>3, <3>4
  <2>7. CASE ~OutOfResource(Engine(mem), b)
    <3>1. ~Refused(Engine(mem), b)
      BY <1>2, <2>1, <2>7 DEF EngineInv, Refused, Engine
    <3>2. SetEngine(Fill(Engine(mem), b))
      BY <2>3, <2>4, <3>1 DEF DrainOne
    <3>3. EngineInv' /\ Len(rx_syspkt_list') = 1 /\ freed' = freed
      BY <1>2, <2>1, <2>2, <2>7, <3>2, FillStep
    <3>4. PacketKept'
      BY <1>1, <2>1, <3>3 DEF PacketKept
    <3>5. OnePlace'
      BY <1>1, <2>1, <2>3, <2>5, <3>3 DEF OnePlace
    <3>. QED
      BY <1>1, <2>3, <2>5, <3>3, <3>4, <3>5
  <2>. QED
    BY <2>6, <2>7
<1>. QED
  BY <1>3, <1>4, <1>5

(* bcm5607x_rx_direct releases the buffer before brdimpl_rx_handler takes it.  *)
LEMMA ReceiveKeeps ==
    ASSUME RxInv, Receive
    PROVE  /\ EngineInv' /\ UNCHANGED <<rx_pkt_pool, owned>>
           /\ walks' \in Seq(Walks) /\ OnePlace' /\ PacketKept'
<1>1. /\ rx_pkt_in_dma /\ UNCHANGED <<rx_pkt_pool, owned, freed>>
      /\ rx_channel' = "idle" /\ rx_pkt_valid' = FALSE /\ rx_pkt_in_dma' = FALSE
  BY DEF Receive
<1>2. /\ EngineInv /\ rx_cbk_list \in Seq(Callbacks) /\ walks \in Seq(Walks)
      /\ rx_syspkt_list \in Seq(Bufs) /\ rx_syspkt_list # <<>>
  BY <1>1 DEF RxInv, ListOK, EngineInv
<1>3. /\ Len(rx_syspkt_list) = 1 /\ rx_pkt_pool = <<>> /\ walks = <<>> /\ owned = {}
      /\ freed = {}
  BY <1>2, PlaceFacts
<1>. DEFINE w == [pkt |-> Head(rx_syspkt_list), rest |-> rx_cbk_list]
<1>4. /\ rx_syspkt_list' = Tail(rx_syspkt_list) /\ walks' = Append(walks, w)
      /\ rx_pkt_list' = rx_pkt_list + 1
  BY <1>2 DEF Receive
<1>5. /\ Head(rx_syspkt_list) \in Bufs /\ Tail(rx_syspkt_list) \in Seq(Bufs)
      /\ Len(Tail(rx_syspkt_list)) = Len(rx_syspkt_list) - 1
  BY <1>2, HeadTailProperties
<1>6. w \in Walks
  BY <1>2, <1>5 DEF Walks
<1>. HIDE DEF w
<1>7. walks' \in Seq(Walks) /\ Len(walks') = 1
  <2>1. Append(walks, w) \in Seq(Walks) /\ Len(Append(walks, w)) = Len(walks) + 1
    BY <1>2, <1>6, AppendProperties
  <2>2. Len(walks) = 0
    BY <1>3
  <2>. QED
    BY <1>4, <2>1, <2>2
<1>8. rx_syspkt_list' \in Seq(Bufs) /\ Len(rx_syspkt_list') = 0 /\ rx_syspkt_list' = <<>>
  <2>1. rx_syspkt_list' \in Seq(Bufs) /\ Len(rx_syspkt_list') = 0
    BY <1>3, <1>4, <1>5
  <2>. QED
    BY <2>1, EmptySeq
<1>9. EngineInv' /\ PacketKept'
  <2>1. rx_pkt_list \in Nat /\ rx_pkt_list' \in Nat /\ rx_pkt_list' # 0
    BY <1>2, <1>4 DEF EngineInv
  <2>. QED
    BY <1>1, <1>2, <1>3, <1>8, <2>1 DEF EngineInv, PacketKept, Channels
<1>10. Len(rx_pkt_pool) = 0
  BY <1>3
<1>. QED
  BY <1>1, <1>3, <1>7, <1>8, <1>9, <1>10 DEF OnePlace

(* A handler returns: the packet leaves the stack and is refilled or owned.    *)
LEMMA WalkFacts ==
    ASSUME RxInv, walks # <<>>
    PROVE  /\ Walk \in Walks /\ Walk = walks[1] /\ Front(walks) \in Seq(Walks)
           /\ Len(Front(walks)) = 0
<1>1. walks \in Seq(Walks) /\ Len(walks) = 1
  BY PlaceFacts DEF RxInv
<1>2. Walk = walks[1] /\ walks[1] \in Walks
  BY <1>1, ElementOfSeq DEF Walk
<1>3. Front(walks) \in Seq(Walks) /\ Len(Front(walks)) = Len(walks) - 1
  BY <1>1, FrontProperties
<1>. QED
  BY <1>1, <1>2, <1>3

LEMMA HandledKeeps ==
    ASSUME RxInv, Handled
    PROVE  /\ EngineInv' /\ rx_pkt_pool' \in Seq(Bufs) /\ UNCHANGED owned
           /\ walks' \in Seq(Walks) /\ OnePlace' /\ PacketKept'
<1>1. walks # <<>> /\ walks' = Front(walks) /\ Refill(Walk.pkt) /\ UNCHANGED owned
  BY DEF Handled
<1>2. Walk.pkt \in Bufs /\ walks' \in Seq(Walks) /\ Len(walks') = 0
  BY <1>1, WalkFacts DEF Walks
<1>3. rx_pkt_pool = <<>> /\ rx_syspkt_list = <<>> /\ owned = {} /\ freed = {}
  BY <1>1, PlaceFacts
<1>4. /\ EngineInv' /\ rx_pkt_pool' \in Seq(Bufs) /\ freed' = freed
      /\ Len(rx_pkt_pool') + Len(rx_syspkt_list') = 1
  <2>1. EngineInv /\ rx_pkt_list # 0
    BY <1>1 DEF RxInv, PacketKept
  <2>. QED
    BY <1>1, <1>2, <1>3, <2>1, RefillStep
<1>5. OnePlace'
  BY <1>1, <1>2, <1>3, <1>4 DEF OnePlace
<1>6. PacketKept'
  BY <1>1, <1>2, <1>3, <1>4, EmptySeq DEF PacketKept
<1>. QED
  BY <1>1, <1>2, <1>3, <1>4, <1>5, <1>6

LEMMA OwnedKeeps ==
    ASSUME RxInv, HandledAndOwned
    PROVE  /\ EngineInv' /\ UNCHANGED rx_pkt_pool /\ owned' \in SUBSET Bufs
           /\ walks' \in Seq(Walks) /\ OnePlace' /\ PacketKept'
<1>1. /\ walks # <<>> /\ walks' = Front(walks) /\ owned' = owned \cup {Walk.pkt}
      /\ UNCHANGED <<rx_pkt_pool, rx_syspkt_list, rx_pkt_list, rx_pkt_valid, rx_pkt_in_dma,
                     rx_channel, freed>>
  BY DEF HandledAndOwned, engineVars
<1>2. Walk.pkt \in Bufs /\ walks' \in Seq(Walks) /\ Len(walks') = 0
  BY <1>1, WalkFacts DEF Walks
<1>3. rx_pkt_pool = <<>> /\ rx_syspkt_list = <<>> /\ owned = {} /\ freed = {}
  BY <1>1, PlaceFacts
<1>4. EngineInv' /\ PacketKept'
  BY <1>1, <1>3 DEF RxInv, EngineInv, PacketKept
<1>5. owned' \in SUBSET Bufs /\ owned' # {}
  BY <1>1, <1>2, <1>3
<1>6. Len(rx_pkt_pool') = 0 /\ Len(rx_syspkt_list') = 0 /\ freed' = {}
  BY <1>1, <1>3
<1>7. OnePlace'
  BY <1>2, <1>5, <1>6 DEF OnePlace
<1>. QED
  BY <1>1, <1>2, <1>4, <1>5, <1>7

LEMMA FreeKeeps ==
    ASSUME RxInv, OneBuffer, NEW b \in Bufs, FreePacket(b)
    PROVE  /\ EngineInv' /\ rx_pkt_pool' \in Seq(Bufs) /\ owned' \in SUBSET Bufs
           /\ UNCHANGED walks /\ OnePlace' /\ PacketKept'
<1>1. b \in owned /\ owned' = owned \ {b} /\ Refill(b) /\ UNCHANGED walks
  BY DEF FreePacket
<1>2. rx_pkt_pool = <<>> /\ rx_syspkt_list = <<>> /\ walks = <<>> /\ freed = {}
  BY <1>1, PlaceFacts
<1>3. /\ EngineInv' /\ rx_pkt_pool' \in Seq(Bufs) /\ freed' = freed
      /\ Len(rx_pkt_pool') + Len(rx_syspkt_list') = 1
  <2>1. EngineInv /\ rx_pkt_list # 0
    BY <1>1 DEF RxInv, PacketKept
  <2>. QED
    BY <1>1, <1>2, <2>1, RefillStep
<1>4. owned' = {}
  BY <1>1 DEF RxInv, OneBuffer
<1>5. Len(walks') = 0
  BY <1>1, <1>2
<1>6. OnePlace'
  BY <1>1, <1>2, <1>3, <1>4, <1>5 DEF OnePlace
<1>7. PacketKept'
  BY <1>1, <1>2, <1>3, <1>4 DEF PacketKept
<1>. QED
  BY <1>1, <1>3, <1>4, <1>6, <1>7

LEMMA NotHandledKeeps ==
    ASSUME RxInv, NotHandled
    PROVE  walks' \in Seq(Walks) /\ Len(walks') = Len(walks)
<1>. DEFINE w == [walks[1] EXCEPT !.rest = Tail(@)]
<1>1. walks # <<>> /\ Walk.rest # <<>>
  BY DEF NotHandled
<1>2. walks \in Seq(Walks) /\ Len(walks) = 1 /\ Walk \in Walks /\ Walk = walks[1]
  BY <1>1, PlaceFacts, WalkFacts DEF RxInv
<1>3. walks' = [walks EXCEPT ![1] = w]
  BY <1>2 DEF NotHandled
<1>4. w \in Walks
  <2>1. walks[1].rest \in Seq(Callbacks) /\ walks[1].rest # <<>>
    BY <1>1, <1>2 DEF Walks
  <2>2. Tail(walks[1].rest) \in Seq(Callbacks)
    BY <2>1, HeadTailProperties
  <2>. QED
    BY <1>2, <2>2 DEF Walks
<1>. HIDE DEF w
<1>. QED
  BY <1>2, <1>3, <1>4, ExceptSeq

LEMMA RxStep == ASSUME OneBuffer, RxInv, [RxNext]_rxVars PROVE RxInv'
<1>1. (ListOK /\ InPriorityOrder)'
  BY OrderedStep DEF RxInv
<1>. DEFINE Kept ==
         /\ EngineInv' /\ rx_pkt_pool' \in Seq(Bufs) /\ walks' \in Seq(Walks)
         /\ owned' \in SUBSET Bufs /\ OnePlace' /\ PacketKept'
<1>. SUFFICES Kept
  BY <1>1 DEF RxInv
<1>2. /\ EngineInv /\ rx_pkt_pool \in Seq(Bufs) /\ walks \in Seq(Walks)
      /\ owned \in SUBSET Bufs /\ OnePlace /\ PacketKept
  BY DEF RxInv
<1>3. CASE \E c \in Callbacks : Register(c)
  BY <1>2, <1>3, RegisterKeeps
<1>4. CASE \E c \in Callbacks : Unregister(c)
  BY <1>2, <1>4 DEF Unregister, EngineInv, OnePlace, PacketKept, engineVars
<1>5. CASE Receive
  BY <1>2, <1>5, ReceiveKeeps
<1>6. CASE ReceiveError
  BY <1>2, <1>6 DEF ReceiveError, EngineInv, OnePlace, PacketKept, Channels
<1>7. CASE NotHandled
  <2>1. walks' \in Seq(Walks) /\ Len(walks') = Len(walks)
    BY <1>7, NotHandledKeeps
  <2>2. UNCHANGED <<rx_pkt_pool, engineVars, owned>> /\ walks # <<>>
    BY <1>7 DEF NotHandled
  <2>. QED
    BY <1>2, <2>1, <2>2 DEF EngineInv, OnePlace, PacketKept, engineVars
<1>8. CASE Handled
  BY <1>2, <1>8, HandledKeeps
<1>9. CASE HandledAndOwned
  BY <1>2, <1>9, OwnedKeeps
<1>10. CASE \E b \in Bufs : FreePacket(b)
  BY <1>2, <1>10, FreeKeeps
<1>11. CASE \E result \in {"done", "error"} : RxDmaEnds(result)
  BY <1>2, <1>11 DEF RxDmaEnds, EngineInv, OnePlace, PacketKept, Channels
<1>12. CASE UNCHANGED rxVars
  BY <1>2, <1>12 DEF rxVars, engineVars, EngineInv, OnePlace, PacketKept
<1>. QED
  BY <1>3, <1>4, <1>5, <1>6, <1>7, <1>8, <1>9, <1>10, <1>11, <1>12 DEF RxNext

LEMMA RxInitInv == ASSUME OneBuffer, RxInit PROVE RxInv
<1>1. PICK b : Bufs = {b}
  BY DEF OneBuffer
<1>2. Cardinality(Bufs) = 1
  BY <1>1, FS_Singleton
<1>3. rx_pkt_pool \in [1..1 -> Bufs]
  BY <1>2 DEF RxInit, SetToSeqs
<1>4. rx_pkt_pool \in Seq(Bufs) /\ Len(rx_pkt_pool) = 1
  <2>1. 1 \in Nat
    OBVIOUS
  <2>2. rx_pkt_pool \in Seq(Bufs)
    BY <1>3, <2>1, SeqDef
  <2>3. Len(rx_pkt_pool) \in Nat /\ 1..Len(rx_pkt_pool) = 1..1
    BY <1>3, <2>2, LenProperties
  <2>4. \A n \in Nat : 1..n = 1..1 => n = 1
    <3>. SUFFICES ASSUME NEW n \in Nat, 1..n = 1..1 PROVE n = 1
      OBVIOUS
    <3>1. 1 \in 1..n /\ 2 \notin 1..n
      OBVIOUS
    <3>. QED
      BY <3>1
  <2>. QED
    BY <2>2, <2>3, <2>4, Zenon
<1>5. Len(<<>>) = 0 /\ <<>> \in Seq(Walks) /\ <<>> \in Seq(Bufs) /\ <<>> \in Seq(Callbacks)
  OBVIOUS
<1>6. ListOK /\ InPriorityOrder
  BY <1>5, RxAssumption DEF RxInit, ListOK, InPriorityOrder
<1>7. EngineInv
  BY <1>5 DEF RxInit, EngineInv, Channels
<1>8. OnePlace /\ PacketKept
  BY <1>4, <1>5 DEF RxInit, OnePlace, PacketKept
<1>9. walks \in Seq(Walks) /\ owned \in SUBSET Bufs
  BY <1>5 DEF RxInit
<1>. QED
  BY <1>4, <1>6, <1>7, <1>8, <1>9 DEF RxInv

LEMMA IndexCount ==
    ASSUME NEW S, NEW s \in Seq(S)
    PROVE  Len(s) \in Nat /\ DOMAIN s = 1..Len(s) /\ Cardinality(1..Len(s)) = Len(s)
<1>. DEFINE n == Len(s)
<1>1. n \in Nat /\ DOMAIN s = 1..n
  BY LenProperties
<1>. HIDE DEF n
<1>2. Cardinality(1..n) = IF 1 > n THEN 0 ELSE n - 1 + 1
  BY <1>1, FS_Interval
<1>3. (IF 1 > n THEN 0 ELSE n - 1 + 1) = n
  BY <1>1
<1>. QED
  BY <1>1, <1>2, <1>3 DEF n

(* The number of places in a sequence that refer to the only buffer.           *)
LEMMA AllTheSame ==
    ASSUME NEW S, NEW s \in Seq(S), NEW b, \A i \in 1..Len(s) : s[i] = b
    PROVE  Cardinality({i \in DOMAIN s : s[i] = b}) = Len(s)
<1>1. DOMAIN s = 1..Len(s) /\ Cardinality(1..Len(s)) = Len(s)
  BY IndexCount
<1>2. {i \in DOMAIN s : s[i] = b} = 1..Len(s)
  BY <1>1
<1>. QED
  BY <1>1, <1>2

LEMMA InvPlaces == ASSUME RxInv, OneBuffer, NEW b \in Bufs PROVE Places(b) = 1
<1>1. Bufs = {b} /\ freed \in SUBSET Bufs
  BY DEF OneBuffer, RxInv, EngineInv
<1>2. rx_pkt_pool \in Seq(Bufs) /\ rx_syspkt_list \in Seq(Bufs) /\ walks \in Seq(Walks)
  BY DEF RxInv, EngineInv
<1>3. /\ \A i \in 1..Len(rx_pkt_pool) : rx_pkt_pool[i] = b
      /\ \A i \in 1..Len(rx_syspkt_list) : rx_syspkt_list[i] = b
  BY <1>1, <1>2, ElementOfSeq
<1>4. \A i \in 1..Len(walks) : walks[i].pkt = b
  <2>. TAKE i \in 1..Len(walks)
  <2>1. walks[i] \in Walks
    BY <1>2, ElementOfSeq
  <2>. QED
    BY <1>1, <2>1 DEF Walks
<1>5. /\ Cardinality({i \in DOMAIN rx_pkt_pool : rx_pkt_pool[i] = b}) = Len(rx_pkt_pool)
      /\ Cardinality({i \in DOMAIN rx_syspkt_list : rx_syspkt_list[i] = b}) = Len(rx_syspkt_list)
  BY <1>2, <1>3, AllTheSame
<1>6. Cardinality({i \in DOMAIN walks : walks[i].pkt = b}) = Len(walks)
  <2>1. DOMAIN walks = 1..Len(walks) /\ Cardinality(1..Len(walks)) = Len(walks)
    BY <1>2, IndexCount
  <2>2. {i \in DOMAIN walks : walks[i].pkt = b} = 1..Len(walks)
    BY <1>4, <2>1
  <2>. QED
    BY <2>1, <2>2
<1>7. (IF b \in owned THEN 1 ELSE 0) = (IF owned = {} THEN 0 ELSE 1)
  BY <1>1 DEF RxInv
<1>8. (IF b \in freed THEN 1 ELSE 0) = (IF freed = {} THEN 0 ELSE 1)
  BY <1>1
<1>9. Len(rx_pkt_pool) \in Nat /\ Len(rx_syspkt_list) \in Nat /\ Len(walks) \in Nat
  BY <1>2, LenProperties
<1>. QED
  BY <1>5, <1>6, <1>7, <1>8, <1>9 DEF Places, OnePlace, RxInv

(* kernel/rx.c, brd_rxtx.c and flrxtx.c: of the lists, the handlers and the    *)
(* owners exactly one has the buffer, for any number of handlers and whatever  *)
(* is registered, refused, owned and freed in between, unless the very first   *)
(* fill finds no memory: no later one can fail.                                *)
THEOREM BuffersKeptCorrect == ASSUME OneBuffer PROVE RxSpec => []BuffersKept
<1>1. RxInit => RxInv
  BY RxInitInv
<1>2. RxInv /\ [RxNext]_rxVars => RxInv'
  BY RxStep
<1>3. RxInv => BuffersKept
  <2>. SUFFICES ASSUME RxInv PROVE BuffersKept
    OBVIOUS
  <2>1. RxTypeOK
    BY DEF RxInv, ListOK, EngineInv, RxTypeOK, Walks, Channels
  <2>2. freed # {} => rx_pkt_list = 0 /\ ~rx_pkt_valid
    BY PlaceFacts DEF RxInv, EngineInv, PacketKept
  <2>. QED
    BY <2>1, <2>2, InvPlaces DEF BuffersKept
<1>. QED
  BY <1>1, <1>2, <1>3, PTL DEF RxSpec


-----------------------------------------------------------------------------
(* Transmission.  A list without repetitions is extended at its head by        *)
(* something new, and shortened there.                                         *)
LEMMA InSeq ==
    ASSUME NEW S, NEW s \in Seq(S)
    PROVE  /\ Len(s) \in Nat /\ DOMAIN s = 1..Len(s) /\ s = <<>> <=> Len(s) = 0
           /\ \A i \in 1..Len(s) : s[i] \in S
           /\ \A x : x \in ToSet(s) <=> \E i \in 1..Len(s) : s[i] = x
           /\ ToSet(s) \subseteq S
<1>1. /\ Len(s) \in Nat /\ DOMAIN s = 1..Len(s) /\ s = <<>> <=> Len(s) = 0
      /\ \A i \in 1..Len(s) : s[i] \in S
  BY LenProperties, EmptySeq, ElementOfSeq
<1>. QED
  BY <1>1 DEF ToSet

LEMMA PushDistinct ==
    ASSUME NEW S, NEW s \in Seq(S), NEW x \in S, IsInjective(s), x \notin ToSet(s)
    PROVE  /\ <<x>> \o s \in Seq(S) /\ IsInjective(<<x>> \o s)
           /\ ToSet(<<x>> \o s) = ToSet(s) \cup {x} /\ <<x>> \o s # <<>>
<1>. DEFINE u == <<x>> \o s
            n == Len(s)
<1>1. /\ u \in Seq(S) /\ Len(u) = n + 1 /\ u # <<>> /\ u[1] = x
      /\ \A i \in 1..n : u[i + 1] = s[i]
  BY ConsProperties
<1>2. /\ n \in Nat /\ \A y : y \in ToSet(s) <=> \E i \in 1..n : s[i] = y
      /\ DOMAIN s = 1..n
  BY InSeq
<1>3. /\ DOMAIN u = 1..(n + 1)
      /\ \A y : y \in ToSet(u) <=> \E i \in 1..(n + 1) : u[i] = y
  <2>1. Len(u) = n + 1
    BY <1>1
  <2>. HIDE DEF u, n
  <2>. QED
    BY <1>1, <2>1, InSeq
<1>. HIDE DEF u, n
<1>4. \A i \in 2..(n + 1) : i - 1 \in 1..n /\ u[i] = s[i - 1]
  <2>. TAKE i \in 2..(n + 1)
  <2>1. i - 1 \in 1..n /\ (i - 1) + 1 = i
    BY <1>2
  <2>. QED
    BY <1>1, <2>1
<1>5. \A i \in 1..(n + 1) : i = 1 \/ i \in 2..(n + 1)
  BY <1>2
<1>6. ToSet(u) = ToSet(s) \cup {x}
  <2>1. ASSUME NEW y \in ToSet(u) PROVE y \in ToSet(s) \cup {x}
    BY <1>1, <1>2, <1>3, <1>4, <1>5, <2>1
  <2>2. x \in ToSet(u)
    <3>1. 1 \in 1..(n + 1)
      BY <1>2
    <3>. QED
      BY <1>1, <1>3, <3>1
  <2>3. ASSUME NEW y \in ToSet(s) PROVE y \in ToSet(u)
    <3>1. PICK i \in 1..n : s[i] = y
      BY <1>2
    <3>2. i + 1 \in 1..(n + 1) /\ u[i + 1] = y
      BY <1>1, <1>2, <3>1
    <3>. QED
      BY <1>3, <3>2
  <2>. QED
    BY <2>1, <2>2, <2>3
<1>7. IsInjective(u)
  <2>1. \A i \in 2..(n + 1) : u[i] # x
    BY <1>2, <1>4
  <2>2. \A i, j \in 2..(n + 1) : u[i] = u[j] => i = j
    <3>. TAKE i, j \in 2..(n + 1)
    <3>. HAVE u[i] = u[j]
    <3>1. i - 1 = j - 1
      BY <1>2, <1>4 DEF IsInjective
    <3>. QED
      BY <3>1
  <2>3. \A i, j \in 1..(n + 1) : u[i] = u[j] => i = j
    BY <1>1, <1>5, <2>1, <2>2
  <2>. QED
    BY <1>3, <2>3 DEF IsInjective
<1>. QED
  BY <1>1, <1>6, <1>7 DEF u

LEMMA PopDistinct ==
    ASSUME NEW S, NEW s \in Seq(S), IsInjective(s), s # <<>>
    PROVE  /\ Head(s) \in S /\ Tail(s) \in Seq(S) /\ IsInjective(Tail(s))
           /\ Head(s) \notin ToSet(Tail(s)) /\ ToSet(s) = ToSet(Tail(s)) \cup {Head(s)}
<1>. DEFINE u == Tail(s)
            n == Len(s)
<1>1. /\ n \in Nat /\ n # 0 /\ DOMAIN s = 1..n
      /\ \A y : y \in ToSet(s) <=> \E i \in 1..n : s[i] = y
  BY InSeq
<1>2. /\ Head(s) = s[1] /\ Head(s) \in S /\ u \in Seq(S) /\ Len(u) = n - 1
      /\ \A i \in 1..(n - 1) : u[i] = s[i + 1]
  BY HeadTailProperties, <1>1
<1>3. /\ DOMAIN u = 1..(n - 1)
      /\ \A y : y \in ToSet(u) <=> \E i \in 1..(n - 1) : u[i] = y
  <2>. HIDE DEF u, n
  <2>. QED
    BY <1>2, InSeq
<1>. HIDE DEF u, n
<1>4. \A i \in 1..(n - 1) : i + 1 \in 1..n /\ i + 1 # 1 /\ u[i] = s[i + 1]
  BY <1>1, <1>2
<1>5. 1 \in 1..n /\ \A i \in 1..n : i = 1 \/ (i - 1 \in 1..(n - 1) /\ (i - 1) + 1 = i)
  BY <1>1
<1>6. IsInjective(u)
  <2>. SUFFICES ASSUME NEW i \in 1..(n - 1), NEW j \in 1..(n - 1), u[i] = u[j] PROVE i = j
    BY <1>3 DEF IsInjective
  <2>1. i + 1 \in DOMAIN s /\ j + 1 \in DOMAIN s /\ s[i + 1] = s[j + 1]
    BY <1>1, <1>4
  <2>2. i + 1 = j + 1
    BY <2>1 DEF IsInjective
  <2>. QED
    BY <2>2
<1>7. Head(s) \notin ToSet(u)
  <2>. SUFFICES ASSUME NEW i \in 1..(n - 1), u[i] = s[1] PROVE FALSE
    BY <1>2, <1>3
  <2>. QED
    BY <1>1, <1>4, <1>5 DEF IsInjective
<1>8. ToSet(s) = ToSet(u) \cup {Head(s)}
  <2>1. ASSUME NEW y \in ToSet(s) PROVE y \in ToSet(u) \cup {Head(s)}
    <3>1. PICK i \in 1..n : s[i] = y
      BY <1>1
    <3>2. CASE i = 1
      BY <1>2, <3>1, <3>2
    <3>3. CASE i - 1 \in 1..(n - 1) /\ (i - 1) + 1 = i
      <4>1. u[i - 1] = y
        BY <1>4, <3>1, <3>3
      <4>. QED
        BY <1>3, <3>3, <4>1
    <3>. QED
      BY <1>5, <3>2, <3>3
  <2>2. ASSUME NEW y \in ToSet(u) PROVE y \in ToSet(s)
    BY <1>1, <1>3, <1>4
  <2>3. Head(s) \in ToSet(s)
    BY <1>1, <1>2, <1>5
  <2>. QED
    BY <2>1, <2>2, <2>3
<1>. QED
  BY <1>2, <1>6, <1>7, <1>8 DEF u


(* The transmit state, and who has which soc_tx_packet_t: "hand" is the one    *)
(* that a function has taken from one place and not yet put in another.        *)
TxStates == [pool : Seq(Spkts), allocated : 0..MaxSpkts, cookie : [Spkts -> Pkts \cup {"none"}],
             queue : Seq(Spkts), dma : 0..MaxSpkts, channel : Channels, late : BOOLEAN]
CarriersIn(t) == ToSet(t.queue) \cup ({t.dma} \ {0})
Accounted(t, hand) ==
    /\ IsInjective(t.pool) /\ IsInjective(t.queue)
    /\ ToSet(t.pool) \cap ToSet(t.queue) = {}
    /\ t.dma \notin ToSet(t.pool) /\ t.dma \notin ToSet(t.queue)
    /\ hand \cap (ToSet(t.pool) \cup CarriersIn(t)) = {}
    /\ ToSet(t.pool) \cup CarriersIn(t) \cup hand = 1..t.allocated

(* The functions change some of these fields each.                             *)
LEMMA TxFields ==
    ASSUME NEW t \in TxStates
    PROVE  /\ t.pool \in Seq(Spkts) /\ t.queue \in Seq(Spkts)
           /\ t.allocated \in 0..MaxSpkts /\ t.dma \in 0..MaxSpkts
           /\ t.cookie \in [Spkts -> Pkts \cup {"none"}]
           /\ ToSet(t.pool) \subseteq Spkts /\ ToSet(t.queue) \subseteq Spkts /\ 0 \notin Spkts
           /\ CarriersIn(t) \subseteq Spkts
<1>1. /\ t.pool \in Seq(Spkts) /\ t.queue \in Seq(Spkts)
      /\ t.allocated \in 0..MaxSpkts /\ t.dma \in 0..MaxSpkts
      /\ t.cookie \in [Spkts -> Pkts \cup {"none"}]
  BY DEF TxStates
<1>2. ToSet(t.pool) \subseteq Spkts /\ ToSet(t.queue) \subseteq Spkts
  BY <1>1, InSeq
<1>3. 0 \notin Spkts /\ (t.dma # 0 => t.dma \in Spkts)
  BY <1>1, MaxSpktsAssumption DEF Spkts
<1>. QED
  BY <1>1, <1>2, <1>3 DEF CarriersIn

(* bcm5607x_tx_internal takes the packet in hand to the free channel.          *)
LEMMA TxInternalKeeps ==
    ASSUME NEW t \in TxStates, NEW s \in Spkts, Accounted(t, {s}), t.dma = 0
    PROVE  /\ TxInternal(t, s) \in TxStates /\ Accounted(TxInternal(t, s), {})
           /\ CarriersIn(TxInternal(t, s)) = CarriersIn(t) \cup {s}
           /\ TxInternal(t, s).cookie = t.cookie
<1>. DEFINE u == TxInternal(t, s)
<1>1. s \in 0..MaxSpkts /\ s # 0
  BY MaxSpktsAssumption DEF Spkts
<1>2. /\ u \in TxStates /\ u.pool = t.pool /\ u.queue = t.queue /\ u.cookie = t.cookie
      /\ u.allocated = t.allocated /\ u.dma = s
  BY <1>1 DEF TxStates, TxInternal, Channels
<1>. HIDE DEF u
<1>3. CarriersIn(u) = CarriersIn(t) \cup {s}
  BY <1>1, <1>2 DEF CarriersIn
<1>4. s \notin ToSet(t.pool) /\ s \notin ToSet(t.queue)
  BY DEF Accounted, CarriersIn
<1>5. Accounted(u, {})
  BY <1>2, <1>3, <1>4 DEF Accounted
<1>. QED
  BY <1>2, <1>3, <1>5 DEF u

(* bcm5607x_tx: to the channel or to the head of the list.                     *)
LEMMA SocTxKeeps ==
    ASSUME NEW t \in TxStates, NEW s \in Spkts, Accounted(t, {s})
    PROVE  /\ SocTx(t, s) \in TxStates /\ Accounted(SocTx(t, s), {})
           /\ CarriersIn(SocTx(t, s)) = CarriersIn(t) \cup {s}
           /\ SocTx(t, s).cookie = t.cookie
<1>1. CASE t.dma = 0
  BY <1>1, TxInternalKeeps DEF SocTx
<1>2. CASE t.dma # 0
  <2>. DEFINE u == [t EXCEPT !.queue = <<s>> \o @]
  <2>1. SocTx(t, s) = u
    BY <1>2 DEF SocTx
  <2>2. t.queue \in Seq(Spkts) /\ s \notin ToSet(t.queue) /\ s \notin ToSet(t.pool) /\ s # t.dma
    BY <1>2, TxFields DEF Accounted, CarriersIn
  <2>3. /\ <<s>> \o t.queue \in Seq(Spkts) /\ IsInjective(<<s>> \o t.queue)
        /\ ToSet(<<s>> \o t.queue) = ToSet(t.queue) \cup {s}
    BY <2>2, PushDistinct DEF Accounted
  <2>4. /\ u \in TxStates /\ u.pool = t.pool /\ u.queue = <<s>> \o t.queue
        /\ u.cookie = t.cookie /\ u.allocated = t.allocated /\ u.dma = t.dma
    BY <2>3 DEF TxStates
  <2>. HIDE DEF u
  <2>5. CarriersIn(u) = CarriersIn(t) \cup {s}
    BY <2>3, <2>4 DEF CarriersIn
  <2>6. Accounted(u, {})
    BY <2>2, <2>3, <2>4, <2>5 DEF Accounted
  <2>. QED
    BY <2>1, <2>4, <2>5, <2>6
<1>. QED
  BY <1>1, <1>2

(* brdimpl_tx: some soc_tx_packet_t that carried nothing carries p.            *)
LEMMA BoardTxKeeps ==
    ASSUME NEW t \in TxStates, Accounted(t, {}), CanSend(t), NEW p \in Pkts
    PROVE  \E s \in Spkts \ CarriersIn(t) :
              /\ BoardTx(t, p) \in TxStates /\ Accounted(BoardTx(t, p), {})
              /\ CarriersIn(BoardTx(t, p)) = CarriersIn(t) \cup {s}
              /\ BoardTx(t, p).cookie = [t.cookie EXCEPT ![s] = p]
<1>. DEFINE s == IF t.pool # <<>> THEN Head(t.pool) ELSE t.allocated + 1
            u == [t EXCEPT !.pool = IF @ # <<>> THEN Tail(@) ELSE @,
                           !.allocated = IF t.pool = <<>> THEN @ + 1 ELSE @,
                           !.cookie[s] = p]
<1>1. BoardTx(t, p) = SocTx(u, s)
  BY DEF BoardTx
<1>2. /\ s \in Spkts \ CarriersIn(t) /\ u \in TxStates /\ Accounted(u, {s})
      /\ CarriersIn(u) = CarriersIn(t) /\ u.cookie = [t.cookie EXCEPT ![s] = p]
  <2>1. CASE t.pool # <<>>
    <3>1. /\ s = Head(t.pool)
          /\ u = [t EXCEPT !.pool = Tail(@), !.allocated = @, !.cookie[s] = p]
      BY <2>1
    <3>2. /\ s \in Spkts /\ Tail(t.pool) \in Seq(Spkts) /\ IsInjective(Tail(t.pool))
          /\ s \notin ToSet(Tail(t.pool)) /\ ToSet(t.pool) = ToSet(Tail(t.pool)) \cup {s}
      BY <2>1, <3>1, TxFields, PopDistinct DEF Accounted
    <3>. HIDE DEF s
    <3>3. [t.cookie EXCEPT ![s] = p] \in [Spkts -> Pkts \cup {"none"}]
      BY <3>2, TxFields
    <3>4. /\ u \in TxStates /\ u.pool = Tail(t.pool) /\ u.queue = t.queue
          /\ u.cookie = [t.cookie EXCEPT ![s] = p] /\ u.allocated = t.allocated /\ u.dma = t.dma
      BY <3>1, <3>2, <3>3 DEF TxStates
    <3>. HIDE DEF u
    <3>5. CarriersIn(u) = CarriersIn(t) /\ s \notin CarriersIn(t)
      BY <3>2, <3>4 DEF CarriersIn, Accounted
    <3>6. Accounted(u, {s})
      BY <3>2, <3>4, <3>5 DEF Accounted
    <3>. QED
      BY <3>2, <3>4, <3>5, <3>6
  <2>2. CASE t.pool = <<>>
    <3>1. /\ s = t.allocated + 1
          /\ u = [t EXCEPT !.pool = @, !.allocated = @ + 1, !.cookie[s] = p]
      BY <2>2
    <3>2. t.allocated < MaxSpkts
      BY <2>2 DEF CanSend
    <3>3. /\ s \in Spkts /\ t.allocated + 1 \in 0..MaxSpkts /\ s \notin 1..t.allocated
          /\ 1..(t.allocated + 1) = 1..t.allocated \cup {s}
      BY <3>1, <3>2, TxFields, MaxSpktsAssumption DEF Spkts
    <3>. HIDE DEF s
    <3>4. [t.cookie EXCEPT ![s] = p] \in [Spkts -> Pkts \cup {"none"}]
      BY <3>3, TxFields
    <3>5. /\ u \in TxStates /\ u.pool = t.pool /\ u.queue = t.queue
          /\ u.cookie = [t.cookie EXCEPT ![s] = p] /\ u.allocated = t.allocated + 1
          /\ u.dma = t.dma
      BY <3>1, <3>3, <3>4 DEF TxStates
    <3>. HIDE DEF u
    <3>6. CarriersIn(u) = CarriersIn(t) /\ s \notin CarriersIn(t) /\ s \notin ToSet(t.pool)
      BY <3>3, <3>5 DEF CarriersIn, Accounted
    <3>7. Accounted(u, {s})
      BY <3>3, <3>5, <3>6 DEF Accounted
    <3>. QED
      BY <3>3, <3>5, <3>6, <3>7
  <2>. QED
    BY <2>1, <2>2
<1>. HIDE DEF s, u
<1>3. /\ SocTx(u, s) \in TxStates /\ Accounted(SocTx(u, s), {})
      /\ CarriersIn(SocTx(u, s)) = CarriersIn(u) \cup {s}
      /\ SocTx(u, s).cookie = u.cookie
  BY <1>2, SocTxKeeps
<1>. QED
  BY <1>1, <1>2, <1>3

(* rxtx_task starts the next packet of the list, whatever it has in hand.      *)
LEMMA SendNextKeeps ==
    ASSUME NEW t \in TxStates, NEW h \in Spkts, Accounted(t, {h}), t.dma = 0
    PROVE  /\ SendNext(t) \in TxStates /\ Accounted(SendNext(t), {h})
           /\ CarriersIn(SendNext(t)) = CarriersIn(t) /\ SendNext(t).cookie = t.cookie
<1>1. CASE t.queue = <<>>
  BY <1>1 DEF SendNext
<1>2. CASE t.queue # <<>>
  <2>. DEFINE s == Head(t.queue)
              u == SendNext(t)
  <2>1. u = TxInternal([t EXCEPT !.queue = Tail(@)], s)
    BY <1>2 DEF SendNext
  <2>2. /\ s \in Spkts /\ Tail(t.queue) \in Seq(Spkts) /\ IsInjective(Tail(t.queue))
        /\ s \notin ToSet(Tail(t.queue)) /\ ToSet(t.queue) = ToSet(Tail(t.queue)) \cup {s}
    BY <1>2, TxFields, PopDistinct DEF Accounted
  <2>. HIDE DEF s, u
  <2>3. s \in 0..MaxSpkts /\ s # 0
    BY <2>2, MaxSpktsAssumption DEF Spkts
  <2>4. /\ u \in TxStates /\ u.pool = t.pool /\ u.queue = Tail(t.queue) /\ u.cookie = t.cookie
        /\ u.allocated = t.allocated /\ u.dma = s
    BY <2>1, <2>2, <2>3 DEF TxStates, TxInternal, Channels
  <2>5. CarriersIn(u) = CarriersIn(t)
    BY <2>2, <2>3, <2>4 DEF CarriersIn
  <2>6. Accounted(u, {h})
    BY <2>2, <2>4, <2>5 DEF Accounted
  <2>. QED
    BY <2>4, <2>5, <2>6 DEF u
<1>. QED
  BY <1>1, <1>2

(* "Return pkt to pool" of brdimpl_tx_cbk.                                     *)
LEMMA FreeSpktKeeps ==
    ASSUME NEW t \in TxStates, NEW s \in Spkts, Accounted(t, {s})
    PROVE  /\ FreeSpkt(t, s) \in TxStates /\ Accounted(FreeSpkt(t, s), {})
           /\ CarriersIn(FreeSpkt(t, s)) = CarriersIn(t) /\ FreeSpkt(t, s).cookie = t.cookie
           /\ Head(FreeSpkt(t, s).pool) = s /\ FreeSpkt(t, s).pool # <<>>
<1>. DEFINE u == FreeSpkt(t, s)
<1>1. t.pool \in Seq(Spkts) /\ s \notin ToSet(t.pool) /\ s \notin CarriersIn(t)
  BY TxFields DEF Accounted
<1>2. /\ <<s>> \o t.pool \in Seq(Spkts) /\ IsInjective(<<s>> \o t.pool)
      /\ ToSet(<<s>> \o t.pool) = ToSet(t.pool) \cup {s}
      /\ <<s>> \o t.pool # <<>> /\ (<<s>> \o t.pool)[1] = s
  BY <1>1, PushDistinct, ConsProperties DEF Accounted
<1>3. /\ u \in TxStates /\ u.pool = <<s>> \o t.pool /\ u.queue = t.queue
      /\ u.cookie = t.cookie /\ u.allocated = t.allocated /\ u.dma = t.dma
  BY <1>2 DEF TxStates, FreeSpkt
<1>4. Head(u.pool) = s
  BY <1>2, <1>3
<1>. HIDE DEF u
<1>5. CarriersIn(u) = CarriersIn(t)
  BY <1>3 DEF CarriersIn
<1>6. s # t.dma /\ s \notin ToSet(t.queue)
  BY <1>1, MaxSpktsAssumption DEF CarriersIn, Spkts
<1>7. Accounted(u, {})
  BY <1>1, <1>2, <1>3, <1>5, <1>6 DEF Accounted
<1>. QED
  BY <1>2, <1>3, <1>4, <1>5, <1>7 DEF u


-----------------------------------------------------------------------------
(* The C stack.                                                                *)
WaitingIn(s) == {s[i].pkt : i \in {j \in DOMAIN s : s[j].kind = "sync"}}

LEMMA FrameKinds ==
    ASSUME NEW f \in Frame
    PROVE  /\ f.kind = "sync" => f.pkt \in Sync
           /\ f.kind = "rx" => f \in [kind : {"rx"}, handled : BOOLEAN]
           /\ f.kind = "sync" \/ f.kind = "rx"
  BY DEF Frame

LEMMA WaitingElement ==
    ASSUME NEW s \in Seq(Frame), NEW p
    PROVE  p \in WaitingIn(s) <=> \E i \in 1..Len(s) : s[i].kind = "sync" /\ s[i].pkt = p
  BY InSeq DEF WaitingIn

(* The senders below the top of the stack, and the one at the top.             *)
LEMMA WaitingSplit ==
    ASSUME NEW s \in Seq(Frame), NEW t \in Seq(Frame), Len(t) = Len(s) - 1, s # <<>>,
           \A i \in 1..(Len(s) - 1) : t[i] = s[i]
    PROVE  /\ s[Len(s)] \in Frame
           /\ s[Len(s)].kind = "sync" => WaitingIn(s) = WaitingIn(t) \cup {s[Len(s)].pkt}
           /\ s[Len(s)].kind = "rx" => WaitingIn(s) = WaitingIn(t)
<1>. DEFINE n == Len(s)
<1>1. n \in Nat /\ n # 0 /\ \A i \in 1..n : s[i] \in Frame
  BY InSeq
<1>2. \A p : p \in WaitingIn(s) <=> \E i \in 1..n : s[i].kind = "sync" /\ s[i].pkt = p
  BY WaitingElement
<1>3. \A p : p \in WaitingIn(t) <=> \E i \in 1..(n - 1) : t[i].kind = "sync" /\ t[i].pkt = p
  BY WaitingElement
<1>4. \A i \in 1..(n - 1) : t[i] = s[i]
  OBVIOUS
<1>. HIDE DEF n
<1>5. n \in 1..n /\ \A i \in 1..n : i = n \/ i \in 1..(n - 1)
  BY <1>1
<1>6. \A i \in 1..(n - 1) : i \in 1..n
  BY <1>1
<1>7. \A p : p \in WaitingIn(s) <=> p \in WaitingIn(t) \/ (s[n].kind = "sync" /\ s[n].pkt = p)
  BY <1>2, <1>3, <1>4, <1>5, <1>6
<1>8. s[n] \in Frame
  BY <1>1, <1>5
<1>9. s[n].kind = "sync" => WaitingIn(s) = WaitingIn(t) \cup {s[n].pkt}
  BY <1>7
<1>10. s[n].kind = "rx" => WaitingIn(s) = WaitingIn(t)
  BY <1>7
<1>. QED
  BY <1>8, <1>9, <1>10 DEF n

LEMMA StackPush ==
    ASSUME NEW s \in Seq(Frame), NEW f \in Frame
    PROVE  /\ Append(s, f) \in Seq(Frame)
           /\ f.kind = "sync" => WaitingIn(Append(s, f)) = WaitingIn(s) \cup {f.pkt}
           /\ f.kind = "rx" => WaitingIn(Append(s, f)) = WaitingIn(s)
<1>. DEFINE u == Append(s, f)
<1>1. /\ u \in Seq(Frame) /\ u # <<>> /\ Len(u) = Len(s) + 1
      /\ \A i \in 1..Len(s) : u[i] = s[i]
      /\ u[Len(s) + 1] = f
  BY AppendProperties
<1>2. Len(s) \in Nat
  BY LenProperties
<1>. HIDE DEF u
<1>3. Len(s) = Len(u) - 1 /\ u[Len(u)] = f
  BY <1>1, <1>2
<1>4. \A i \in 1..(Len(u) - 1) : s[i] = u[i]
  BY <1>1, <1>3
<1>. QED
  BY <1>1, <1>3, <1>4, WaitingSplit DEF u

LEMMA StackPop ==
    ASSUME NEW s \in Seq(Frame), s # <<>>
    PROVE  /\ Front(s) \in Seq(Frame) /\ s[Len(s)] \in Frame
           /\ s[Len(s)].kind = "sync" => WaitingIn(s) = WaitingIn(Front(s)) \cup {s[Len(s)].pkt}
           /\ s[Len(s)].kind = "rx" => WaitingIn(s) = WaitingIn(Front(s))
  BY FrontProperties, WaitingSplit

(* A handler that has sent is at its place, and waits for nothing.             *)
LEMMA SentKeeps ==
    ASSUME stack \in Seq(Frame)
    PROVE  Sent \in Seq(Frame) /\ WaitingIn(Sent) = WaitingIn(stack)
<1>1. CASE ~(stack # <<>> /\ Top.kind = "rx")
  BY <1>1 DEF Sent
<1>2. CASE stack # <<>> /\ Top.kind = "rx"
  <2>. DEFINE s == stack
              n == Len(stack)
              f == [s[n] EXCEPT !.handled = TRUE]
              u == [s EXCEPT ![n] = f]
  <2>1. n \in Nat \ {0} /\ DOMAIN s = 1..n /\ \A i \in 1..n : s[i] \in Frame
    BY <1>2, InSeq
  <2>2. n \in 1..n /\ s[n].kind = "rx" /\ s[n] \in Frame
    BY <1>2, <2>1 DEF Top
  <2>3. f \in Frame /\ f.kind = "rx"
    <3>1. s[n] \in [kind : {"rx"}, handled : BOOLEAN]
      BY <2>2, FrameKinds
    <3>. QED
      BY <3>1 DEF Frame
  <2>4. Sent = u
    BY <1>2 DEF Sent
  <2>. HIDE DEF f
  <2>5. u \in Seq(Frame) /\ Len(u) = n
    BY <2>2, <2>3, ExceptSeq
  <2>6. \A i \in 1..n : u[i] = IF i = n THEN f ELSE s[i]
    BY <2>1
  <2>. HIDE DEF u
  <2>7. ASSUME NEW p PROVE p \in WaitingIn(u) <=> p \in WaitingIn(s)
    <3>1. p \in WaitingIn(u) <=> \E i \in 1..n : u[i].kind = "sync" /\ u[i].pkt = p
      BY <2>5, WaitingElement
    <3>2. p \in WaitingIn(s) <=> \E i \in 1..n : s[i].kind = "sync" /\ s[i].pkt = p
      BY WaitingElement
    <3>. QED
      BY <2>2, <2>3, <2>6, <3>1, <3>2
  <2>. QED
    BY <2>4, <2>5, <2>7
<1>. QED
  BY <1>1, <1>2


-----------------------------------------------------------------------------
(* The inductive invariant: besides the three properties, a synchronous packet *)
(* that is out has its sender on the stack, so that its owner cannot send it   *)
(* a second time.                                                              *)
SyncOut == \A p \in Sync : outcome[p] = "out" => p \in Waiting

OwnersOK ==
    /\ internal0 \in [Sync -> {"none", "waiting"} \cup Status]
    /\ outcome \in [Pkts -> {"none", "out"} \cup Status]
    /\ stack \in Seq(Frame)

TxInv ==
    /\ Tx \in TxStates /\ Accounted(Tx, {}) /\ CarriedOnce
    /\ OwnersOK /\ OwnStatus /\ SyncOut

LEMMA CarriersOfTx == Carriers = CarriersIn(Tx) /\ cookie = Tx.cookie
  BY DEF Carriers, CarriersIn, Tx

LEMMA SetTxIs ==
    ASSUME NEW t \in TxStates, SetTx(t)
    PROVE  Tx' = t /\ Carriers' = CarriersIn(t) /\ cookie' = t.cookie
<1>1. Tx' = t
  BY DEF SetTx, Tx, TxStates
<1>. QED
  BY <1>1 DEF SetTx, Carriers, CarriersIn, Tx

(* What sys_tx and brdimpl_tx do to the transmit state when they succeed.      *)
LEMMA BoardSends ==
    ASSUME TxInv, NEW p \in Pkts, outcome[p] # "out", CanSend(Tx), SetTx(BoardTx(Tx, p)),
           outcome' = [outcome EXCEPT ![p] = "out"]
    PROVE  Tx' \in TxStates /\ Accounted(Tx', {}) /\ CarriedOnce'
<1>1. Tx \in TxStates /\ Accounted(Tx, {})
  BY DEF TxInv
<1>2. PICK s \in Spkts \ CarriersIn(Tx) :
              /\ BoardTx(Tx, p) \in TxStates /\ Accounted(BoardTx(Tx, p), {})
              /\ CarriersIn(BoardTx(Tx, p)) = CarriersIn(Tx) \cup {s}
              /\ BoardTx(Tx, p).cookie = [Tx.cookie EXCEPT ![s] = p]
  BY <1>1, BoardTxKeeps
<1>3. /\ Tx' = BoardTx(Tx, p) /\ Carriers' = Carriers \cup {s}
      /\ cookie' = [cookie EXCEPT ![s] = p] /\ s \notin Carriers
  BY <1>2, SetTxIs, CarriersOfTx
<1>4. /\ cookie \in [Spkts -> Pkts \cup {"none"}] /\ Carriers \subseteq Spkts
      /\ outcome \in [Pkts -> {"none", "out"} \cup Status] /\ CarriedOnce
  BY <1>1, TxFields, CarriersOfTx DEF TxInv, OwnersOK
<1>5. \A q \in Pkts : q \in {cookie[r] : r \in Carriers} <=> outcome[q] = "out"
  BY <1>4 DEF CarriedOnce
<1>6. cookie'[s] = p /\ \A r \in Carriers : r # s /\ cookie'[r] = cookie[r] /\ cookie[r] # p
  BY <1>2, <1>3, <1>4, <1>5
<1>7. /\ outcome'[p] = "out" /\ \A q \in Pkts \ {p} : outcome'[q] = outcome[q]
  BY <1>4
<1>8. {cookie'[r] : r \in Carriers'} = {q \in Pkts : outcome'[q] = "out"}
  <2>1. {cookie'[r] : r \in Carriers'} = {cookie[r] : r \in Carriers} \cup {p}
    BY <1>3, <1>6
  <2>2. {cookie[r] : r \in Carriers} = {q \in Pkts : outcome[q] = "out"}
    BY <1>4 DEF CarriedOnce
  <2>. QED
    BY <1>7, <2>1, <2>2
<1>9. \A s1, s2 \in Carriers' : cookie'[s1] = cookie'[s2] => s1 = s2
  <2>. TAKE s1, s2 \in Carriers'
  <2>1. \A r1, r2 \in Carriers : cookie[r1] = cookie[r2] => r1 = r2
    BY <1>4 DEF CarriedOnce
  <2>. QED
    BY <1>3, <1>6, <2>1
<1>. QED
  BY <1>2, <1>3, <1>8, <1>9 DEF CarriedOnce

(* The end of a transmission: its owner is told, and may send the packet again *)
(* if it does not poll.                                                        *)
Told(p, st) ==
    /\ outcome[p] = "out" /\ outcome' = [outcome EXCEPT ![p] = st]
    /\ p \in Sync => st \in Status /\ internal0' = [internal0 EXCEPT ![p] = st]
    /\ p \notin Sync => UNCHANGED internal0

LEMMA CompleteKeeps ==
    ASSUME TxInv, dma # 0, NEW status \in Status, Complete(status, "idle")
    PROVE  /\ Tx' \in TxStates /\ Accounted(Tx', {}) /\ CarriedOnce'
           /\ \E p \in Pkts, st \in Status \cup {"out"} : Told(p, st)
<1>. DEFINE t == [Tx EXCEPT !.dma = 0, !.channel = "idle", !.late = FALSE]
            next == SendNext(t)
            givenBack == FreeSpkt(next, dma)
            p == cookie[dma]
<1>1. Tx \in TxStates /\ Accounted(Tx, {})
  BY DEF TxInv
<1>2. dma \in Spkts /\ dma \in Carriers
  <2>1. dma \in 0..MaxSpkts /\ Tx.dma = dma
    BY <1>1, TxFields DEF Tx
  <2>. QED
    BY <2>1, MaxSpktsAssumption DEF Spkts, Carriers
<1>3. t \in TxStates /\ t.dma = 0 /\ Accounted(t, {dma}) /\ CarriersIn(t) = Carriers \ {dma}
  <2>1. /\ t \in TxStates /\ t.pool = Tx.pool /\ t.queue = Tx.queue
        /\ t.allocated = Tx.allocated /\ t.dma = 0 /\ Tx.dma = dma
    <3>1. Tx.dma = dma /\ 0 \in 0..MaxSpkts
      BY MaxSpktsAssumption DEF Tx
    <3>2. \A u \in TxStates : \A v \in TxStates :
             v = [u EXCEPT !.dma = 0, !.channel = "idle", !.late = FALSE]
                => v.pool = u.pool /\ v.queue = u.queue /\ v.allocated = u.allocated /\ v.dma = 0
      BY DEF TxStates
    <3>3. t \in TxStates
      BY <1>1, <3>1 DEF TxStates, Channels
    <3>. QED
      BY <1>1, <3>1, <3>2, <3>3
  <2>. HIDE DEF t
  <2>2. dma \notin ToSet(Tx.pool) /\ dma \notin ToSet(Tx.queue)
    BY <1>1, <2>1 DEF Accounted
  <2>3. CarriersIn(t) = CarriersIn(Tx) \ {dma}
    BY <2>1, <2>2, dma # 0 DEF CarriersIn
  <2>4. 0 \notin ToSet(Tx.pool) /\ 0 \notin ToSet(Tx.queue)
    BY <1>1, TxFields
  <2>5. Accounted(t, {dma})
    BY <1>1, <1>2, <2>1, <2>2, <2>3, <2>4, CarriersOfTx DEF Accounted
  <2>. QED
    BY <2>1, <2>3, <2>5, CarriersOfTx
<1>4. t.cookie = cookie
  BY DEF Tx
<1>5. /\ next \in TxStates /\ Accounted(next, {dma})
      /\ CarriersIn(next) = Carriers \ {dma} /\ next.cookie = cookie
  <2>. HIDE DEF t
  <2>. QED
    BY <1>2, <1>3, <1>4, SendNextKeeps
<1>6. /\ givenBack \in TxStates /\ Accounted(givenBack, {}) /\ givenBack.pool # <<>>
      /\ CarriersIn(givenBack) = Carriers \ {dma} /\ givenBack.cookie = cookie
  <2>. HIDE DEF next
  <2>. QED
    BY <1>2, <1>5, FreeSpktKeeps
<1>7. /\ cookie \in [Spkts -> Pkts \cup {"none"}] /\ Carriers \subseteq Spkts
      /\ outcome \in [Pkts -> {"none", "out"} \cup Status]
      /\ {cookie[r] : r \in Carriers} = {q \in Pkts : outcome[q] = "out"}
      /\ \A r1, r2 \in Carriers : cookie[r1] = cookie[r2] => r1 = r2
  BY <1>1, TxFields, CarriersOfTx DEF TxInv, OwnersOK, CarriedOnce
<1>8. p \in Pkts /\ outcome[p] = "out"
  BY <1>2, <1>7
<1>9. \/ /\ SetTx(givenBack) /\ outcome' = [outcome EXCEPT ![p] = status]
         /\ \/ p \in Sync /\ internal0' = [internal0 EXCEPT ![p] = status]
            \/ p \in Async /\ UNCHANGED internal0
      \/ /\ p \in Async /\ UNCHANGED internal0
         /\ SetTx(BoardTx(givenBack, p)) /\ outcome' = [outcome EXCEPT ![p] = "out"]
  BY DEF Complete, Completed
<1>. HIDE DEF givenBack, t, next, p
<1>10. Status \cap {"out"} = {}
  BY DEF Status
<1>11. \E q \in Pkts, st \in Status \cup {"out"} : Told(q, st)
  BY <1>8, <1>9, PktsAssumption DEF Told
<1>12. CASE SetTx(givenBack) /\ outcome' = [outcome EXCEPT ![p] = status]
  <2>1. Tx' = givenBack /\ Carriers' = Carriers \ {dma} /\ cookie' = cookie
    BY <1>6, <1>12, SetTxIs
  <2>2. outcome'[p] # "out" /\ \A q \in Pkts \ {p} : outcome'[q] = outcome[q]
    BY <1>7, <1>8, <1>10, <1>12
  <2>3. \A r \in Carriers : cookie[r] = p <=> r = dma
    BY <1>2, <1>7 DEF p
  <2>4. {cookie[r] : r \in Carriers \ {dma}} = {q \in Pkts : outcome'[q] = "out"}
    BY <1>7, <1>8, <2>2, <2>3
  <2>5. CarriedOnce'
    BY <1>7, <2>1, <2>4 DEF CarriedOnce
  <2>. QED
    BY <1>6, <1>11, <2>1, <2>5
<1>13. CASE SetTx(BoardTx(givenBack, p)) /\ outcome' = [outcome EXCEPT ![p] = "out"]
  <2>1. CanSend(givenBack)
    BY <1>6 DEF CanSend
  <2>2. PICK s \in Spkts \ CarriersIn(givenBack) :
              /\ BoardTx(givenBack, p) \in TxStates /\ Accounted(BoardTx(givenBack, p), {})
              /\ CarriersIn(BoardTx(givenBack, p)) = CarriersIn(givenBack) \cup {s}
              /\ BoardTx(givenBack, p).cookie = [givenBack.cookie EXCEPT ![s] = p]
    BY <1>6, <1>8, <2>1, BoardTxKeeps
  <2>3. /\ Tx' = BoardTx(givenBack, p) /\ Carriers' = (Carriers \ {dma}) \cup {s}
        /\ cookie' = [cookie EXCEPT ![s] = p] /\ s \notin Carriers \ {dma}
    BY <1>6, <1>13, <2>2, SetTxIs
  <2>4. outcome' = outcome
    BY <1>7, <1>8, <1>13
  <2>5. \A r \in Carriers : cookie[r] = p <=> r = dma
    BY <1>2, <1>7 DEF p
  <2>6. /\ cookie'[s] = p
        /\ \A r \in Carriers \ {dma} : r # s /\ cookie'[r] = cookie[r] /\ cookie[r] # p
    BY <1>7, <2>2, <2>3, <2>5
  <2>7. {cookie'[r] : r \in Carriers'} = {cookie[r] : r \in Carriers}
    <3>1. {cookie'[r] : r \in Carriers'} = {cookie[r] : r \in Carriers \ {dma}} \cup {p}
      BY <2>3, <2>6
    <3>2. {cookie[r] : r \in Carriers} = {cookie[r] : r \in Carriers \ {dma}} \cup {p}
      BY <1>2, <2>5
    <3>. QED
      BY <3>1, <3>2
  <2>8. \A s1, s2 \in Carriers' : cookie'[s1] = cookie'[s2] => s1 = s2
    BY <1>7, <2>3, <2>6
  <2>9. CarriedOnce'
    BY <1>7, <2>4, <2>7, <2>8 DEF CarriedOnce
  <2>. QED
    BY <1>11, <2>2, <2>3, <2>9
<1>. QED
  BY <1>9, <1>12, <1>13


LEMMA WaitingIsSync == ASSUME stack \in Seq(Frame) PROVE Waiting = WaitingIn(stack) /\ Waiting \subseteq Sync
<1>1. Waiting = WaitingIn(stack)
  BY DEF Waiting, WaitingIn
<1>2. ASSUME NEW p \in WaitingIn(stack) PROVE p \in Sync
  <2>1. PICK i \in 1..Len(stack) : stack[i].kind = "sync" /\ stack[i].pkt = p
    BY <1>2, WaitingElement
  <2>2. stack[i] \in Frame
    BY <2>1, InSeq
  <2>. QED
    BY <2>1, <2>2, FrameKinds
<1>. QED
  BY <1>1, <1>2

LEMMA WaitingNext == Waiting' = WaitingIn(stack')
  BY DEF Waiting, WaitingIn

LEMMA ToldKeeps ==
    ASSUME TxInv, NEW p \in Pkts, NEW st \in Status \cup {"out"}, Told(p, st),
           stack' \in Seq(Frame), Waiting' = Waiting
    PROVE  (OwnersOK /\ OwnStatus /\ SyncOut)'
<1>1. /\ internal0 \in [Sync -> {"none", "waiting"} \cup Status]
      /\ outcome \in [Pkts -> {"none", "out"} \cup Status]
      /\ Waiting \subseteq Sync /\ Sync \subseteq Pkts
  BY WaitingIsSync DEF TxInv, OwnersOK, Pkts
<1>2. outcome'[p] = st /\ \A q \in Pkts \ {p} : outcome'[q] = outcome[q]
  BY <1>1 DEF Told
<1>3. /\ p \in Sync => st \in Status /\ internal0'[p] = st
      /\ \A q \in Sync \ {p} : internal0'[q] = internal0[q]
  BY <1>1 DEF Told
<1>4. "out" \notin Status
  BY DEF Status
<1>5. OwnersOK'
  BY <1>1 DEF Told, OwnersOK
<1>6. OwnStatus'
  <2>. SUFFICES ASSUME NEW q \in Waiting
                PROVE  internal0'[q] = IF outcome'[q] = "out" THEN "waiting" ELSE outcome'[q]
    BY DEF OwnStatus
  <2>1. internal0[q] = IF outcome[q] = "out" THEN "waiting" ELSE outcome[q]
    BY DEF TxInv, OwnStatus
  <2>. QED
    BY <1>1, <1>2, <1>3, <1>4, <2>1
<1>7. SyncOut'
  <2>. SUFFICES ASSUME NEW q \in Sync, outcome'[q] = "out" PROVE q \in Waiting
    BY DEF SyncOut
  <2>1. q # p
    BY <1>2, <1>3, <1>4
  <2>. QED
    BY <1>1, <1>2, <2>1 DEF TxInv, SyncOut
<1>. QED
  BY <1>5, <1>6, <1>7

(* Steps that move no packet.                                                  *)
LEMMA ChannelKeeps ==
    ASSUME TxInv, UNCHANGED <<pool, allocated, cookie, queue, dma, outcome>>,
           channel' \in Channels, late' \in BOOLEAN
    PROVE  Tx' \in TxStates /\ Accounted(Tx', {}) /\ CarriedOnce'
<1>1. Tx \in TxStates /\ Accounted(Tx, {}) /\ CarriedOnce
  BY DEF TxInv
<1>2. /\ pool \in Seq(Spkts) /\ allocated \in 0..MaxSpkts /\ queue \in Seq(Spkts)
      /\ cookie \in [Spkts -> Pkts \cup {"none"}] /\ dma \in 0..MaxSpkts
  BY <1>1, TxFields DEF Tx
<1>3. Tx' \in TxStates
  BY <1>2 DEF TxStates, Tx
<1>4. /\ Tx'.pool = Tx.pool /\ Tx'.queue = Tx.queue /\ Tx'.dma = Tx.dma
      /\ Tx'.allocated = Tx.allocated
  BY DEF Tx
<1>5. Accounted(Tx', {})
  BY <1>1, <1>4 DEF Accounted, CarriersIn
<1>6. CarriedOnce'
  BY <1>1 DEF CarriedOnce, Carriers
<1>. QED
  BY <1>3, <1>5, <1>6

LEMMA TxTypes ==
    ASSUME TxInv
    PROVE  /\ dma \in 0..MaxSpkts /\ channel \in Channels /\ late \in BOOLEAN
           /\ internal0 \in [Sync -> {"none", "waiting"} \cup Status]
           /\ outcome \in [Pkts -> {"none", "out"} \cup Status]
           /\ stack \in Seq(Frame) /\ Waiting \subseteq Sync /\ Sync \subseteq Pkts
           /\ Async \subseteq Pkts /\ Sync \cap Async = {}
<1>1. Tx.dma = dma /\ Tx.channel = channel /\ Tx.late = late
  BY DEF Tx
<1>2. dma \in 0..MaxSpkts /\ channel \in Channels /\ late \in BOOLEAN
  BY <1>1 DEF TxInv, TxStates
<1>. QED
  BY <1>2, WaitingIsSync, PktsAssumption DEF TxInv, OwnersOK, Pkts

(* The transmit half of rxtx_task, run with whatever senders on the stack.     *)
LEMMA TxHalfKeeps ==
    ASSUME TxInv, TxHalf, stack' \in Seq(Frame), Waiting' = Waiting
    PROVE  TxInv'
<1>1. ASSUME UNCHANGED <<pool, allocated, cookie, queue, dma, late, internal0, outcome>>,
             channel' \in Channels
      PROVE  TxInv'
  <2>1. Tx' \in TxStates /\ Accounted(Tx', {}) /\ CarriedOnce'
    BY <1>1, TxTypes, ChannelKeeps
  <2>2. (OwnersOK /\ OwnStatus /\ SyncOut)'
    BY <1>1, TxTypes DEF TxInv, OwnersOK, OwnStatus, SyncOut
  <2>. QED
    BY <2>1, <2>2 DEF TxInv
<1>2. ASSUME dma # 0, NEW status \in Status, Complete(status, "idle") PROVE TxInv'
  <2>1. /\ Tx' \in TxStates /\ Accounted(Tx', {}) /\ CarriedOnce'
        /\ \E p \in Pkts, st \in Status \cup {"out"} : Told(p, st)
    BY <1>2, CompleteKeeps
  <2>2. (OwnersOK /\ OwnStatus /\ SyncOut)'
    BY <2>1, ToldKeeps
  <2>. QED
    BY <2>1, <2>2 DEF TxInv
<1>3. "ok" \in Status /\ "timeout" \in Status
  BY DEF Status
<1>4. CASE dma # 0 /\ channel = "done" /\ Complete("ok", "idle")
  BY <1>2, <1>3, <1>4
<1>5. CASE dma # 0 /\ channel # "done" /\ late /\ Complete("timeout", "idle")
  BY <1>2, <1>3, <1>5
<1>6. CASE /\ dma # 0 /\ channel # "done" /\ ~late
           /\ channel' = IF channel = "error" THEN "idle" ELSE channel
           /\ UNCHANGED <<pool, allocated, cookie, queue, dma, late, internal0, outcome>>
  BY <1>1, <1>6, TxTypes DEF Channels
<1>7. CASE /\ dma = 0
           /\ UNCHANGED <<pool, allocated, cookie, queue, dma, channel, late, internal0, outcome>>
  BY <1>1, <1>7, TxTypes
<1>. QED
  BY <1>4, <1>5, <1>6, <1>7 DEF TxHalf

LEMMA SendAsyncKeeps == ASSUME TxInv, NEW p \in Async, SendAsync(p) PROVE TxInv'
<1>1. /\ p \in Pkts /\ p \notin Sync /\ outcome[p] # "out" /\ CanSend(Tx)
      /\ SetTx(BoardTx(Tx, p)) /\ outcome' = [outcome EXCEPT ![p] = "out"]
      /\ stack' = Sent /\ UNCHANGED internal0
  BY TxTypes DEF SendAsync
<1>2. Tx' \in TxStates /\ Accounted(Tx', {}) /\ CarriedOnce'
  BY <1>1, BoardSends
<1>3. stack' \in Seq(Frame) /\ Waiting' = Waiting
  BY <1>1, TxTypes, SentKeeps, WaitingIsSync, WaitingNext
<1>4. outcome' \in [Pkts -> {"none", "out"} \cup Status] /\ \A q \in Sync : outcome'[q] = outcome[q]
  BY <1>1, TxTypes
<1>5. OwnersOK'
  BY <1>1, <1>3, <1>4, TxTypes DEF OwnersOK
<1>6. OwnStatus' /\ SyncOut'
  BY <1>1, <1>3, <1>4, TxTypes DEF TxInv, OwnStatus, SyncOut
<1>. QED
  BY <1>2, <1>5, <1>6 DEF TxInv

LEMMA SendSyncKeeps == ASSUME TxInv, NEW p \in Sync, SendSync(p) PROVE TxInv'
<1>1. /\ p \in Pkts /\ p \notin Waiting /\ outcome[p] # "out"
      /\ internal0' = [internal0 EXCEPT ![p] = "waiting"]
  BY TxTypes DEF SendSync, TxInv, SyncOut
<1>2. /\ internal0' \in [Sync -> {"none", "waiting"} \cup Status] /\ internal0'[p] = "waiting"
      /\ \A q \in Waiting : q # p /\ internal0'[q] = internal0[q]
  BY <1>1, TxTypes
<1>3. Sent \in Seq(Frame) /\ WaitingIn(Sent) = Waiting
  BY TxTypes, SentKeeps, WaitingIsSync
<1>4. CASE /\ CanSend(Tx) /\ SetTx(BoardTx(Tx, p)) /\ outcome' = [outcome EXCEPT ![p] = "out"]
           /\ stack' = Append(Sent, [kind |-> "sync", pkt |-> p])
  <2>1. Tx' \in TxStates /\ Accounted(Tx', {}) /\ CarriedOnce'
    BY <1>1, <1>4, BoardSends
  <2>2. [kind |-> "sync", pkt |-> p] \in Frame
    BY DEF Frame
  <2>3. stack' \in Seq(Frame) /\ Waiting' = Waiting \cup {p}
    BY <1>3, <1>4, <2>2, StackPush, WaitingNext
  <2>4. /\ outcome' \in [Pkts -> {"none", "out"} \cup Status] /\ outcome'[p] = "out"
        /\ \A q \in Sync \ {p} : outcome'[q] = outcome[q]
    BY <1>1, <1>4, TxTypes
  <2>5. OwnersOK'
    BY <1>2, <2>3, <2>4 DEF OwnersOK
  <2>6. OwnStatus'
    BY <1>2, <2>3, <2>4, TxTypes DEF TxInv, OwnStatus
  <2>7. SyncOut'
    BY <2>3, <2>4 DEF TxInv, SyncOut
  <2>. QED
    BY <2>1, <2>5, <2>6, <2>7 DEF TxInv
<1>5. CASE /\ stack' = Sent
           /\ UNCHANGED <<pool, allocated, cookie, queue, dma, channel, late, outcome>>
  <2>1. Tx' \in TxStates /\ Accounted(Tx', {}) /\ CarriedOnce'
    BY <1>5, TxTypes, ChannelKeeps
  <2>2. stack' \in Seq(Frame) /\ Waiting' = Waiting
    BY <1>3, <1>5, WaitingNext
  <2>3. OwnersOK' /\ OwnStatus' /\ SyncOut'
    BY <1>2, <1>5, <2>2, TxTypes DEF TxInv, OwnersOK, OwnStatus, SyncOut
  <2>. QED
    BY <2>1, <2>3 DEF TxInv
<1>. QED
  BY <1>4, <1>5 DEF SendSync

(* The sender at the top of the stack returns because its packet is not out.   *)
LEMMA SyncReturnKeeps == ASSUME TxInv, SyncReturn PROVE TxInv'
<1>1. /\ stack # <<>> /\ Top.kind = "sync" /\ internal0[Top.pkt] # "waiting"
      /\ stack' = Front(stack)
      /\ UNCHANGED <<pool, allocated, cookie, queue, dma, channel, late, internal0, outcome>>
  BY DEF SyncReturn
<1>2. Tx' \in TxStates /\ Accounted(Tx', {}) /\ CarriedOnce'
  BY <1>1, TxTypes, ChannelKeeps
<1>3. stack' \in Seq(Frame) /\ Waiting = Waiting' \cup {Top.pkt}
  BY <1>1, TxTypes, StackPop, WaitingIsSync, WaitingNext DEF Top
<1>4. outcome[Top.pkt] # "out"
  BY <1>1, <1>3 DEF TxInv, OwnStatus
<1>5. OwnersOK' /\ OwnStatus' /\ SyncOut'
  BY <1>1, <1>3, <1>4 DEF TxInv, OwnersOK, OwnStatus, SyncOut
<1>. QED
  BY <1>2, <1>5 DEF TxInv

LEMMA TxStep == TxInv /\ [Next]_vars => TxInv'
<1>. SUFFICES ASSUME TxInv, [Next]_vars PROVE TxInv'
  OBVIOUS
<1>1. ASSUME UNCHANGED <<pool, allocated, cookie, queue, dma, internal0, outcome>>,
             channel' \in Channels, late' \in BOOLEAN, stack' \in Seq(Frame), Waiting' = Waiting
      PROVE  TxInv'
  <2>1. Tx' \in TxStates /\ Accounted(Tx', {}) /\ CarriedOnce'
    BY <1>1, ChannelKeeps
  <2>2. OwnersOK' /\ OwnStatus' /\ SyncOut'
    BY <1>1 DEF TxInv, OwnersOK, OwnStatus, SyncOut
  <2>. QED
    BY <2>1, <2>2 DEF TxInv
<1>2. stack' = stack => stack' \in Seq(Frame) /\ Waiting' = Waiting
  BY TxTypes, WaitingIsSync, WaitingNext
<1>3. CASE \E p \in Async : SendAsync(p)
  BY <1>3, SendAsyncKeeps
<1>4. CASE \E p \in Sync : SendSync(p)
  BY <1>4, SendSyncKeeps
<1>5. CASE SyncReturn
  BY <1>5, SyncReturnKeeps
<1>6. CASE RxtxTask
  BY <1>2, <1>6, TxHalfKeeps DEF RxtxTask
<1>7. CASE RxDirect
  <2>1. [kind |-> "rx", handled |-> FALSE] \in Frame
    BY DEF Frame
  <2>2. stack' \in Seq(Frame) /\ Waiting' = Waiting
    BY <1>7, <2>1, TxTypes, StackPush, WaitingIsSync, WaitingNext DEF RxDirect
  <2>. QED
    BY <1>1, <1>7, <2>2, TxTypes DEF RxDirect
<1>8. CASE RxReturn
  <2>1. stack' \in Seq(Frame) /\ Waiting' = Waiting
    BY <1>8, TxTypes, StackPop, WaitingIsSync, WaitingNext DEF RxReturn, Top
  <2>. QED
    BY <1>8, <2>1, TxHalfKeeps DEF RxReturn
<1>9. CASE \E result \in {"done", "error"} : DmaEnds(result)
  BY <1>1, <1>2, <1>9, TxTypes DEF DmaEnds, Channels
<1>10. CASE Expire
  BY <1>1, <1>2, <1>10, TxTypes DEF Expire
<1>11. CASE UNCHANGED vars
  BY <1>1, <1>2, <1>11, TxTypes DEF vars
<1>. QED
  BY <1>3, <1>4, <1>5, <1>6, <1>7, <1>8, <1>9, <1>10, <1>11 DEF Next

LEMMA TxInitInv == ASSUME Init PROVE TxInv
<1>1. <<>> \in Seq(Spkts) /\ <<>> \in Seq(Frame) /\ ToSet(<<>>) = {} /\ IsInjective(<<>>)
  BY DEF ToSet, IsInjective
<1>2. 0 \in 0..MaxSpkts /\ 1..0 = {}
  BY MaxSpktsAssumption
<1>3. Tx = [pool |-> <<>>, allocated |-> 0, cookie |-> [s \in Spkts |-> "none"], queue |-> <<>>,
            dma |-> 0, channel |-> "idle", late |-> FALSE]
  BY DEF Tx, Init
<1>4. Tx \in TxStates
  BY <1>1, <1>2, <1>3 DEF TxStates, Channels
<1>5. Carriers = {} /\ Waiting = {}
  BY <1>1 DEF Init, Carriers, Waiting
<1>6. CarriersIn(Tx) = {} /\ Tx.pool = <<>> /\ Tx.queue = <<>> /\ Tx.dma = 0 /\ Tx.allocated = 0
  BY <1>3, <1>5, CarriersOfTx
<1>7. Accounted(Tx, {})
  BY <1>1, <1>2, <1>6 DEF Accounted
<1>8. outcome = [p \in Pkts |-> "none"] /\ internal0 = [p \in Sync |-> "none"] /\ stack = <<>>
  BY DEF Init
<1>9. CarriedOnce /\ OwnStatus /\ SyncOut
  BY <1>5, <1>8 DEF CarriedOnce, OwnStatus, SyncOut, Pkts
<1>10. OwnersOK
  BY <1>1, <1>8 DEF OwnersOK
<1>. QED
  BY <1>4, <1>7, <1>9, <1>10 DEF TxInv

LEMMA TxInvariant == Spec => []TxInv
<1>1. Init => TxInv
  BY TxInitInv
<1>. QED
  BY <1>1, TxStep, PTL DEF Spec

(* brd_rxtx.c and flrxtx.c: each soc_tx_packet_t allocated is in the pool, in  *)
(* the list or in the channel, and in one of them, for any number of packets   *)
(* and any depth of calls nested in POLL() and in callbacks.                   *)
THEOREM SpktsAccountedCorrect == Spec => []SpktsAccounted
<1>1. TxInv => SpktsAccounted
  <2>. SUFFICES ASSUME TxInv PROVE SpktsAccounted
    OBVIOUS
  <2>1. Tx \in TxStates /\ Accounted(Tx, {})
    BY DEF TxInv
  <2>2. /\ Tx.pool = pool /\ Tx.queue = queue /\ Tx.dma = dma /\ Tx.allocated = allocated
        /\ Tx.cookie = cookie
    BY DEF Tx
  <2>3. /\ IsInjective(pool) /\ IsInjective(queue) /\ ToSet(pool) \cap ToSet(queue) = {}
        /\ dma \notin ToSet(pool) \cup ToSet(queue) /\ ToSet(pool) \cup Carriers = 1..allocated
    BY <2>1, <2>2, CarriersOfTx DEF Accounted
  <2>4. /\ pool \in Seq(Spkts) /\ queue \in Seq(Spkts) /\ allocated \in 0..MaxSpkts
        /\ cookie \in [Spkts -> Pkts \cup {"none"}]
    BY <2>1, <2>2, TxFields
  <2>5. TypeOK
    BY <2>3, <2>4, TxTypes DEF TypeOK, Channels
  <2>. QED
    BY <2>3, <2>5 DEF SpktsAccounted
<1>. QED
  BY <1>1, TxInvariant, PTL

(* kernel/tx.c and brd_rxtx.c: a packet whose owner was not told yet is in one *)
(* soc_tx_packet_t, and any other in none: what is polled for is on its way,   *)
(* and no callback is called twice.                                            *)
THEOREM CarriedOnceCorrect == Spec => []CarriedOnce
<1>1. TxInv => CarriedOnce
  BY DEF TxInv
<1>. QED
  BY <1>1, TxInvariant, PTL

(* sys_tx and sys_tx_sync_cbk: internal0 has what became of the sender's own   *)
(* packet, whichever nested call completed it and however many are nested.     *)
THEOREM OwnStatusCorrect == Spec => []OwnStatus
<1>1. TxInv => OwnStatus
  BY DEF TxInv
<1>. QED
  BY <1>1, TxInvariant, PTL
=============================================================================
