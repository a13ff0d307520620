----------------------------- MODULE Appl_proofs -----------------------------
(* The applications whose work is a walk over a table.                        *)
(*                                                                            *)
(* Saved settings, for any number of serializers, values, images and any      *)
(* interleaving of resets.  The flash holds the items of the last save that   *)
(* completed or is not valid, which refines SavedMedium; and while nothing    *)
(* failed since the boot it has every setting.                                *)
(*                                                                            *)
(* IGMP snooping, for any groups, addresses, ports and sizes of the tables.   *)
(* Groups that share an address have one pioneer through every take-over, and *)
(* the multicast goes to the members and the routers wherever the code takes  *)
(* care that it does.                                                         *)
EXTENDS Settings, IgmpSnoop, SequenceTheorems, FiniteSetTheorems, WellFoundedInduction, TLAPS

-----------------------------------------------------------------------------
(* Numbers and folds.  A set of numbers has a least one.                       *)
LEMMA LeastNumber ==
    ASSUME NEW S \in SUBSET Nat, S # {}
    PROVE  \E i \in S : \A j \in S : i <= j
<1>. DEFINE R == OpToRel(<, Nat)
<1>1. \A i, j \in Nat : <<j, i>> \in R <=> j < i
  BY DEF OpToRel
<1>2. IsWellFoundedOn(R, Nat)
  BY NatLessThanWellFounded
<1>. HIDE DEF R
<1>3. PICK i \in S : \A j \in S : ~(<<j, i>> \in R)
  BY <1>2, WFMin, S \subseteq Nat
<1>4. \A j \in S : i <= j
  <2>. TAKE j \in S
  <2>1. i \in Nat /\ j \in Nat
    OBVIOUS
  <2>2. ~(<<j, i>> \in R)
    BY <1>3
  <2>3. ~(j < i)
    BY <1>1, <2>1, <2>2
  <2>. QED
    BY <2>1, <2>3
<1>. QED
  BY <1>4

LEMMA LastOfInterval ==
    ASSUME NEW k \in Nat \ {0}
    PROVE  /\ (1..k) \ {k} = 1..(k - 1) /\ k \in 1..k /\ 1..k # {} /\ 1..0 = {}
           /\ \A s \in SUBSET (1..k) : k \in s => Max(s) = k
<1>1. (1..k) \ {k} = 1..(k - 1) /\ k \in 1..k /\ 1..k # {} /\ 1..0 = {}
  OBVIOUS
<1>2. ASSUME NEW s \in SUBSET (1..k), k \in s PROVE Max(s) = k
  <2>1. \A y \in s : k >= y
    BY <1>2
  <2>2. \A x \in s : (\A y \in s : x >= y) => x = k
    BY <1>2
  <2>. QED
    BY <1>2, <2>1, <2>2 DEF Max
<1>. QED
  BY <1>1, <1>2

LEMMA GreatestNumber ==
    ASSUME NEW n \in Nat, NEW s \in SUBSET (1..n), s # {}
    PROVE  Max(s) \in s
<1>. DEFINE T == {n - x : x \in s}
<1>1. T \in SUBSET Nat /\ T # {}
  <2>1. \A x \in s : n - x \in Nat
    OBVIOUS
  <2>. QED
    BY <2>1
<1>2. PICK i \in T : \A j \in T : i <= j
  <2>. HIDE DEF T
  <2>. QED
    BY <1>1, LeastNumber
<1>3. PICK x \in s : i = n - x
  BY <1>2
<1>4. \A y \in s : x >= y
  <2>. TAKE y \in s
  <2>1. n - y \in T
    OBVIOUS
  <2>2. x \in 1..n /\ y \in 1..n
    OBVIOUS
  <2>3. n - x <= n - y
    BY <1>2, <1>3, <2>1
  <2>. QED
    BY <2>2, <2>3
<1>. QED
  BY <1>4 DEF Max

(* Folds.  A step that is closed on X can be repeated along a sequence.       *)
Iterates(f, n, base, op, seq) ==
    f = [s \in SUBSET (1..n) |->
            IF s = {} THEN base ELSE op[<<f[s \ {Max(s)}], seq[Max(s)]>>]]

LEMMA FoldExists ==
    ASSUME NEW n \in Nat, NEW X, NEW D, NEW base \in X, NEW op \in [X \X D -> X],
           NEW seq \in [1..n -> D]
    PROVE  \E f : Iterates(f, n, base, op, seq) /\ \A s \in SUBSET (1..n) : f[s] \in X
<1>. DEFINE IsIter(m, f) ==
                /\ f = [s \in SUBSET (1..m) |-> IF s = {} THEN base
                           ELSE op[<<f[s \ {Max(s)}], seq[Max(s)]>>]]
                /\ \A s \in SUBSET (1..m) : f[s] \in X
<1>1. \E f : IsIter(0, f)
  <2>1. IsIter(0, [s \in SUBSET (1..0) |-> base])
    OBVIOUS
  <2>. QED
    BY <2>1
<1>2. ASSUME NEW m \in 1..n, \E f : IsIter(m - 1, f) PROVE \E f : IsIter(m, f)
  <2>1. PICK f : IsIter(m - 1, f)
    BY <1>2
  <2>. DEFINE g == [s \in SUBSET (1..m) |-> IF m \in s THEN op[<<f[s \ {m}], seq[m]>>] ELSE f[s]]
  <2>2. m \in Nat \ {0} /\ (1..m) \ {m} = 1..(m - 1) /\ seq[m] \in D
    <3>1. m \in Nat \ {0}
      OBVIOUS
    <3>. QED
      BY <3>1, LastOfInterval
  <2>3. ASSUME NEW s \in SUBSET (1..m)
        PROVE  /\ g[s] = IF s = {} THEN base ELSE op[<<g[s \ {Max(s)}], seq[Max(s)]>>]
               /\ g[s] \in X
    <3>1. CASE m \in s
      <4>1. Max(s) = m /\ s # {}
        BY <2>2, <3>1, LastOfInterval
      <4>2. s \ {m} \in SUBSET (1..m) /\ m \notin s \ {m} /\ s \ {m} \in SUBSET (1..(m - 1))
        BY <2>2, Zenon
      <4>3. g[s \ {m}] = f[s \ {m}] /\ f[s \ {m}] \in X
        BY <2>1, <4>2
      <4>4. g[s] = op[<<f[s \ {m}], seq[m]>>]
        BY <3>1
      <4>5. op[<<f[s \ {m}], seq[m]>>] \in X
        BY <2>2, <4>3
      <4>. HIDE DEF g
      <4>. QED
        BY <4>1, <4>3, <4>4, <4>5
    <3>2. CASE m \notin s
      <4>1. s \in SUBSET (1..(m - 1)) /\ s \ {Max(s)} \in SUBSET (1..m) /\ m \notin s \ {Max(s)}
        BY <2>2, <3>2, Zenon
      <4>2. g[s] = f[s] /\ g[s \ {Max(s)}] = f[s \ {Max(s)}]
        BY <3>2, <4>1
      <4>. HIDE DEF g
      <4>3. f[s] = (IF s = {} THEN base ELSE op[<<f[s \ {Max(s)}], seq[Max(s)]>>]) /\ f[s] \in X
        BY <2>1, <4>1
      <4>. QED
        BY <4>2, <4>3
    <3>. QED
      BY <3>1, <3>2
  <2>4. g = [s \in SUBSET (1..m) |-> g[s]]
    OBVIOUS
  <2>. HIDE DEF g
  <2>5. IsIter(m, g)
    BY <2>3, <2>4
  <2>. QED
    BY <2>5
<1>. HIDE DEF IsIter
<1>. DEFINE None == {m \in 0..n : ~(\E f : IsIter(m, f))}
<1>3. n \in 0..n /\ None \in SUBSET Nat
  OBVIOUS
<1>4. None = {}
  <2>. SUFFICES ASSUME None # {} PROVE FALSE
    OBVIOUS
  <2>1. PICK m \in None : \A j \in None : m <= j
    <3>. HIDE DEF None
    <3>. QED
      BY <1>3, LeastNumber
  <2>2. m \in 1..n /\ m - 1 \in 0..n /\ ~(m <= m - 1)
    BY <1>1, <2>1
  <2>3. \E f : IsIter(m - 1, f)
    BY <2>1, <2>2
  <2>. QED
    BY <1>2, <2>1, <2>2, <2>3
<1>. QED
  BY <1>3, <1>4 DEF IsIter, Iterates

LEMMA FirstOfNumbers ==
    ASSUME NEW S \in SUBSET Nat, S # {}
    PROVE  FirstOf(S) \in S /\ \A j \in S : FirstOf(S) <= j
  BY LeastNumber DEF FirstOf

(* Induction along a fold.                                                     *)
LEMMA FoldStays ==
    ASSUME NEW n \in Nat, NEW Good, 0 \in Good, \A k \in 1..n : k - 1 \in Good => k \in Good
    PROVE  \A k \in 0..n : k \in Good
<1>. DEFINE Bad == (0..n) \ Good
<1>1. Bad \in SUBSET Nat
  BY DEF Bad
<1>. SUFFICES ASSUME Bad # {} PROVE FALSE
  OBVIOUS
<1>2. PICK k \in Bad : \A j \in Bad : k <= j
  <2>. HIDE DEF Bad
  <2>. QED
    BY <1>1, LeastNumber
<1>3. k \in 1..n
  BY <1>2
<1>4. k - 1 \notin Bad
  BY <1>2, <1>3
<1>. QED
  BY <1>2, <1>3, <1>4

-----------------------------------------------------------------------------
(* The list of multicast addresses.                                            *)
McNode == [mac : Macs, ports : SUBSET Ports]
McLists == Seq(McNode)
MacsIn(list) == {list[n].mac : n \in DOMAIN list}

LEMMA McListFacts ==
    ASSUME NEW list \in McLists
    PROVE  /\ Len(list) \in Nat /\ DOMAIN list = 1..Len(list)
           /\ \A n \in DOMAIN list : list[n] \in McNode /\ list[n].mac \in Macs
                                     /\ list[n].ports \in SUBSET Ports
           /\ \A m : Nodes(list, m) \in SUBSET Nat
           /\ \A m : m \in MacsIn(list) <=> Nodes(list, m) # {}
<1>1. Len(list) \in Nat /\ DOMAIN list = 1..Len(list) /\ list \in [1..Len(list) -> McNode]
  BY LenProperties DEF McLists
<1>2. \A n \in DOMAIN list : list[n] \in McNode
  BY <1>1
<1>3. \A x \in McNode : x.mac \in Macs /\ x.ports \in SUBSET Ports
  BY DEF McNode
<1>4. \A m : Nodes(list, m) \in SUBSET Nat
  BY <1>1 DEF Nodes
<1>5. \A m : m \in MacsIn(list) <=> Nodes(list, m) # {}
  BY DEF MacsIn, Nodes
<1>. QED
  BY <1>1, <1>2, <1>3, <1>4, <1>5

(* The first node of m.                                                        *)
FirstNode(list, m, n) ==
    /\ n \in DOMAIN list /\ list[n].mac = m
    /\ \A j \in DOMAIN list : list[j].mac = m => n <= j

LEMMA FirstNodeExists ==
    ASSUME NEW list \in McLists, NEW m \in MacsIn(list)
    PROVE  FirstNode(list, m, FirstOf(Nodes(list, m)))
<1>1. FirstOf(Nodes(list, m)) \in Nodes(list, m)
      /\ \A j \in Nodes(list, m) : FirstOf(Nodes(list, m)) <= j
  BY McListFacts, FirstOfNumbers
<1>. QED
  BY <1>1 DEF FirstNode, Nodes

LEMMA ForwardedIs ==
    ASSUME NEW list \in McLists, NEW m, NEW n, FirstNode(list, m, n)
    PROVE  Forwarded(list, m) = list[n].ports /\ m \in MacsIn(list)
<1>1. n \in Nodes(list, m) /\ \A j \in Nodes(list, m) : n <= j
  BY DEF FirstNode, Nodes
<1>2. m \in MacsIn(list)
  BY DEF FirstNode, MacsIn
<1>3. FirstNode(list, m, FirstOf(Nodes(list, m)))
  BY <1>2, FirstNodeExists
<1>4. FirstOf(Nodes(list, m)) = n
  <2>1. FirstOf(Nodes(list, m)) <= n /\ n <= FirstOf(Nodes(list, m))
    BY <1>3 DEF FirstNode
  <2>2. n \in Nat /\ FirstOf(Nodes(list, m)) \in Nat
    BY <1>3, McListFacts DEF FirstNode
  <2>. QED
    BY <2>1, <2>2
<1>. QED
  BY <1>1, <1>2, <1>4 DEF Forwarded

LEMMA ForwardedPorts ==
    ASSUME NEW list \in McLists, NEW m
    PROVE  /\ Forwarded(list, m) \in SUBSET Ports
           /\ m \notin MacsIn(list) => Forwarded(list, m) = {}
<1>1. CASE m \in MacsIn(list)
  <2>1. FirstNode(list, m, FirstOf(Nodes(list, m)))
    BY <1>1, FirstNodeExists
  <2>2. Forwarded(list, m) = list[FirstOf(Nodes(list, m))].ports
    BY <2>1, ForwardedIs
  <2>. QED
    BY <1>1, <2>1, <2>2, McListFacts DEF FirstNode
<1>2. CASE m \notin MacsIn(list)
  BY <1>2, McListFacts DEF Forwarded
<1>. QED
  BY <1>1, <1>2

LEMMA NodeSetFacts ==
    ASSUME NEW list \in McLists, NEW m, NEW ports \in SUBSET Ports,
           NEW r, r = NodeSet(list, m, ports)
    PROVE  /\ r \in McLists /\ Len(r) = Len(list) /\ MacsIn(r) = MacsIn(list)
           /\ m \in MacsIn(list) => Forwarded(r, m) = ports
           /\ \A x : x # m => Forwarded(r, x) = Forwarded(list, x)
<1>1. CASE m \notin MacsIn(list)
  BY <1>1, McListFacts DEF NodeSet
<1>2. CASE m \in MacsIn(list)
  <2>. DEFINE n == FirstOf(Nodes(list, m))
              e == [list[n] EXCEPT !.ports = ports]
  <2>1. FirstNode(list, m, n)
    BY <1>2, FirstNodeExists
  <2>2. n \in 1..Len(list) /\ list[n] \in McNode /\ list[n].mac = m
    BY <2>1, McListFacts DEF FirstNode
  <2>3. r = [list EXCEPT ![n] = e]
    BY <1>2, McListFacts DEF NodeSet
  <2>4. e \in McNode /\ e.mac = m /\ e.ports = ports
    BY <2>2 DEF McNode
  <2>. HIDE DEF n, e
  <2>5. /\ r \in McLists /\ Len(r) = Len(list)
        /\ \A j \in 1..Len(list) : r[j] = IF j = n THEN e ELSE list[j]
    BY <2>2, <2>3, <2>4, ExceptSeq DEF McLists
  <2>6. DOMAIN r = 1..Len(list) /\ DOMAIN list = 1..Len(list)
    BY <2>5, McListFacts
  <2>7. \A j \in DOMAIN list : r[j].mac = list[j].mac
    BY <2>2, <2>4, <2>5, <2>6
  <2>8. MacsIn(r) = MacsIn(list)
    BY <2>6, <2>7 DEF MacsIn
  <2>9. \A x, j : FirstNode(list, x, j) => FirstNode(r, x, j)
    BY <2>6, <2>7 DEF FirstNode
  <2>10. Forwarded(r, m) = ports
    BY <2>1, <2>2, <2>4, <2>5, <2>9, ForwardedIs
  <2>11. ASSUME NEW x, x # m PROVE Forwarded(r, x) = Forwarded(list, x)
    <3>1. CASE x \notin MacsIn(list)
      BY <2>5, <2>8, <3>1, ForwardedPorts
    <3>2. CASE x \in MacsIn(list)
      <4>1. PICK j : FirstNode(list, x, j)
        BY <3>2, FirstNodeExists
      <4>2. j \in 1..Len(list) /\ j # n
        BY <2>2, <2>6, <2>11, <4>1 DEF FirstNode
      <4>3. r[j] = list[j]
        BY <2>5, <4>2
      <4>4. Forwarded(list, x) = list[j].ports
        BY <4>1, ForwardedIs
      <4>5. Forwarded(r, x) = r[j].ports
        BY <2>5, <2>9, <4>1, ForwardedIs
      <4>. QED
        BY <4>3, <4>4, <4>5
    <3>. QED
      BY <3>1, <3>2
  <2>. QED
    BY <2>5, <2>8, <2>10, <2>11
<1>. QED
  BY <1>1, <1>2

(* A node in front, as board_mcast_addr_add puts it.                           *)
NodeInFront(r, list, e) ==
    /\ r \in McLists /\ Len(r) = Len(list) + 1 /\ MacsIn(r) = MacsIn(list) \cup {e.mac}
    /\ Forwarded(r, e.mac) = e.ports
    /\ \A x : x # e.mac => Forwarded(r, x) = Forwarded(list, x)

LEMMA Prepended ==
    ASSUME NEW list \in McLists, NEW e \in McNode, NEW r, r = <<e>> \o list
    PROVE  NodeInFront(r, list, e)
<1>. DEFINE n == Len(list)
<1>1. n \in Nat /\ DOMAIN list = 1..n
  BY McListFacts
<1>2. <<e>> \in McLists /\ Len(<<e>>) = 1 /\ <<e>>[1] = e
  BY DEF McLists
<1>3. /\ r \in McLists /\ Len(r) = 1 + n
      /\ \A i \in 1..(1 + n) : r[i] = IF i <= 1 THEN <<e>>[i] ELSE list[i - 1]
  BY <1>2, ConcatProperties DEF McLists
<1>. HIDE DEF n
<1>4. r[1] = e /\ \A i \in 1..n : i + 1 \in 1..(n + 1) /\ r[i + 1] = list[i]
  BY <1>1, <1>2, <1>3
<1>5. DOMAIN r = 1..(n + 1)
  BY <1>1, <1>3, McListFacts
<1>6. \A i \in 1..(n + 1) : i = 1 \/ (i - 1 \in 1..n /\ r[i] = list[i - 1])
  BY <1>1, <1>3
<1>7. MacsIn(r) = MacsIn(list) \cup {e.mac}
  <2>1. MacsIn(r) \subseteq MacsIn(list) \cup {e.mac}
    BY <1>1, <1>4, <1>5, <1>6 DEF MacsIn
  <2>2. MacsIn(list) \subseteq MacsIn(r)
    BY <1>1, <1>4, <1>5 DEF MacsIn
  <2>3. 1 \in DOMAIN r /\ r[1].mac = e.mac
    BY <1>1, <1>4, <1>5
  <2>4. e.mac \in MacsIn(r)
    BY <2>3 DEF MacsIn
  <2>. QED
    BY <2>1, <2>2, <2>4
<1>8. Forwarded(r, e.mac) = e.ports
  <2>1. FirstNode(r, e.mac, 1)
    BY <1>1, <1>4, <1>5 DEF FirstNode
  <2>2. Forwarded(r, e.mac) = r[1].ports
    BY <1>3, <2>1, ForwardedIs, Zenon
  <2>. QED
    BY <1>4, <2>2
<1>9. ASSUME NEW x, x # e.mac PROVE Forwarded(r, x) = Forwarded(list, x)
  <2>1. CASE x \notin MacsIn(list)
    BY <1>3, <1>7, <1>9, <2>1, ForwardedPorts
  <2>2. CASE x \in MacsIn(list)
    <3>1. PICK j : FirstNode(list, x, j)
      BY <2>2, FirstNodeExists
    <3>2. j \in 1..n /\ list[j].mac = x
      BY <1>1, <3>1 DEF FirstNode
    <3>3. ASSUME NEW i \in 1..(n + 1), r[i].mac = x PROVE j + 1 <= i
      <4>1. i - 1 \in 1..n /\ list[i - 1].mac = x
        BY <1>4, <1>6, <1>9, <3>3
      <4>2. j <= i - 1
        BY <1>1, <3>1, <4>1 DEF FirstNode
      <4>. QED
        BY <3>2, <4>2
    <3>4. FirstNode(r, x, j + 1)
      BY <1>4, <1>5, <3>2, <3>3 DEF FirstNode
    <3>5. Forwarded(r, x) = r[j + 1].ports
      BY <1>3, <3>4, ForwardedIs, Zenon
    <3>6. Forwarded(list, x) = list[j].ports
      BY <3>1, ForwardedIs, Zenon
    <3>. QED
      BY <1>4, <3>2, <3>5, <3>6
  <2>. QED
    BY <2>1, <2>2
<1>. QED
  BY <1>1, <1>3, <1>7, <1>8, <1>9 DEF n, NodeInFront

NodeBehind(r, list, e) ==
    /\ r \in McLists /\ Len(r) = Len(list) + 1 /\ MacsIn(r) = MacsIn(list) \cup {e.mac}
    /\ \A x : Forwarded(r, x) = IF x \in MacsIn(list) THEN Forwarded(list, x)
                                ELSE IF x = e.mac THEN e.ports ELSE {}

LEMMA NodeAppended ==
    ASSUME NEW list \in McLists, NEW e \in McNode, NEW r, r = Append(list, e)
    PROVE  NodeBehind(r, list, e)
<1>. DEFINE n == Len(list)
<1>1. n \in Nat /\ DOMAIN list = 1..n
  BY McListFacts
<1>2. r \in McLists /\ Len(r) = n + 1 /\ r[n + 1] = e /\ \A i \in 1..n : r[i] = list[i]
  BY AppendProperties DEF McLists
<1>. HIDE DEF n
<1>3. DOMAIN r = 1..(n + 1) /\ n + 1 \in DOMAIN r /\ 1..(n + 1) = (1..n) \cup {n + 1}
  BY <1>1, <1>2, McListFacts
<1>4. MacsIn(r) = MacsIn(list) \cup {e.mac}
  BY <1>1, <1>2, <1>3 DEF MacsIn
<1>5. ASSUME NEW x
      PROVE  Forwarded(r, x) = IF x \in MacsIn(list) THEN Forwarded(list, x)
                               ELSE IF x = e.mac THEN e.ports ELSE {}
  <2>1. CASE x \in MacsIn(list)
    <3>1. PICK j : FirstNode(list, x, j)
      BY <2>1, FirstNodeExists
    <3>2. j \in 1..n /\ list[j].mac = x
      BY <1>1, <3>1 DEF FirstNode
    <3>3. FirstNode(r, x, j)
      <4>1. \A i \in 1..n : r[i].mac = x => j <= i
        BY <1>1, <1>2, <3>1 DEF FirstNode
      <4>2. j <= n + 1
        BY <1>1, <3>2
      <4>. QED
        BY <1>2, <1>3, <3>2, <4>1, <4>2 DEF FirstNode
    <3>4. Forwarded(r, x) = r[j].ports /\ Forwarded(list, x) = list[j].ports
      BY <1>2, <3>1, <3>3, ForwardedIs, Zenon
    <3>. QED
      BY <1>2, <2>1, <3>2, <3>4
  <2>2. CASE x \notin MacsIn(list) /\ x = e.mac
    <3>1. FirstNode(r, x, n + 1)
      <4>1. \A i \in 1..n : r[i].mac # x
        BY <1>1, <1>2, <2>2 DEF MacsIn
      <4>2. n + 1 <= n + 1
        BY <1>1
      <4>. QED
        BY <1>2, <1>3, <2>2, <4>1, <4>2 DEF FirstNode
    <3>2. Forwarded(r, x) = r[n + 1].ports
      BY <1>2, <3>1, ForwardedIs, Zenon
    <3>. QED
      BY <1>2, <2>2, <3>2
  <2>3. CASE x \notin MacsIn(list) /\ x # e.mac
    BY <1>2, <1>4, <2>3, ForwardedPorts
  <2>. QED
    BY <2>1, <2>2, <2>3
<1>. QED
  BY <1>1, <1>2, <1>4, <1>5 DEF n, NodeBehind

LEMMA AddrAddFacts ==
    ASSUME NEW list \in McLists, NEW m \in Macs, NEW ports \in SUBSET Ports,
           NEW r, r = AddrAdd(list, m, ports)
    PROVE  /\ r \in McLists /\ Len(r) = Len(list) + 1 /\ MacsIn(r) = MacsIn(list) \cup {m}
           /\ Forwarded(r, m) = ports
           /\ \A x : x # m => Forwarded(r, x) = Forwarded(list, x)
<1>. DEFINE e == [mac |-> m, ports |-> ports]
<1>1. e \in McNode /\ e.mac = m /\ e.ports = ports
  BY DEF McNode
<1>2. r = <<e>> \o list
  BY DEF AddrAdd
<1>. HIDE DEF e
<1>3. NodeInFront(r, list, e)
  BY <1>1, <1>2, Prepended
<1>. QED
  BY <1>1, <1>3 DEF NodeInFront

(* The nodes that board_mcast_addr_remove leaves, node by node.                *)
Filters(g, list, m, r) ==
    /\ g[0] = <<>> /\ g[Len(list)] = r
    /\ \A k \in 1..Len(list) :
          g[k] = IF list[k].mac = m THEN g[k - 1] ELSE Append(g[k - 1], list[k])

LEMMA Filtered ==
    ASSUME NEW list \in McLists, NEW m, ~(list # <<>> /\ Head(list).mac = m)
    PROVE  \E g : Filters(g, list, m, AddrRemove(list, m))
<1>. DEFINE Op(l, e) == IF e.mac = m THEN l ELSE Append(l, e)
            n == Len(list)
            op == [p \in McLists \X McNode |-> Op(p[1], p[2])]
            IsIter(f) == f = [s \in SUBSET (1..n) |->
                                 IF s = {} THEN <<>> ELSE Op(f[s \ {Max(s)}], list[Max(s)])]
<1>1. n \in Nat /\ list \in [1..n -> McNode] /\ DOMAIN list = 1..n /\ <<>> \in McLists
  BY LenProperties DEF McLists
<1>2. op \in [McLists \X McNode -> McLists]
  BY AppendProperties DEF McLists
<1>3. AddrRemove(list, m) = (CHOOSE f : IsIter(f))[1..n]
  BY <1>1 DEF AddrRemove, FoldLeft, MapThenFoldSet
<1>. HIDE DEF n
<1>4. \E f : IsIter(f)
  <2>. HIDE DEF op, Op
  <2>1. PICK f : Iterates(f, n, <<>>, op, list) /\ \A s \in SUBSET (1..n) : f[s] \in McLists
    BY <1>1, <1>2, FoldExists, Zenon
  <2>2. ASSUME NEW s \in SUBSET (1..n), s # {}
        PROVE  f[s] = Op(f[s \ {Max(s)}], list[Max(s)])
    <3>1. Max(s) \in 1..n /\ s \ {Max(s)} \in SUBSET (1..n)
      BY <1>1, <2>2, GreatestNumber
    <3>2. list[Max(s)] \in McNode /\ f[s \ {Max(s)}] \in McLists
      BY <1>1, <2>1, <3>1
    <3>3. f[s] = op[<<f[s \ {Max(s)}], list[Max(s)]>>]
      BY <2>1, <2>2 DEF Iterates
    <3>. QED
      BY <3>2, <3>3 DEF op
  <2>3. f = [s \in SUBSET (1..n) |-> f[s]] /\ f[{}] = <<>>
    BY <2>1 DEF Iterates
  <2>4. IsIter(f)
    BY <2>2, <2>3
  <2>. QED
    BY <2>4
<1>5. PICK f : IsIter(f) /\ (CHOOSE h : IsIter(h))[1..n] = f[1..n]
  BY <1>4
<1>. DEFINE g == [k \in 0..n |-> f[1..k]]
<1>. HIDE DEF Op
<1>6. g[0] = <<>> /\ g[n] = f[1..n]
  <2>1. 1..0 = {} /\ f[{}] = <<>>
    BY <1>5
  <2>. QED
    BY <1>1, <2>1
<1>7. ASSUME NEW k \in 1..n PROVE g[k] = Op(g[k - 1], list[k])
  <2>1. k \in Nat \ {0} /\ 1..k \in SUBSET (1..n)
    BY <1>1
  <2>2. 1..k # {} /\ Max(1..k) = k /\ (1..k) \ {k} = 1..(k - 1)
    BY <2>1, LastOfInterval, Zenon
  <2>3. f[1..k] = Op(f[1..(k - 1)], list[k])
    BY <1>5, <2>1, <2>2
  <2>4. k \in 0..n /\ k - 1 \in 0..n
    BY <1>1
  <2>. QED
    BY <2>3, <2>4
<1>. HIDE DEF g
<1>8. \A k \in 1..n : g[k] = IF list[k].mac = m THEN g[k - 1] ELSE Append(g[k - 1], list[k])
  BY <1>7 DEF Op
<1>. QED
  BY <1>3, <1>5, <1>6, <1>8 DEF n, Filters

LEMMA AddrRemoveFacts ==
    ASSUME NEW list \in McLists, NEW m, NEW r, r = AddrRemove(list, m)
    PROVE  /\ r \in McLists /\ Len(r) <= Len(list)
           /\ \A x : x # m => (x \in MacsIn(r) <=> x \in MacsIn(list))
                              /\ Forwarded(r, x) = Forwarded(list, x)
<1>. DEFINE n == Len(list)
<1>1. n \in Nat /\ DOMAIN list = 1..n /\ \A k \in 1..n : list[k] \in McNode
  BY McListFacts
<1>2. CASE list # <<>> /\ Head(list).mac = m
  <2>1. r = Tail(list)
    BY <1>2 DEF AddrRemove
  <2>2. Head(list) \in McNode /\ r \in McLists
    BY <1>2, <2>1, HeadTailProperties DEF McLists
  <2>3. list = <<Head(list)>> \o r
    <3>1. n \in 1..n /\ 1 \in 1..n
      <4>1. n # 0
        BY <1>1, <1>2, EmptySeq DEF McLists
      <4>. QED
        BY <1>1, <4>1
    <3>2. SubSeq(list, 1, n) = <<list[1]>> \o SubSeq(list, 2, n)
      BY <3>1, SubSeqRecursiveFirst DEF McLists
    <3>3. SubSeq(list, 1, n) = list /\ SubSeq(list, 2, n) = r /\ Head(list) = list[1]
      BY <1>2, <2>1, SubSeqFull, TailIsSubSeq, HeadTailProperties DEF McLists
    <3>. QED
      BY <3>2, <3>3
  <2>4. NodeInFront(list, r, Head(list))
    BY <2>2, <2>3, Prepended
  <2>5. Len(r) \in Nat
    BY <2>2, McListFacts
  <2>. QED
    BY <1>2, <2>2, <2>4, <2>5 DEF NodeInFront
<1>3. CASE ~(list # <<>> /\ Head(list).mac = m)
  <2>1. PICK g : Filters(g, list, m, r)
    BY <1>3, Filtered
  <2>. DEFINE pre(k) == SubSeq(list, 1, k)
              Right(k) == /\ g[k] \in McLists /\ Len(g[k]) <= k /\ pre(k) \in McLists
                          /\ \A x : x # m => (x \in MacsIn(g[k]) <=> x \in MacsIn(pre(k)))
                                             /\ Forwarded(g[k], x) = Forwarded(pre(k), x)
              Good == {k \in 0..n : Right(k)}
  <2>2. Right(0)
    <3>1. pre(0) = <<>>
      BY SubSeqEmpty
    <3>2. <<>> \in McLists /\ Len(<<>>) <= 0
      BY DEF McLists
    <3>. QED
      BY <2>1, <3>1, <3>2 DEF Filters
  <2>3. ASSUME NEW k \in 1..n, Right(k - 1) PROVE Right(k)
    <3>1. k \in Nat /\ k - 1 \in Nat /\ list[k] \in McNode
      BY <1>1
    <3>2. pre(k) = Append(pre(k - 1), list[k])
      <4>1. k \in 1..k /\ k \in 1..Len(list) /\ 1 \in 1..Len(list) /\ k \in 1..Len(list)
        BY <1>1
      <4>2. pre(k) = pre(k - 1) \o <<list[k]>>
        BY <1>1, <4>1, SubSeqRecursiveSecond DEF McLists
      <4>3. Append(pre(k - 1), list[k]) = pre(k - 1) \o <<list[k]>>
        BY <2>3, <3>1, AppendIsConcat DEF McLists
      <4>. QED
        BY <4>2, <4>3
    <3>. HIDE DEF pre
    <3>3. NodeBehind(pre(k), pre(k - 1), list[k])
      BY <2>3, <3>1, <3>2, NodeAppended
    <3>4. CASE list[k].mac = m
      <4>1. g[k] = g[k - 1]
        BY <2>1, <3>4 DEF Filters
      <4>2. \A x : x # m => Forwarded(pre(k), x) = Forwarded(pre(k - 1), x)
        BY <2>3, <3>3, <3>4, ForwardedPorts DEF NodeBehind
      <4>3. Len(g[k]) <= k
        BY <2>3, <3>1, <4>1, McListFacts
      <4>. QED
        BY <2>3, <3>3, <3>4, <4>1, <4>2, <4>3 DEF NodeBehind
    <3>5. CASE list[k].mac # m
      <4>1. g[k] = Append(g[k - 1], list[k])
        BY <2>1, <3>5 DEF Filters
      <4>2. NodeBehind(g[k], g[k - 1], list[k])
        BY <2>3, <3>1, <4>1, NodeAppended
      <4>3. Len(g[k]) <= k
        BY <2>3, <3>1, <4>2, McListFacts DEF NodeBehind
      <4>. QED
        BY <2>3, <3>3, <3>5, <4>2, <4>3 DEF NodeBehind
    <3>. QED
      BY <3>4, <3>5
  <2>4. n \in Good
    <3>1. 0 \in Good /\ \A k \in 1..n : k - 1 \in Good => k \in Good
      <4>. HIDE DEF Right
      <4>. QED
        BY <1>1, <2>2, <2>3
    <3>2. n \in 0..n
      BY <1>1
    <3>. HIDE DEF Good
    <3>. QED
      BY <1>1, <3>1, <3>2, FoldStays
  <2>5. pre(n) = list
    BY SubSeqFull DEF McLists
  <2>. QED
    BY <2>1, <2>4, <2>5 DEF Filters
<1>. QED
  BY <1>2, <1>3

-----------------------------------------------------------------------------
(* The database.  No group has two entries, and no two pioneers share an       *)
(* address; a port that was reported since the last ageing is a member.        *)
McEntry == [gda : Groups \cup {NOGROUP}, pioneer : BOOLEAN, age : SUBSET Ports,
            uplist : SUBSET Ports]
Unique(db) ==
    /\ \A i, j \in Entries : db[i].gda = db[j].gda /\ db[i].gda # NOGROUP => i = j
    /\ \A i, j \in Entries :
          db[i].pioneer /\ db[j].pioneer /\ db[i].gda # NOGROUP /\ db[j].gda # NOGROUP
          /\ MacOf(db, i) = MacOf(db, j) => i = j
    /\ \A i \in Entries : db[i].gda = NOGROUP => ~db[i].pioneer /\ db[i].uplist = {}
    /\ \A i \in Entries : db[i].age \subseteq db[i].uplist
Dbs == {db \in [Entries -> McEntry] : Unique(db)}

(* An address that is used has its pioneer and is in the list.                 *)
Led(db, list) ==
    \A m \in Macs : Sharing(db, m) # {} =>
        m \in MacsIn(list) /\ \E i \in Sharing(db, m) : db[i].pioneer

LEMMA McConstants ==
    /\ Mac \in [Groups -> Macs] /\ V2Ports \subseteq Ports /\ RouterPorts \subseteq Ports
    /\ NOGROUP \notin Groups /\ NumGroups \in Nat \ {0} /\ Entries = 1..NumGroups
    /\ Entries \in SUBSET Nat
  BY IgmpSnoopAssumption DEF Entries

LEMMA FreeEntry == Free \in McEntry /\ Free.gda = NOGROUP /\ ~Free.pioneer /\ Free.age = {}
                   /\ Free.uplist = {}
  BY DEF Free, McEntry

LEMMA McEntryFacts ==
    ASSUME NEW e \in McEntry
    PROVE  /\ e.gda \in Groups \cup {NOGROUP} /\ e.pioneer \in BOOLEAN
           /\ e.age \in SUBSET Ports /\ e.uplist \in SUBSET Ports
  BY DEF McEntry

LEMMA DbFacts ==
    ASSUME NEW db \in Dbs
    PROVE  /\ db \in [Entries -> McEntry] /\ Unique(db)
           /\ \A i \in Entries :
                 /\ db[i] \in McEntry /\ db[i].gda \in Groups \cup {NOGROUP} /\ db[i].pioneer \in BOOLEAN
                 /\ db[i].age \in SUBSET Ports /\ db[i].uplist \in SUBSET Ports
                 /\ db[i].gda # NOGROUP => db[i].gda \in Groups /\ MacOf(db, i) \in Macs
                                           /\ i \in Sharing(db, MacOf(db, i))
           /\ \A m : Sharing(db, m) \in SUBSET Entries
           /\ \A m, i : i \in Sharing(db, m) <=> i \in Entries /\ db[i].gda # NOGROUP /\ MacOf(db, i) = m
<1>1. db \in [Entries -> McEntry] /\ Unique(db)
  BY DEF Dbs
<1>2. \A i \in Entries : db[i] \in McEntry
  BY <1>1
<1>3. \A m, i : i \in Sharing(db, m) <=> i \in Entries /\ db[i].gda # NOGROUP /\ MacOf(db, i) = m
  BY DEF Sharing, MacOf
<1>4. \A i \in Entries : db[i].gda # NOGROUP => db[i].gda \in Groups /\ MacOf(db, i) \in Macs
  BY <1>2, McEntryFacts, McConstants DEF MacOf
<1>. QED
  BY <1>1, <1>2, <1>3, <1>4, McEntryFacts

(* One entry is replaced.                                                      *)
Replaced(r, db, i, e) ==
    /\ r \in [Entries -> McEntry] /\ r[i] = e
    /\ \A j \in Entries \ {i} : r[j] = db[j] /\ MacOf(r, j) = MacOf(db, j)
    /\ MacOf(r, i) = Mac[e.gda]

LEMMA EntryReplaced ==
    ASSUME NEW db \in Dbs, NEW i \in Entries, NEW e \in McEntry, NEW r, r = [db EXCEPT ![i] = e]
    PROVE  Replaced(r, db, i, e)
<1>1. r \in [Entries -> McEntry] /\ r[i] = e /\ \A j \in Entries \ {i} : r[j] = db[j]
  BY DbFacts
<1>. QED
  BY <1>1 DEF MacOf, Replaced

(* The ages and the ports of an entry change.                                  *)
AgesOnly(r, db) ==
    /\ r \in Dbs /\ \A m : Sharing(r, m) = Sharing(db, m)
    /\ \A list : Led(db, list) => Led(r, list)

LEMMA AgesChanged ==
    ASSUME NEW db \in Dbs, NEW i \in Entries, NEW e \in McEntry, NEW r, r = [db EXCEPT ![i] = e],
           e.gda = db[i].gda, e.gda # NOGROUP, e.pioneer = db[i].pioneer, e.age \subseteq e.uplist
    PROVE  AgesOnly(r, db)
<1>1. /\ r \in [Entries -> McEntry] /\ r[i] = e /\ \A j \in Entries \ {i} : r[j] = db[j]
  <2>1. Replaced(r, db, i, e)
    BY EntryReplaced
  <2>. QED
    BY <2>1 DEF Replaced
<1>2. \A j \in Entries : r[j].gda = db[j].gda /\ r[j].pioneer = db[j].pioneer
  BY <1>1
<1>3. \A j \in Entries : MacOf(r, j) = MacOf(db, j)
  BY <1>2 DEF MacOf
<1>4. \A j \in Entries : r[j].age \subseteq r[j].uplist
  BY <1>1, DbFacts DEF Unique
<1>5. Unique(r)
  <2>1. \A j, k \in Entries : r[j].gda = r[k].gda /\ r[j].gda # NOGROUP => j = k
    BY <1>2, DbFacts DEF Unique
  <2>2. \A j, k \in Entries :
           r[j].pioneer /\ r[k].pioneer /\ r[j].gda # NOGROUP /\ r[k].gda # NOGROUP
           /\ MacOf(r, j) = MacOf(r, k) => j = k
    <3>. TAKE j, k \in Entries
    <3>1. \A x, y \in Entries :
             db[x].pioneer /\ db[y].pioneer /\ db[x].gda # NOGROUP /\ db[y].gda # NOGROUP
             /\ MacOf(db, x) = MacOf(db, y) => x = y
      BY DbFacts, Zenon DEF Unique
    <3>2. /\ r[j].gda = db[j].gda /\ r[j].pioneer = db[j].pioneer /\ MacOf(r, j) = MacOf(db, j)
          /\ r[k].gda = db[k].gda /\ r[k].pioneer = db[k].pioneer /\ MacOf(r, k) = MacOf(db, k)
      BY <1>2, <1>3
    <3>. QED
      BY <3>1, <3>2, Zenon
  <2>3. \A j \in Entries : r[j].gda = NOGROUP => ~r[j].pioneer /\ r[j].uplist = {}
    BY <1>1, DbFacts DEF Unique
  <2>. HIDE <1>2, <1>3
  <2>. QED
    BY <1>4, <2>1, <2>2, <2>3 DEF Unique
<1>6. r \in Dbs
  BY <1>1, <1>5 DEF Dbs
<1>7. \A m : Sharing(r, m) = Sharing(db, m)
  BY <1>2 DEF Sharing
<1>8. \A m : \A j \in Sharing(db, m) : r[j].pioneer = db[j].pioneer
  BY <1>2, DbFacts
<1>9. ASSUME NEW list, Led(db, list) PROVE Led(r, list)
  BY <1>7, <1>8, <1>9 DEF Led
<1>. QED
  BY <1>6, <1>7, <1>9 DEF AgesOnly

LEMMA EntryFreed ==
    ASSUME NEW db \in Dbs, NEW i \in Entries, NEW r, r = [db EXCEPT ![i] = Free]
    PROVE  /\ r \in Dbs /\ \A m : Sharing(r, m) = Sharing(db, m) \ {i}
           /\ \A j \in Entries \ {i} : r[j] = db[j]
<1>1. /\ r \in [Entries -> McEntry] /\ r[i] = Free /\ \A j \in Entries \ {i} : r[j] = db[j]
      /\ \A j \in Entries \ {i} : MacOf(r, j) = MacOf(db, j)
  <2>1. Replaced(r, db, i, Free)
    BY EntryReplaced, FreeEntry
  <2>. QED
    BY <2>1 DEF Replaced
<1>2. r[i].gda = NOGROUP /\ ~r[i].pioneer /\ r[i].uplist = {} /\ r[i].age \subseteq r[i].uplist
  BY <1>1, FreeEntry
<1>3. Unique(r)
  <2>1. \A j, k \in Entries : r[j].gda = r[k].gda /\ r[j].gda # NOGROUP => j = k
    BY <1>1, <1>2, DbFacts DEF Unique
  <2>2. \A j, k \in Entries :
           r[j].pioneer /\ r[k].pioneer /\ r[j].gda # NOGROUP /\ r[k].gda # NOGROUP
           /\ MacOf(r, j) = MacOf(r, k) => j = k
    <3>. TAKE j, k \in Entries
    <3>1. \A x, y \in Entries :
             db[x].pioneer /\ db[y].pioneer /\ db[x].gda # NOGROUP /\ db[y].gda # NOGROUP
             /\ MacOf(db, x) = MacOf(db, y) => x = y
      BY DbFacts, Zenon DEF Unique
    <3>2. CASE j # i /\ k # i
      BY <1>1, <3>1, <3>2
    <3>3. r[i].gda = NOGROUP
      BY <1>2
    <3>4. r[j].gda # NOGROUP /\ r[k].gda # NOGROUP => j # i /\ k # i
      BY <3>3
    <3>. QED
      BY <3>2, <3>4, Zenon
  <2>3. \A j \in Entries : (r[j].gda = NOGROUP => ~r[j].pioneer /\ r[j].uplist = {})
                            /\ r[j].age \subseteq r[j].uplist
    BY <1>1, <1>2, DbFacts DEF Unique
  <2>. QED
    BY <2>1, <2>2, <2>3 DEF Unique
<1>4. r \in Dbs
  BY <1>1, <1>3 DEF Dbs
<1>5. \A m : Sharing(r, m) = Sharing(db, m) \ {i}
  BY <1>1, <1>2 DEF Sharing
<1>. QED
  BY <1>1, <1>4, <1>5

(* A new group takes a free entry; it is the pioneer if it is the first of its *)
(* address.                                                                    *)
Taken(r, db, i, e, m) ==
    /\ r \in Dbs /\ r[i] = e /\ \A j \in Entries \ {i} : r[j] = db[j]
    /\ \A x : Sharing(r, x) = IF x = m THEN Sharing(db, x) \cup {i} ELSE Sharing(db, x)
    /\ \A list, new : Led(db, list) /\ MacsIn(new) = MacsIn(list) \cup {m} => Led(r, new)

LEMMA EntryTaken ==
    ASSUME NEW db \in Dbs, NEW i \in Entries, db[i].gda = NOGROUP, NEW g \in Groups,
           \A j \in Entries : db[j].gda # g, NEW e \in McEntry, e.gda = g,
           e.pioneer = (Sharing(db, Mac[g]) = {}), e.age \subseteq e.uplist,
           NEW r, r = [db EXCEPT ![i] = e]
    PROVE  Taken(r, db, i, e, Mac[g])
<1>1. /\ r \in [Entries -> McEntry] /\ r[i] = e /\ \A j \in Entries \ {i} : r[j] = db[j]
      /\ \A j \in Entries \ {i} : MacOf(r, j) = MacOf(db, j)
      /\ MacOf(r, i) = Mac[g] /\ g # NOGROUP
  <2>1. Replaced(r, db, i, e)
    BY EntryReplaced
  <2>. QED
    BY <2>1, McConstants DEF Replaced
<1>2. \A j \in Entries : db[j].pioneer /\ db[j].gda # NOGROUP /\ MacOf(db, j) = Mac[g] => ~e.pioneer
  BY DbFacts
<1>3. Unique(r)
  <2>1. \A j, k \in Entries : r[j].gda = r[k].gda /\ r[j].gda # NOGROUP => j = k
    BY <1>1, DbFacts DEF Unique
  <2>2. \A j, k \in Entries :
           r[j].pioneer /\ r[k].pioneer /\ r[j].gda # NOGROUP /\ r[k].gda # NOGROUP
           /\ MacOf(r, j) = MacOf(r, k) => j = k
    BY <1>1, <1>2, DbFacts DEF Unique
  <2>3. \A j \in Entries : (r[j].gda = NOGROUP => ~r[j].pioneer /\ r[j].uplist = {})
                            /\ r[j].age \subseteq r[j].uplist
    BY <1>1, DbFacts DEF Unique
  <2>. QED
    BY <2>1, <2>2, <2>3 DEF Unique
<1>4. r \in Dbs
  BY <1>1, <1>3 DEF Dbs
<1>5. \A m : Sharing(r, m) = IF m = Mac[g] THEN Sharing(db, m) \cup {i} ELSE Sharing(db, m)
  BY <1>1 DEF Sharing
<1>6. ASSUME NEW list, NEW new, Led(db, list), MacsIn(new) = MacsIn(list) \cup {Mac[g]}
      PROVE  Led(r, new)
  <2>. SUFFICES ASSUME NEW m \in Macs, Sharing(r, m) # {}
                PROVE  m \in MacsIn(new) /\ \E j \in Sharing(r, m) : r[j].pioneer
    BY DEF Led
  <2>1. CASE Sharing(db, m) = {}
    BY <1>1, <1>5, <1>6, <2>1
  <2>2. CASE Sharing(db, m) # {}
    <3>1. m \in MacsIn(list) /\ \E j \in Sharing(db, m) : db[j].pioneer
      BY <1>6, <2>2 DEF Led
    <3>2. \A j \in Sharing(db, m) : j \in Entries \ {i}
      BY DbFacts
    <3>. QED
      BY <1>1, <1>5, <1>6, <3>1, <3>2
  <2>. QED
    BY <2>1, <2>2
<1>. QED
  BY <1>1, <1>4, <1>5, <1>6 DEF Taken

LEMMA PalFacts ==
    ASSUME NEW db \in Dbs, NEW i \in Entries
    PROVE  /\ Pals(db, i) \in SUBSET Entries /\ i \notin Pals(db, i)
           /\ Pals(db, i) # {} => FirstOf(Pals(db, i)) \in Pals(db, i)
           /\ \A j \in Pals(db, i) : FirstOf(Pals(db, i)) <= j
           /\ \A j \in Pals(db, i) : j \in Entries /\ j # i /\ db[j].gda # NOGROUP /\ db[j].gda \in Groups
                                     /\ MacOf(db, j) = MacOf(db, i)
           /\ db[i].gda # NOGROUP => Sharing(db, MacOf(db, i)) = Pals(db, i) \cup {i}
           /\ db[i].pioneer => db[i].gda # NOGROUP /\ \A j \in Pals(db, i) : ~db[j].pioneer
<1>1. Pals(db, i) \in SUBSET Entries /\ i \notin Pals(db, i)
  BY DbFacts DEF Pals
<1>2. Pals(db, i) # {} => FirstOf(Pals(db, i)) \in Pals(db, i)
                          /\ \A j \in Pals(db, i) : FirstOf(Pals(db, i)) <= j
  BY <1>1, McConstants, FirstOfNumbers
<1>3. \A j \in Pals(db, i) : j \in Entries /\ j # i /\ db[j].gda # NOGROUP /\ db[j].gda \in Groups
                             /\ MacOf(db, j) = MacOf(db, i)
  BY DbFacts DEF Pals
<1>4. db[i].gda # NOGROUP => Sharing(db, MacOf(db, i)) = Pals(db, i) \cup {i}
  BY DbFacts DEF Pals
<1>5. db[i].pioneer => db[i].gda # NOGROUP
  BY DbFacts DEF Unique
<1>6. ASSUME db[i].pioneer, NEW j \in Pals(db, i), db[j].pioneer PROVE FALSE
  <2>1. \A x, y \in Entries :
           db[x].pioneer /\ db[y].pioneer /\ db[x].gda # NOGROUP /\ db[y].gda # NOGROUP
           /\ MacOf(db, x) = MacOf(db, y) => x = y
    BY DbFacts, Zenon DEF Unique
  <2>. QED
    BY <1>3, <1>5, <1>6, <2>1
<1>. QED
  BY <1>1, <1>2, <1>3, <1>4, <1>5, <1>6

(* A pal takes over from the pioneer: the group of the pioneer is gone.        *)
TakenOver(r, db, i, pal) ==
    /\ r \in Dbs /\ \A m : Sharing(r, m) = Sharing(db, m) \ {pal}
    /\ r[i] = [db[pal] EXCEPT !.pioneer = TRUE] /\ r[i].pioneer
    /\ r[i].age = db[pal].age /\ r[i].uplist = db[pal].uplist
    /\ \A j \in Entries \ {i, pal} : r[j] = db[j]
    /\ \A list : Led(db, list) => Led(r, list)

LEMMA TakeOverFacts ==
    ASSUME NEW db \in Dbs, NEW i \in Entries, db[i].pioneer, NEW pal \in Pals(db, i),
           NEW r, r = TakeOver(db, i, pal)
    PROVE  TakenOver(r, db, i, pal)
<1>. DEFINE e == [db[pal] EXCEPT !.pioneer = TRUE]
<1>1. /\ pal \in Entries /\ pal # i /\ db[pal].gda # NOGROUP /\ db[i].gda # NOGROUP
      /\ MacOf(db, pal) = MacOf(db, i) /\ \A j \in Pals(db, i) : ~db[j].pioneer
      /\ Sharing(db, MacOf(db, i)) = Pals(db, i) \cup {i}
  BY PalFacts
<1>2. /\ e \in McEntry /\ e.gda = db[pal].gda /\ e.pioneer /\ e.age = db[pal].age
      /\ e.uplist = db[pal].uplist
  <2>1. db[pal] \in McEntry
    BY <1>1, DbFacts
  <2>. QED
    BY <2>1 DEF McEntry
<1>3. r = [db EXCEPT ![i] = e, ![pal] = Free]
  BY DEF TakeOver
<1>. HIDE DEF e
<1>4. /\ r \in [Entries -> McEntry] /\ r[i] = e /\ r[pal] = Free
      /\ \A j \in Entries \ {i, pal} : r[j] = db[j]
  BY <1>1, <1>2, <1>3, DbFacts, FreeEntry
<1>5. /\ MacOf(r, i) = MacOf(db, i) /\ r[i].gda = db[pal].gda /\ r[pal].gda = NOGROUP
      /\ \A j \in Entries \ {i, pal} : MacOf(r, j) = MacOf(db, j)
  BY <1>1, <1>2, <1>4, FreeEntry DEF MacOf
<1>6. Unique(r)
  <2>1. \A j, k \in Entries : r[j].gda = r[k].gda /\ r[j].gda # NOGROUP => j = k
    <3>. TAKE j, k \in Entries
    <3>1. \A x, y \in Entries : db[x].gda = db[y].gda /\ db[x].gda # NOGROUP => x = y
      BY DbFacts, Zenon DEF Unique
    <3>. QED
      BY <1>1, <1>4, <1>5, <3>1
  <2>2. \A j, k \in Entries :
           r[j].pioneer /\ r[k].pioneer /\ r[j].gda # NOGROUP /\ r[k].gda # NOGROUP
           /\ MacOf(r, j) = MacOf(r, k) => j = k
    <3>1. \A x, y \in Entries :
             db[x].pioneer /\ db[y].pioneer /\ db[x].gda # NOGROUP /\ db[y].gda # NOGROUP
             /\ MacOf(db, x) = MacOf(db, y) => x = y
      BY DbFacts, Zenon DEF Unique
    <3>2. \A j \in Entries : r[j].pioneer /\ r[j].gda # NOGROUP =>
             j # pal /\ db[j].pioneer /\ db[j].gda # NOGROUP /\ MacOf(r, j) = MacOf(db, j)
      BY <1>1, <1>4, <1>5
    <3>. QED
      BY <3>1, <3>2
  <2>3. \A j \in Entries : (r[j].gda = NOGROUP => ~r[j].pioneer /\ r[j].uplist = {})
                            /\ r[j].age \subseteq r[j].uplist
    <3>1. \A j \in Entries : (db[j].gda = NOGROUP => ~db[j].pioneer /\ db[j].uplist = {})
                              /\ db[j].age \subseteq db[j].uplist
      BY DbFacts DEF Unique
    <3>. QED
      BY <1>1, <1>2, <1>4, <1>5, <3>1, FreeEntry
  <2>. QED
    BY <2>1, <2>2, <2>3 DEF Unique
<1>7. r \in Dbs
  BY <1>4, <1>6 DEF Dbs
<1>8. \A m : Sharing(r, m) = Sharing(db, m) \ {pal}
  <2>. TAKE m
  <2>1. \A j : j \in Sharing(r, m) <=> j \in Sharing(db, m) /\ j # pal
    <3>1. CASE m = MacOf(db, i)
      BY <1>1, <1>4, <1>5, <1>7, <3>1, DbFacts
    <3>2. CASE m # MacOf(db, i)
      BY <1>1, <1>4, <1>5, <1>7, <3>2, DbFacts
    <3>. QED
      BY <3>1, <3>2
  <2>. QED
    BY <2>1
<1>9. ASSUME NEW list, Led(db, list) PROVE Led(r, list)
  <2>. SUFFICES ASSUME NEW m \in Macs, Sharing(r, m) # {}
                PROVE  m \in MacsIn(list) /\ \E j \in Sharing(r, m) : r[j].pioneer
    BY DEF Led
  <2>1. m \in MacsIn(list) /\ \E j \in Sharing(db, m) : db[j].pioneer
    BY <1>8, <1>9 DEF Led
  <2>2. PICK j \in Sharing(db, m) : db[j].pioneer
    BY <2>1
  <2>3. j # pal /\ j \in Entries
    BY <1>1, <2>2, DbFacts
  <2>4. r[j].pioneer
    BY <1>2, <1>4, <2>2, <2>3
  <2>. QED
    BY <1>8, <2>1, <2>2, <2>3, <2>4
<1>. QED
  BY <1>2, <1>4, <1>7, <1>8, <1>9 DEF TakenOver, e

-----------------------------------------------------------------------------
(* The tables that the handlers change.                                        *)
TableSet == {T \in [db : Dbs, list : McLists, drift : SUBSET Macs] :
                Led(T.db, T.list) /\ Len(T.list) <= MaxNodes}

LEMMA TableFacts ==
    ASSUME NEW T \in TableSet
    PROVE  /\ T.db \in Dbs /\ T.list \in McLists /\ T.drift \in SUBSET Macs
           /\ Led(T.db, T.list) /\ Len(T.list) <= MaxNodes
           /\ T = [db |-> T.db, list |-> T.list, drift |-> T.drift]
  BY DEF TableSet

Changed(r, T, db, list, drift) == r = [T EXCEPT !.db = db, !.list = list, !.drift = drift]

LEMMA TablesChanged ==
    ASSUME NEW T \in TableSet, NEW db, NEW list, NEW drift,
           NEW r, Changed(r, T, db, list, drift)
    PROVE  r = [db |-> db, list |-> list, drift |-> drift]
<1>1. T = [db |-> T.db, list |-> T.list, drift |-> T.drift]
  BY TableFacts
<1>2. T \in [db : {T.db, db}, list : {T.list, list}, drift : {T.drift, drift}]
  <2>1. [db |-> T.db, list |-> T.list, drift |-> T.drift]
           \in [db : {T.db, db}, list : {T.list, list}, drift : {T.drift, drift}]
    OBVIOUS
  <2>. QED
    BY <1>1, <2>1, Zenon
<1>3. /\ r \in [db : {T.db, db}, list : {T.list, list}, drift : {T.drift, drift}]
      /\ r.db = db /\ r.list = list /\ r.drift = drift
  BY <1>2 DEF Changed
<1>4. \A x \in [db : {T.db, db}, list : {T.list, list}, drift : {T.drift, drift}] :
         x = [db |-> x.db, list |-> x.list, drift |-> x.drift]
  OBVIOUS
<1>. QED
  BY <1>3, <1>4, Zenon

IsTables(r, db, list, drift) == r \in TableSet /\ r.db = db /\ r.list = list /\ r.drift = drift

LEMMA TablesMade ==
    ASSUME NEW db \in Dbs, NEW list \in McLists, NEW drift \in SUBSET Macs, Led(db, list),
           Len(list) <= MaxNodes, NEW r, r = [db |-> db, list |-> list, drift |-> drift]
    PROVE  IsTables(r, db, list, drift)
  BY DEF TableSet, IsTables

LEMMA MemberFacts ==
    ASSUME NEW db \in Dbs, NEW S \in SUBSET Entries
    PROVE  /\ Members(db, S) \in SUBSET Ports /\ Reported(db, S) \in SUBSET Ports
           /\ Reported(db, S) \subseteq Members(db, S)
           /\ \A r : (\A j \in S : r[j] = db[j]) =>
                     Members(r, S) = Members(db, S) /\ Reported(r, S) = Reported(db, S)
<1>1. \A j \in S : db[j].uplist \in SUBSET Ports /\ db[j].age \subseteq db[j].uplist
  BY DbFacts DEF Unique
<1>2. Members(db, S) \in SUBSET Ports
  BY <1>1 DEF Members
<1>3. Reported(db, S) \subseteq Members(db, S)
  BY <1>1 DEF Members, Reported
<1>4. ASSUME NEW r, \A j \in S : r[j] = db[j]
      PROVE  Members(r, S) = Members(db, S) /\ Reported(r, S) = Reported(db, S)
  BY <1>4 DEF Members, Reported
<1>. QED
  BY <1>2, <1>3, <1>4

(* One pioneer has all ports of its address.                                   *)
PortsSet(r, db, list, i, routers) ==
    /\ r \in McLists /\ Len(r) = Len(list) /\ MacsIn(r) = MacsIn(list)
    /\ \A m : Forwarded(r, m) =
          IF db[i].pioneer /\ m = MacOf(db, i) /\ m \in MacsIn(list)
          THEN Members(db, Sharing(db, m)) \cup routers ELSE Forwarded(list, m)

LEMMA RecalculateFacts ==
    ASSUME NEW db \in Dbs, NEW list \in McLists, NEW i \in Entries, NEW routers \in SUBSET Ports,
           NEW r, r = Recalculate(db, list, i, routers)
    PROVE  PortsSet(r, db, list, i, routers)
<1>1. CASE ~db[i].pioneer
  BY <1>1 DEF Recalculate, Pioneers, PortsSet
<1>2. CASE db[i].pioneer
  <2>. DEFINE m == MacOf(db, i)
              ports == Members(db, Sharing(db, m)) \cup routers
  <2>1. ports \in SUBSET Ports
    BY DbFacts, MemberFacts
  <2>2. r = NodeSet(list, m, ports)
    BY <1>2 DEF Recalculate, Pioneers
  <2>. HIDE DEF ports
  <2>3. /\ r \in McLists /\ Len(r) = Len(list) /\ MacsIn(r) = MacsIn(list)
        /\ m \in MacsIn(list) => Forwarded(r, m) = ports
        /\ \A x : x # m => Forwarded(r, x) = Forwarded(list, x)
    BY <2>1, <2>2, NodeSetFacts
  <2>4. m \notin MacsIn(list) => Forwarded(r, m) = Forwarded(list, m)
    BY <2>3, ForwardedPorts
  <2>5. \A x : Forwarded(r, x) = IF db[i].pioneer /\ x = m /\ x \in MacsIn(list)
                                 THEN Members(db, Sharing(db, x)) \cup routers ELSE Forwarded(list, x)
    <3>. HIDE DEF m
    <3>. QED
      BY <1>2, <2>3, <2>4 DEF ports
  <2>. QED
    BY <2>3, <2>5 DEF PortsSet
<1>. QED
  BY <1>1, <1>2

LEMMA CastFacts ==
    ASSUME NEW list \in McLists, NEW m, NEW summary, NEW r, r = Cast(list, m, summary)
    PROVE  /\ r \in McLists /\ Len(r) = Len(list) /\ MacsIn(r) = MacsIn(list)
           /\ Forwarded(r, m) = Forwarded(list, m) \cap summary
           /\ \A x : x # m => Forwarded(r, x) = Forwarded(list, x)
<1>. DEFINE ports == Forwarded(list, m) \cap summary
<1>1. ports \in SUBSET Ports
  BY ForwardedPorts
<1>2. r = NodeSet(list, m, ports)
  BY DEF Cast
<1>. HIDE DEF ports
<1>3. /\ r \in McLists /\ Len(r) = Len(list) /\ MacsIn(r) = MacsIn(list)
      /\ m \in MacsIn(list) => Forwarded(r, m) = ports
      /\ \A x : x # m => Forwarded(r, x) = Forwarded(list, x)
  BY <1>1, <1>2, NodeSetFacts
<1>4. m \notin MacsIn(list) => Forwarded(r, m) = {} /\ Forwarded(list, m) = {}
  BY <1>3, ForwardedPorts
<1>5. Forwarded(r, m) = Forwarded(list, m) \cap summary
  BY <1>3, <1>4 DEF ports
<1>. QED
  BY <1>3, <1>5

(* The ports of m are those of its members and of the routers.                 *)
Exact(db, list, m, routers) ==
    Sharing(db, m) # {} => Forwarded(list, m) = Members(db, Sharing(db, m)) \cup routers
AllExact(T, routers) == \A m \in Macs \ T.drift : Exact(T.db, T.list, m, routers)

(* Only the groups and the node of m differ.                                   *)
SameAt(r, T, x) ==
    /\ Sharing(r.db, x) = Sharing(T.db, x) /\ Forwarded(r.list, x) = Forwarded(T.list, x)
    /\ \A j \in Sharing(T.db, x) : r.db[j] = T.db[j]
Elsewhere(r, T, m) == \A x : x # m => SameAt(r, T, x)

LEMMA ExactElsewhere ==
    ASSUME NEW T \in TableSet, NEW r \in TableSet, NEW m, Elsewhere(r, T, m), NEW routers,
           \A x \in T.drift : x # m => x \in r.drift,
           m \in Macs \ r.drift => Exact(r.db, r.list, m, routers), AllExact(T, routers)
    PROVE  AllExact(r, routers)
<1>. SUFFICES ASSUME NEW x \in Macs \ r.drift PROVE Exact(r.db, r.list, x, routers)
  BY DEF AllExact
<1>. DEFINE S == Sharing(T.db, x)
<1>1. CASE x = m
  BY <1>1
<1>2. CASE x # m
  <2>1. Exact(T.db, T.list, x, routers)
    BY <1>2 DEF AllExact
  <2>2. Sharing(r.db, x) = S /\ Forwarded(r.list, x) = Forwarded(T.list, x)
    BY <1>2 DEF Elsewhere, SameAt
  <2>3. Members(r.db, S) = Members(T.db, S)
    <3>1. T.db \in Dbs /\ S \in SUBSET Entries
      BY TableFacts, DbFacts
    <3>2. \A j \in S : r.db[j] = T.db[j]
      BY <1>2 DEF Elsewhere, SameAt
    <3>. HIDE DEF S
    <3>. QED
      BY <3>1, <3>2, MemberFacts
  <2>. QED
    BY <2>1, <2>2, <2>3 DEF Exact
<1>. QED
  BY <1>1, <1>2

LEMMA RemovedFacts ==
    ASSUME NEW T \in TableSet, NEW i \in Entries, T.db[i].gda # NOGROUP,
           T.db[i].pioneer => Pals(T.db, i) = {}, NEW r, r = Removed(T, i)
    PROVE  /\ r \in TableSet /\ r.drift = T.drift /\ Elsewhere(r, T, MacOf(T.db, i))
           /\ \A m : Sharing(r.db, m) = Sharing(T.db, m) \ {i}
           /\ \A j \in Entries \ {i} : r.db[j] = T.db[j]
           /\ ~T.db[i].pioneer => r.list = T.list
<1>. DEFINE m == MacOf(T.db, i)
            db == [T.db EXCEPT ![i] = Free]
            list == IF T.db[i].pioneer THEN AddrRemove(T.list, m) ELSE T.list
<1>1. /\ T.db \in Dbs /\ T.list \in McLists /\ T.drift \in SUBSET Macs /\ Len(T.list) <= MaxNodes
      /\ T = [db |-> T.db, list |-> T.list, drift |-> T.drift] /\ Led(T.db, T.list)
  BY TableFacts
<1>2. /\ db \in Dbs /\ \A x : Sharing(db, x) = Sharing(T.db, x) \ {i}
      /\ \A j \in Entries \ {i} : db[j] = T.db[j]
  BY <1>1, EntryFreed
<1>3. /\ list \in McLists /\ Len(list) <= Len(T.list)
      /\ \A x : x # m => (x \in MacsIn(list) <=> x \in MacsIn(T.list))
                         /\ Forwarded(list, x) = Forwarded(T.list, x)
      /\ ~T.db[i].pioneer => list = T.list
  <2>1. CASE T.db[i].pioneer
    <3>1. list = AddrRemove(T.list, m)
      BY <2>1
    <3>. HIDE DEF list, m
    <3>. QED
      BY <1>1, <2>1, <3>1, AddrRemoveFacts
  <2>2. CASE ~T.db[i].pioneer
    <3>1. list = T.list /\ Len(T.list) \in Nat
      BY <1>1, <2>2, McListFacts
    <3>. QED
      BY <1>1, <3>1
  <2>. QED
    BY <2>1, <2>2
<1>4. r = [db |-> db, list |-> list, drift |-> T.drift]
  <2>1. r = [[db |-> T.db, list |-> T.list, drift |-> T.drift] EXCEPT !.db = db, !.list = list]
    BY <1>1 DEF Removed
  <2>. HIDE DEF db, list
  <2>. QED
    BY <2>1
<1>5. T.db[i].pioneer => Sharing(db, m) = {}
  BY <1>1, <1>2, PalFacts
<1>6. i \in Sharing(T.db, m) /\ \A x : i \in Sharing(T.db, x) => x = m
  BY <1>1, DbFacts
<1>. HIDE DEF db, list, m
<1>7. Led(db, list)
  <2>. SUFFICES ASSUME NEW x \in Macs, Sharing(db, x) # {}
                PROVE  x \in MacsIn(list) /\ \E j \in Sharing(db, x) : db[j].pioneer
    BY DEF Led
  <2>1. x \in MacsIn(T.list) /\ \E j \in Sharing(T.db, x) : T.db[j].pioneer
    BY <1>1, <1>2 DEF Led
  <2>2. PICK j \in Sharing(T.db, x) : T.db[j].pioneer
    BY <2>1
  <2>3. j # i
    BY <1>5, <1>6, <2>2
  <2>4. j \in Entries /\ j \in Sharing(db, x) /\ db[j].pioneer
    BY <1>1, <1>2, <2>2, <2>3, DbFacts
  <2>5. x \in MacsIn(list)
    <3>1. CASE x = m
      BY <1>3, <1>5, <2>1, <3>1
    <3>2. CASE x # m
      BY <1>3, <2>1, <3>2
    <3>. QED
      BY <3>1, <3>2
  <2>. QED
    BY <2>4, <2>5
<1>8. Len(list) <= MaxNodes
  <2>1. Len(list) \in Nat /\ Len(T.list) \in Nat /\ MaxNodes \in Nat
    BY <1>1, <1>3, McListFacts, IgmpSnoopAssumption
  <2>. QED
    BY <1>1, <1>3, <2>1
<1>9. IsTables(r, db, list, T.drift)
  BY <1>1, <1>2, <1>3, <1>4, <1>7, <1>8, TablesMade
<1>10. Elsewhere(r, T, m)
  <2>. SUFFICES ASSUME NEW x, x # m PROVE SameAt(r, T, x)
    BY DEF Elsewhere
  <2>1. i \notin Sharing(T.db, x)
    BY <1>6
  <2>2. \A j \in Sharing(T.db, x) : db[j] = T.db[j]
    BY <1>1, <1>2, <2>1, DbFacts
  <2>3. Sharing(db, x) = Sharing(T.db, x)
    BY <1>2, <2>1
  <2>4. Forwarded(list, x) = Forwarded(T.list, x)
    BY <1>3
  <2>. QED
    BY <1>9, <2>2, <2>3, <2>4 DEF IsTables, SameAt
<1>. QED
  BY <1>2, <1>3, <1>9, <1>10 DEF IsTables, m

TablesTaken(r, T, m, db, summary, drift) ==
    /\ r \in TableSet /\ r.drift = drift /\ r.db = db /\ Elsewhere(r, T, m)
    /\ Forwarded(r.list, m) = Forwarded(T.list, m) \cap summary

(* A pal takes over from the pioneer, and its list is cut down to the summary. *)
LEMMA TakeOverTables ==
    ASSUME NEW T \in TableSet, NEW i \in Entries, T.db[i].pioneer, NEW pal \in Pals(T.db, i),
           NEW db, TakenOver(db, T.db, i, pal), NEW summary, NEW drift \in SUBSET Macs,
           NEW r, r = [db |-> db, list |-> Cast(T.list, MacOf(T.db, i), summary), drift |-> drift]
    PROVE  TablesTaken(r, T, MacOf(T.db, i), db, summary, drift)
<1>. DEFINE m == MacOf(T.db, i)
            list == Cast(T.list, m, summary)
<1>1. /\ T.db \in Dbs /\ T.list \in McLists /\ Len(T.list) <= MaxNodes /\ Led(T.db, T.list)
  BY TableFacts
<1>2. /\ list \in McLists /\ Len(list) = Len(T.list) /\ MacsIn(list) = MacsIn(T.list)
      /\ Forwarded(list, m) = Forwarded(T.list, m) \cap summary
      /\ \A x : x # m => Forwarded(list, x) = Forwarded(T.list, x)
  BY <1>1, CastFacts
<1>3. /\ db \in Dbs /\ \A x : Sharing(db, x) = Sharing(T.db, x) \ {pal}
      /\ \A j \in Entries \ {i, pal} : db[j] = T.db[j]
  BY <1>1 DEF TakenOver
<1>. HIDE DEF list
<1>4. Led(db, list)
  BY <1>1, <1>2 DEF TakenOver, Led
<1>5. IsTables(r, db, list, drift)
  BY <1>1, <1>2, <1>3, <1>4, TablesMade DEF list
<1>6. Elsewhere(r, T, m)
  <2>. SUFFICES ASSUME NEW x, x # m PROVE SameAt(r, T, x)
    BY DEF Elsewhere
  <2>1. i \notin Sharing(T.db, x) /\ pal \notin Sharing(T.db, x)
    BY <1>1, PalFacts, DbFacts
  <2>2. \A j \in Sharing(T.db, x) : db[j] = T.db[j]
    BY <1>1, <1>3, <2>1, DbFacts
  <2>3. Sharing(db, x) = Sharing(T.db, x)
    BY <1>3, <2>1
  <2>4. Forwarded(list, x) = Forwarded(T.list, x)
    BY <1>2
  <2>. QED
    BY <1>5, <2>2, <2>3, <2>4 DEF IsTables, SameAt
<1>. QED
  BY <1>2, <1>5, <1>6 DEF IsTables, TablesTaken

LEMMA EntryRemoveFacts ==
    ASSUME NEW T \in TableSet, NEW i \in Entries, T.db[i].gda # NOGROUP,
           NEW r, r = EntryRemove(T, i)
    PROVE  /\ r \in TableSet /\ r.drift = T.drift /\ Elsewhere(r, T, MacOf(T.db, i))
           /\ Pals(T.db, i) = {} => Sharing(r.db, MacOf(T.db, i)) = {}
<1>. DEFINE m == MacOf(T.db, i)
            pals == Pals(T.db, i)
            summary == Members(T.db, pals) \cup dynamic_router.uplist
            db == TakeOver(T.db, i, FirstOf(pals))
<1>1. /\ T.db \in Dbs /\ T.drift \in SUBSET Macs
      /\ T = [db |-> T.db, list |-> T.list, drift |-> T.drift]
  BY TableFacts
<1>2. CASE T.db[i].pioneer /\ pals # {}
  <2>1. FirstOf(pals) \in pals
    BY <1>1, <1>2, PalFacts
  <2>2. TakenOver(db, T.db, i, FirstOf(pals))
    BY <1>1, <1>2, <2>1, TakeOverFacts
  <2>3. r = [db |-> db, list |-> Cast(T.list, m, summary), drift |-> T.drift]
    <3>1. r = [[db |-> T.db, list |-> T.list, drift |-> T.drift]
                  EXCEPT !.list = Cast(T.list, m, summary), !.db = db]
      BY <1>1, <1>2 DEF EntryRemove
    <3>. HIDE DEF db, m, summary
    <3>. QED
      BY <3>1
  <2>. HIDE DEF db, summary
  <2>4. r \in TableSet /\ r.drift = T.drift /\ Elsewhere(r, T, m)
    <3>1. TablesTaken(r, T, m, db, summary, T.drift)
      BY <1>1, <1>2, <2>1, <2>2, <2>3, TakeOverTables
    <3>. QED
      BY <3>1 DEF TablesTaken
  <2>. QED
    BY <1>2, <2>4
<1>3. CASE ~(T.db[i].pioneer /\ pals # {})
  <2>1. r = Removed(T, i)
    BY <1>3 DEF EntryRemove
  <2>2. /\ r \in TableSet /\ r.drift = T.drift /\ Elsewhere(r, T, m)
        /\ Sharing(r.db, m) = Sharing(T.db, m) \ {i}
    BY <1>3, <2>1, RemovedFacts
  <2>3. Sharing(T.db, m) = pals \cup {i}
    BY <1>1, PalFacts
  <2>. QED
    BY <2>2, <2>3
<1>. QED
  BY <1>2, <1>3

(* The ages and the ports of one entry change, and its list may be cut down.    *)
EntryAdjusted(r, T, i, e, list, drift) ==
    /\ r \in TableSet /\ r.drift = drift /\ r.list = list
    /\ Elsewhere(r, T, MacOf(T.db, i)) /\ \A m : Sharing(r.db, m) = Sharing(T.db, m)
    /\ r.db[i] = e /\ \A j \in Entries \ {i} : r.db[j] = T.db[j]
    /\ Pals(r.db, i) = Pals(T.db, i) /\ MacOf(r.db, i) = MacOf(T.db, i)

Adjusts(e, old) ==
    e \in McEntry /\ e.gda = old.gda /\ e.pioneer = old.pioneer /\ e.age \subseteq e.uplist

LEMMA EntryAdjusts ==
    ASSUME NEW T \in TableSet, NEW i \in Entries, T.db[i].gda # NOGROUP, NEW e,
           Adjusts(e, T.db[i]), NEW db, db = [T.db EXCEPT ![i] = e],
           NEW list, NEW cut,
           \/ list = T.list
           \/ list = Cast(T.list, MacOf(T.db, i), cut)
           \/ cut \in SUBSET Ports /\ list = NodeSet(T.list, MacOf(T.db, i), cut),
           NEW drift \in SUBSET Macs,
           NEW r, r = [db |-> db, list |-> list, drift |-> drift]
    PROVE  EntryAdjusted(r, T, i, e, list, drift)
<1>. DEFINE m == MacOf(T.db, i)
<1>1. /\ T.db \in Dbs /\ T.list \in McLists /\ Len(T.list) <= MaxNodes /\ Led(T.db, T.list)
  BY TableFacts
<1>2. /\ e \in McEntry /\ e.gda = T.db[i].gda /\ e.pioneer = T.db[i].pioneer
      /\ e.age \subseteq e.uplist
  BY DEF Adjusts
<1>4. db \in Dbs /\ (\A x : Sharing(db, x) = Sharing(T.db, x)) /\ Led(db, T.list)
  <2>1. AgesOnly(db, T.db)
    BY <1>1, <1>2, AgesChanged
  <2>. QED
    BY <1>1, <2>1 DEF AgesOnly
<1>5. db[i] = e /\ MacOf(db, i) = m /\ \A j \in Entries \ {i} : db[j] = T.db[j]
  <2>1. Replaced(db, T.db, i, e)
    BY <1>1, <1>2, EntryReplaced
  <2>. QED
    BY <1>2, <2>1 DEF Replaced, MacOf
<1>6. /\ list \in McLists /\ Len(list) = Len(T.list) /\ MacsIn(list) = MacsIn(T.list)
      /\ \A x : x # m => Forwarded(list, x) = Forwarded(T.list, x)
  <2>1. CASE list = T.list
    BY <1>1, <2>1
  <2>2. CASE list = Cast(T.list, m, cut)
    BY <1>1, <2>2, CastFacts
  <2>3. CASE cut \in SUBSET Ports /\ list = NodeSet(T.list, m, cut)
    BY <1>1, <2>3, NodeSetFacts
  <2>. QED
    BY <2>1, <2>2, <2>3
<1>7. Led(db, list)
  BY <1>4, <1>6 DEF Led
<1>8. IsTables(r, db, list, drift)
  BY <1>1, <1>4, <1>6, <1>7, TablesMade
<1>9. Elsewhere(r, T, m)
  <2>. SUFFICES ASSUME NEW x, x # m PROVE SameAt(r, T, x)
    BY DEF Elsewhere
  <2>1. \A j \in Sharing(T.db, x) : db[j] = T.db[j]
    BY <1>1, <1>5, DbFacts
  <2>. QED
    BY <1>4, <1>6, <1>8, <2>1 DEF IsTables, SameAt
<1>10. Pals(db, i) = Pals(T.db, i)
  BY <1>4, <1>5 DEF Pals
<1>. QED
  BY <1>4, <1>5, <1>8, <1>9, <1>10 DEF IsTables, EntryAdjusted

LEMMA ElsewhereTwice ==
    ASSUME NEW T, NEW U, NEW V, NEW m, Elsewhere(U, T, m), Elsewhere(V, U, m)
    PROVE  Elsewhere(V, T, m)
<1>. SUFFICES ASSUME NEW x, x # m PROVE SameAt(V, T, x)
  BY DEF Elsewhere
<1>. QED
  BY DEF Elsewhere, SameAt

LEMMA OnlyMember ==
    ASSUME NEW db \in Dbs, NEW i \in Entries, db[i].gda # NOGROUP, Pals(db, i) = {}
    PROVE  /\ Sharing(db, MacOf(db, i)) = {i} /\ Members(db, {i}) = db[i].uplist
           /\ Reported(db, {i}) = db[i].age
<1>1. Sharing(db, MacOf(db, i)) = {i}
  BY PalFacts
<1>. QED
  BY <1>1 DEF Members, Reported

(* The invariant of the walk over the leaves.                                  *)
KeptExact(r, T) ==
    r \in TableSet /\ (AllExact(T, dynamic_router.uplist) => AllExact(r, dynamic_router.uplist))

LEMMA LeaveExpiresFacts ==
    ASSUME NEW T \in TableSet, NEW i \in Entries, T.db[i].gda # NOGROUP, NEW l,
           dynamic_router.uplist \in SUBSET Ports, NEW r, r = LeaveExpires(T, i, l)
    PROVE  KeptExact(r, T)
<1>. DEFINE m == MacOf(T.db, i)
            p == l.uport
            R == dynamic_router.uplist
            pals == Pals(T.db, i)
            used == \E j \in pals : p \in T.db[i].age \cap T.db[j].age
            db == [T.db EXCEPT ![i] = Without(T.db[i], p)]
            list == IF used \/ p \in R THEN T.list ELSE Cast(T.list, m, Ports \ {p})
            drift == IF pals = {} THEN T.drift ELSE T.drift \cup {m}
            left == [db |-> db, list |-> list, drift |-> drift]
<1>1. /\ T.db \in Dbs /\ T.list \in McLists /\ T.drift \in SUBSET Macs
      /\ T = [db |-> T.db, list |-> T.list, drift |-> T.drift] /\ m \in Macs
      /\ T.db[i].uplist \in SUBSET Ports
  BY TableFacts, DbFacts
<1>2. r = IF left.db[i].uplist = {} THEN EntryRemove(left, i) ELSE left
  <2>1. left = [T EXCEPT !.db = db, !.list = list, !.drift = drift]
    <3>. HIDE DEF db, list, drift
    <3>1. PICK U : Changed(U, T, db, list, drift)
      BY DEF Changed
    <3>2. U = left
      BY <3>1, TablesChanged
    <3>. QED
      BY <3>1, <3>2 DEF Changed
  <2>2. [T EXCEPT !.db = db, !.list = list, !.drift = drift]
        = [T EXCEPT !.db[i] = Without(@, p),
                    !.list = IF used \/ p \in R THEN @ ELSE Cast(@, m, Ports \ {p}),
                    !.drift = IF pals = {} THEN @ ELSE @ \cup {m}]
    <3>. HIDE DEF used
    <3>. QED
      OBVIOUS
  <2>. HIDE DEF left, used
  <2>. QED
    BY <2>1, <2>2 DEF LeaveExpires, used
<1>3. list = T.list \/ list = Cast(T.list, m, Ports \ {p})
  OBVIOUS
<1>4. drift \in SUBSET Macs /\ T.drift \subseteq drift /\ (pals # {} => m \in drift)
  BY <1>1
<1>5. /\ left \in TableSet /\ left.drift = drift /\ left.list = list
      /\ Elsewhere(left, T, m) /\ \A x : Sharing(left.db, x) = Sharing(T.db, x)
      /\ left.db[i].gda # NOGROUP /\ left.db[i].uplist = T.db[i].uplist \ {p}
      /\ Pals(left.db, i) = pals /\ MacOf(left.db, i) = m
  <2>. HIDE DEF list, drift
  <2>. QED
    <3>1. T.db[i] \in McEntry /\ T.db[i].age \subseteq T.db[i].uplist
      BY <1>1, DbFacts DEF Unique
    <3>2. Adjusts(Without(T.db[i], p), T.db[i]) /\ Without(T.db[i], p).uplist = T.db[i].uplist \ {p}
      BY <3>1 DEF Adjusts, Without, McEntry
    <3>3. EntryAdjusted(left, T, i, Without(T.db[i], p), list, drift)
      BY <1>3, <1>4, <3>2, EntryAdjusts
    <3>. QED
      BY <3>2, <3>3 DEF EntryAdjusted, Adjusts
<1>6. ASSUME AllExact(T, R), m \notin drift PROVE Exact(left.db, left.list, m, R)
  <2>1. pals = {} /\ Exact(T.db, T.list, m, R) /\ ~used
    BY <1>1, <1>4, <1>6 DEF AllExact
  <2>2. /\ Sharing(T.db, m) = {i} /\ Members(T.db, {i}) = T.db[i].uplist
        /\ Members(left.db, {i}) = T.db[i].uplist \ {p}
    <3>1. Sharing(T.db, m) = {i} /\ Members(T.db, {i}) = T.db[i].uplist
      BY <1>1, <2>1, OnlyMember
    <3>2. Members(left.db, {i}) = left.db[i].uplist
      BY DEF Members
    <3>. QED
      BY <1>5, <3>1, <3>2
  <2>3. Forwarded(T.list, m) = T.db[i].uplist \cup R
    BY <2>1, <2>2 DEF Exact
  <2>4. Forwarded(list, m) = (T.db[i].uplist \ {p}) \cup R
    <3>1. CASE p \in R
      BY <2>3, <3>1
    <3>2. CASE p \notin R
      <4>1. list = Cast(T.list, m, Ports \ {p})
        BY <2>1, <3>2
      <4>2. Forwarded(list, m) = Forwarded(T.list, m) \cap (Ports \ {p})
        BY <1>1, <4>1, CastFacts
      <4>. QED
        BY <1>1, <2>3, <3>2, <4>2
    <3>. QED
      BY <3>1, <3>2
  <2>. HIDE DEF list, left
  <2>. QED
    BY <1>5, <2>2, <2>4 DEF Exact
<1>. HIDE DEF left, used, list, db, drift
<1>7. CASE left.db[i].uplist # {}
  <2>1. AllExact(T, R) => AllExact(left, R)
    BY <1>4, <1>5, <1>6, ExactElsewhere
  <2>. QED
    BY <1>2, <1>5, <1>7, <2>1 DEF KeptExact
<1>8. CASE left.db[i].uplist = {}
  <2>1. r = EntryRemove(left, i)
    BY <1>2, <1>8
  <2>2. /\ r \in TableSet /\ r.drift = left.drift /\ Elsewhere(r, left, m)
        /\ pals = {} => Sharing(r.db, m) = {}
    BY <1>5, <2>1, EntryRemoveFacts
  <2>3. Elsewhere(r, T, m)
    BY <1>5, <2>2, ElsewhereTwice
  <2>4. m \notin r.drift => Exact(r.db, r.list, m, R)
    BY <1>4, <1>5, <2>2 DEF Exact
  <2>5. AllExact(T, R) => AllExact(r, R)
    BY <1>4, <1>5, <2>2, <2>3, <2>4, ExactElsewhere
  <2>. QED
    BY <2>2, <2>5 DEF KeptExact
<1>. QED
  BY <1>7, <1>8

-----------------------------------------------------------------------------
(* Ageing.                                                                     *)
LEMMA MembersWith ==
    ASSUME NEW db, NEW A, NEW B
    PROVE  /\ Members(db, A \cup B) = Members(db, A) \cup Members(db, B)
           /\ Reported(db, A \cup B) = Reported(db, A) \cup Reported(db, B)
<1>1. Members(db, A \cup B) = Members(db, A) \cup Members(db, B)
  BY DEF Members
<1>2. Reported(db, A \cup B) = Reported(db, A) \cup Reported(db, B)
  BY DEF Reported
<1>. QED
  BY <1>1, <1>2

MembersPlus(db, A, i) ==
    /\ Members(db, A \cup {i}) = Members(db, A) \cup db[i].uplist
    /\ Reported(db, A \cup {i}) = Reported(db, A) \cup db[i].age

LEMMA MembersOf ==
    ASSUME NEW db, NEW A, NEW i
    PROVE  MembersPlus(db, A, i)
<1>1. Members(db, A \cup {i}) = Members(db, A) \cup db[i].uplist
  BY DEF Members
<1>2. Reported(db, A \cup {i}) = Reported(db, A) \cup db[i].age
  BY DEF Reported
<1>. QED
  BY <1>1, <1>2 DEF MembersPlus

(* When the entries up to k are aged: the list of m is not cut down yet, or it *)
(* has the members of these entries and what was reported for the others.      *)
HalfAged(T, k, m, routers) ==
    \A q \in Sharing(T.db, m) : T.db[q].pioneer =>
        IF k < q THEN Members(T.db, Sharing(T.db, m)) \cup routers \subseteq Forwarded(T.list, m)
        ELSE Forwarded(T.list, m) = Members(T.db, Sharing(T.db, m) \cap (1..k))
                                    \cup Reported(T.db, Sharing(T.db, m) \ (1..k)) \cup routers
AllHalf(T, k, routers) == \A m \in Macs \ T.drift : HalfAged(T, k, m, routers)

HalfOf(T, k, m, routers, X, A, B) ==
    /\ Sharing(T.db, m) = X /\ X \cap (1..k) = A /\ X \ (1..k) = B
    /\ \A q \in X : T.db[q].pioneer =>
          IF k < q THEN Members(T.db, X) \cup routers \subseteq Forwarded(T.list, m)
          ELSE Forwarded(T.list, m) = Members(T.db, A) \cup Reported(T.db, B) \cup routers

LEMMA HalfFrom ==
    ASSUME NEW T, NEW k, NEW m, NEW routers, NEW X, NEW A, NEW B,
           HalfOf(T, k, m, routers, X, A, B)
    PROVE  HalfAged(T, k, m, routers)
<1>1. /\ Members(T.db, X \cap (1..k)) = Members(T.db, A)
      /\ Reported(T.db, X \ (1..k)) = Reported(T.db, B)
  BY DEF HalfOf
<1>. QED
  BY <1>1, Zenon DEF HalfAged, HalfOf

LEMMA HalfElsewhere ==
    ASSUME NEW T \in TableSet, NEW r \in TableSet, NEW k \in Entries, NEW routers, NEW x,
           SameAt(r, T, x), k \notin Sharing(T.db, x), HalfAged(T, k - 1, x, routers)
    PROVE  HalfAged(r, k, x, routers)
<1>. DEFINE S == Sharing(T.db, x)
<1>1. /\ T.db \in Dbs /\ S \in SUBSET Entries /\ Sharing(r.db, x) = S
      /\ Forwarded(r.list, x) = Forwarded(T.list, x) /\ \A j \in S : r.db[j] = T.db[j]
  BY TableFacts, DbFacts DEF SameAt
<1>2. k \in Nat \ {0} /\ \A j \in S : j \in Nat \ {0} /\ j # k
  BY <1>1, McConstants
<1>3. S \cap (1..k) = S \cap (1..(k - 1)) /\ S \ (1..k) = S \ (1..(k - 1))
      /\ \A q \in S : k < q <=> k - 1 < q
  <2>1. \A j \in S : (j \in 1..k <=> j \in 1..(k - 1)) /\ (k < j <=> k - 1 < j)
    BY <1>2
  <2>. HIDE DEF S
  <2>. QED
    BY <2>1
<1>4. \A A \in SUBSET S : Members(r.db, A) = Members(T.db, A) /\ Reported(r.db, A) = Reported(T.db, A)
  BY <1>1 DEF Members, Reported
<1>5. /\ Members(r.db, S) = Members(T.db, S)
      /\ Members(r.db, S \cap (1..k)) = Members(T.db, S \cap (1..(k - 1)))
      /\ Reported(r.db, S \ (1..k)) = Reported(T.db, S \ (1..(k - 1)))
  <2>1. S \cap (1..(k - 1)) \in SUBSET S /\ S \ (1..(k - 1)) \in SUBSET S
    OBVIOUS
  <2>. HIDE DEF S
  <2>. QED
    BY <1>3, <1>4, <2>1
<1>. HIDE DEF S
<1>6. \A q \in S : r.db[q].pioneer = T.db[q].pioneer
  BY <1>1
<1>. QED
  BY <1>1, <1>3, <1>5, <1>6 DEF HalfAged, S

(* The entries that share the address of k, before and behind it.              *)
Split(S, k, pals, before) ==
    /\ S = pals \cup {k} /\ k \notin pals /\ before \subseteq pals
    /\ S \in SUBSET Entries /\ pals \in SUBSET Entries
    /\ S \cap (1..k) = before \cup {k} /\ S \ (1..k) = pals \ before
    /\ S \cap (1..(k - 1)) = before /\ S \ (1..(k - 1)) = (pals \ before) \cup {k}
    /\ (S \ {k}) \cap (1..k) = before /\ (S \ {k}) \ (1..k) = pals \ before
    /\ k - 1 < k /\ \A j \in pals : (k < j <=> k - 1 < j) /\ (j \in before <=> ~(k < j))

LEMMA SplitPals ==
    ASSUME NEW db \in Dbs, NEW k \in Entries, db[k].gda # NOGROUP,
           NEW S, S = Sharing(db, MacOf(db, k)), NEW pals, pals = Pals(db, k),
           NEW before, before = {j \in pals : j < k}
    PROVE  Split(S, k, pals, before)
<1>1. S = pals \cup {k} /\ k \notin pals /\ S \in SUBSET Entries /\ pals \in SUBSET Entries
  BY PalFacts, DbFacts
<1>2. k \in Nat \ {0} /\ \A j \in pals : j \in Nat \ {0} /\ j # k
  BY <1>1, McConstants
<1>3. k \in 1..k /\ k \notin 1..(k - 1) /\ k - 1 < k
  BY <1>2
<1>4. \A j \in pals : /\ j \in 1..k <=> j < k
                      /\ j \in 1..(k - 1) <=> j < k
                      /\ k < j <=> k - 1 < j
                      /\ j < k <=> ~(k < j)
  BY <1>2
<1>. QED
  BY <1>1, <1>3, <1>4 DEF Split

AgedKept(r, T, k, routers) ==
    r \in TableSet /\ (AllHalf(T, k - 1, routers) => AllHalf(r, k, routers))

LEMMA HalfStep ==
    ASSUME NEW T \in TableSet, NEW r \in TableSet, NEW k \in Entries, NEW routers,
           NEW m, T.db[k].gda # NOGROUP, m = MacOf(T.db, k), Elsewhere(r, T, m),
           T.drift \subseteq r.drift,
           m \notin r.drift /\ HalfAged(T, k - 1, m, routers) => HalfAged(r, k, m, routers)
    PROVE  AgedKept(r, T, k, routers)
<1>. SUFFICES ASSUME AllHalf(T, k - 1, routers), NEW x \in Macs \ r.drift
              PROVE  HalfAged(r, k, x, routers)
  BY DEF AgedKept, AllHalf
<1>1. HalfAged(T, k - 1, x, routers)
  BY DEF AllHalf
<1>2. CASE x = m
  BY <1>1, <1>2
<1>3. CASE x # m
  <2>1. k \notin Sharing(T.db, x)
    BY <1>3, TableFacts, DbFacts
  <2>2. SameAt(r, T, x)
    BY <1>3 DEF Elsewhere
  <2>. QED
    BY <1>1, <2>1, <2>2, HalfElsewhere
<1>. QED
  BY <1>2, <1>3

LEMMA FreeAged ==
    ASSUME NEW T \in TableSet, NEW k \in Entries, T.db[k].gda = NOGROUP, NEW routers
    PROVE  AgedKept(T, T, k, routers)
<1>. SUFFICES ASSUME AllHalf(T, k - 1, routers), NEW x \in Macs \ T.drift
              PROVE  HalfAged(T, k, x, routers)
  BY DEF AgedKept, AllHalf
<1>1. HalfAged(T, k - 1, x, routers) /\ SameAt(T, T, x) /\ k \notin Sharing(T.db, x)
  BY TableFacts, DbFacts DEF AllHalf, SameAt
<1>. QED
  BY <1>1, HalfElsewhere

LEMMA SummaryFacts ==
    ASSUME NEW db \in Dbs, NEW k \in Entries, db[k].gda # NOGROUP, NEW routers \in SUBSET Ports
    PROVE  Summary(db, k, routers) \subseteq Members(db, Sharing(db, MacOf(db, k))) \cup routers
<1>. DEFINE S == Sharing(db, MacOf(db, k))
            A == Earlier(db, k)
            B == (Pals(db, k) \ A) \cup {k}
<1>1. S = A \cup B /\ A \in SUBSET Entries /\ B \in SUBSET Entries
  BY PalFacts DEF Earlier
<1>. HIDE DEF S, A, B
<1>2. Members(db, S) = Members(db, A) \cup Members(db, B) /\ Reported(db, B) \subseteq Members(db, B)
  BY <1>1, MembersWith, MemberFacts
<1>. QED
  BY <1>2 DEF Summary, S, A, B

(* An entry that was reported since the last ageing.                           *)
LEMMA ReportedAged ==
    ASSUME NEW T \in TableSet, NEW k \in Entries, T.db[k].gda # NOGROUP,
           NEW routers \in SUBSET Ports, NEW list,
           list = IF T.db[k].pioneer
                  THEN Cast(T.list, MacOf(T.db, k), Summary(T.db, k, routers)) ELSE T.list,
           NEW db, db = [T.db EXCEPT ![k] = Aged(T.db[k])],
           NEW r, r = [db |-> db, list |-> list, drift |-> T.drift]
    PROVE  AgedKept(r, T, k, routers)
<1>. DEFINE m == MacOf(T.db, k)
            e == T.db[k]
            pals == Pals(T.db, k)
            before == {j \in pals : j < k}
            S == Sharing(T.db, m)
<1>1. /\ T.db \in Dbs /\ T.list \in McLists /\ T.drift \in SUBSET Macs
      /\ e \in McEntry /\ e.age \subseteq e.uplist
  BY TableFacts, DbFacts DEF Unique
<1>2. /\ S = pals \cup {k} /\ k \notin pals /\ before \subseteq pals
      /\ S \in SUBSET Entries /\ pals \in SUBSET Entries
      /\ S \cap (1..k) = before \cup {k} /\ S \ (1..k) = pals \ before
      /\ S \cap (1..(k - 1)) = before /\ S \ (1..(k - 1)) = (pals \ before) \cup {k}
      /\ k - 1 < k /\ \A j \in pals : (k < j <=> k - 1 < j) /\ (j \in before <=> ~(k < j))
  <2>1. Split(S, k, pals, before)
    BY <1>1, SplitPals
  <2>. QED
    BY <2>1 DEF Split
<1>3. Adjusts(Aged(e), e) /\ Aged(e).uplist = e.age /\ Aged(e).age = {}
  BY <1>1 DEF Adjusts, Aged, McEntry
<1>4. EntryAdjusted(r, T, k, Aged(e), list, T.drift)
  <2>1. list = T.list \/ list = Cast(T.list, m, Summary(T.db, k, routers))
    OBVIOUS
  <2>. QED
    BY <1>1, <1>3, <2>1, EntryAdjusts
<1>5. /\ r \in TableSet /\ r.drift = T.drift /\ r.list = list /\ Elsewhere(r, T, m)
      /\ Sharing(r.db, m) = S /\ r.db[k] = Aged(e) /\ \A j \in Entries \ {k} : r.db[j] = T.db[j]
  BY <1>4 DEF EntryAdjusted
<1>. HIDE DEF pals, before, S, m
<1>6. /\ Members(r.db, before \cup {k}) = Members(T.db, before) \cup e.age
      /\ Reported(r.db, pals \ before) = Reported(T.db, pals \ before)
      /\ Members(r.db, S) \subseteq Members(T.db, S)
  <2>1. \A A \in SUBSET pals : Members(r.db, A) = Members(T.db, A) /\ Reported(r.db, A) = Reported(T.db, A)
    <3>. TAKE A \in SUBSET pals
    <3>1. A \in SUBSET Entries /\ \A j \in A : r.db[j] = T.db[j]
      BY <1>2, <1>5
    <3>. QED
      BY <1>1, <3>1, MemberFacts
  <2>2. MembersPlus(r.db, before, k) /\ MembersPlus(r.db, pals, k) /\ MembersPlus(T.db, pals, k)
    BY MembersOf
  <2>3. /\ Members(r.db, before \cup {k}) = Members(T.db, before) \cup Aged(e).uplist
        /\ Members(r.db, S) = Members(T.db, pals) \cup Aged(e).uplist
        /\ Members(T.db, S) = Members(T.db, pals) \cup e.uplist
    BY <1>2, <1>5, <2>1, <2>2 DEF MembersPlus
  <2>4. pals \ before \in SUBSET pals
    OBVIOUS
  <2>. QED
    BY <1>1, <1>3, <2>1, <2>3, <2>4
<1>. DEFINE final == Members(r.db, S \cap (1..k)) \cup Reported(r.db, S \ (1..k)) \cup routers
<1>8. final = Members(T.db, before) \cup Reported(T.db, pals \ before) \cup e.age \cup routers
  <2>1. /\ Members(r.db, S \cap (1..k)) = Members(T.db, before) \cup e.age
        /\ Reported(r.db, S \ (1..k)) = Reported(T.db, pals \ before)
    BY <1>2, <1>6
  <2>. QED
    BY <2>1
<1>. HIDE DEF final
<1>7. ASSUME HalfAged(T, k - 1, m, routers) PROVE HalfAged(r, k, m, routers)
  <2>. SUFFICES ASSUME NEW q \in S, r.db[q].pioneer
                PROVE  IF k < q THEN Members(r.db, S) \cup routers \subseteq Forwarded(list, m)
                       ELSE Forwarded(list, m) = final
    BY <1>5 DEF HalfAged, final
  <2>1. T.db[q].pioneer
    <3>1. Aged(e).pioneer = e.pioneer
      BY <1>3 DEF Adjusts
    <3>. QED
      BY <1>2, <1>5, <3>1
  <2>2. IF k - 1 < q THEN Members(T.db, S) \cup routers \subseteq Forwarded(T.list, m)
        ELSE Forwarded(T.list, m) = Members(T.db, S \cap (1..(k - 1)))
                                    \cup Reported(T.db, S \ (1..(k - 1))) \cup routers
    BY <1>7, <2>1 DEF HalfAged, S
  <2>3. CASE q = k
    <3>1. list = Cast(T.list, m, Summary(T.db, k, routers)) /\ ~(k < k)
      BY <1>2, <2>1, <2>3, McConstants DEF m
    <3>2. Forwarded(list, m) = Forwarded(T.list, m) \cap Summary(T.db, k, routers)
      BY <1>1, <3>1, CastFacts
    <3>3. Summary(T.db, k, routers) \subseteq Forwarded(T.list, m)
      <4>1. Summary(T.db, k, routers) \subseteq Members(T.db, S) \cup routers
        BY <1>1, SummaryFacts DEF S, m
      <4>. QED
        BY <1>2, <2>2, <2>3, <4>1
    <3>4. Summary(T.db, k, routers)
          = Members(T.db, before) \cup Reported(T.db, pals \ before) \cup e.age \cup routers
      <4>1. MembersPlus(T.db, pals \ before, k)
        BY MembersOf
      <4>. QED
        BY <4>1 DEF MembersPlus, Summary, Earlier, pals, before
    <3>. QED
      <4>1. Forwarded(list, m) = final
        BY <1>8, <3>2, <3>3, <3>4
      <4>. QED
        BY <2>3, <3>1, <4>1
  <2>4. CASE q # k
    <3>1. q \in pals /\ list = T.list
      <4>1. q \in pals
        BY <1>2, <2>4
      <4>2. ~T.db[k].pioneer
        BY <1>1, <2>1, <4>1, PalFacts DEF pals
      <4>. QED
        BY <4>1, <4>2
    <3>2. CASE k < q
      BY <1>2, <1>6, <2>2, <3>1, <3>2
    <3>3. CASE ~(k < q)
      <4>1. MembersPlus(T.db, pals \ before, k)
        BY MembersOf
      <4>2. Forwarded(T.list, m) = Members(T.db, before) \cup Reported(T.db, pals \ before)
                                   \cup e.age \cup routers
        BY <1>2, <2>2, <3>1, <3>3, <4>1 DEF MembersPlus
      <4>. QED
        BY <1>8, <3>1, <3>3, <4>2
    <3>. QED
      BY <3>2, <3>3
  <2>. QED
    BY <2>3, <2>4
<1>. QED
  BY <1>5, <1>7, HalfStep DEF m

(* A pioneer that was not reported, and a pal.                                 *)
LEMMA PioneerAged ==
    ASSUME NEW T \in TableSet, NEW k \in Entries, T.db[k].pioneer, T.db[k].age = {},
           NEW pals, pals = Pals(T.db, k), pals # {}, NEW routers \in SUBSET Ports,
           NEW m, m = MacOf(T.db, k), NEW taken, taken = TakeOver(T.db, k, FirstOf(pals)),
           NEW db, db = [taken EXCEPT ![k] = Aged(taken[k])],
           NEW list, list = Cast(T.list, m, Summary(T.db, k, routers)),
           NEW drift, drift = IF Earlier(T.db, k) = {} THEN T.drift ELSE T.drift \cup {m},
           NEW r, r = [db |-> db, list |-> list, drift |-> drift]
    PROVE  AgedKept(r, T, k, routers)
<1>. DEFINE pal == FirstOf(pals)
            before == {j \in pals : j < k}
            S == Sharing(T.db, m)
            U == [db |-> taken, list |-> list, drift |-> drift]
            e == Aged(taken[k])
<1>1. /\ T.db \in Dbs /\ T.list \in McLists /\ T.drift \in SUBSET Macs
      /\ T.db[k].gda # NOGROUP /\ m \in Macs /\ pal \in pals /\ pal # k /\ pal \in Entries
  <2>1. T.db \in Dbs /\ T.list \in McLists /\ T.drift \in SUBSET Macs
    BY TableFacts
  <2>2. T.db[k].gda # NOGROUP /\ pal \in pals /\ pal # k /\ pal \in Entries
    BY <2>1, PalFacts
  <2>. QED
    BY <2>1, <2>2, DbFacts
<1>2. /\ S = pals \cup {k} /\ k \notin pals /\ S \in SUBSET Entries /\ pals \in SUBSET Entries
      /\ S \cap (1..k) = before \cup {k} /\ S \ (1..k) = pals \ before
      /\ k - 1 < k
  <2>1. Split(S, k, pals, before)
    BY <1>1, SplitPals
  <2>. QED
    BY <2>1 DEF Split
<1>3. drift \in SUBSET Macs /\ T.drift \subseteq drift /\ (m \notin drift => Earlier(T.db, k) = {})
  BY <1>1
<1>. HIDE DEF pal, S, before, e
<1>4. TakenOver(taken, T.db, k, pal)
  BY <1>1, TakeOverFacts DEF pal
<1>5. /\ taken \in Dbs /\ Sharing(taken, m) = S \ {pal} /\ taken[k].pioneer
      /\ taken[k].age = T.db[pal].age /\ \A j \in Entries \ {k, pal} : taken[j] = T.db[j]
  BY <1>4 DEF TakenOver, S
<1>6. TablesTaken(U, T, m, taken, Summary(T.db, k, routers), drift)
  BY <1>1, <1>3, <1>4, TakeOverTables
<1>7. U \in TableSet /\ U.db = taken /\ U.list = list /\ U.drift = drift /\ Elsewhere(U, T, m)
      /\ Forwarded(list, m) = Forwarded(T.list, m) \cap Summary(T.db, k, routers)
  BY <1>6 DEF TablesTaken
<1>. HIDE DEF U
<1>8. taken[k].gda # NOGROUP /\ MacOf(taken, k) = m
  <2>1. k \in Sharing(taken, m)
    BY <1>1, <1>2, <1>5
  <2>. QED
    BY <1>5, <2>1, DbFacts
<1>9. Adjusts(e, taken[k]) /\ e.uplist = T.db[pal].age /\ e.pioneer
  <2>1. taken[k] \in McEntry /\ taken[k].age \subseteq taken[k].uplist
    BY <1>5, DbFacts DEF Unique
  <2>. QED
    BY <1>5, <2>1 DEF Adjusts, Aged, McEntry, e
<1>10. EntryAdjusted(r, U, k, e, list, drift)
  <2>1. db = [U.db EXCEPT ![k] = e]
    BY <1>7 DEF e
  <2>2. list = U.list \/ list = Cast(U.list, MacOf(U.db, k), {})
    BY <1>7
  <2>. QED
    BY <1>3, <1>7, <1>8, <1>9, <2>1, <2>2, EntryAdjusts
<1>11. /\ r \in TableSet /\ r.drift = drift /\ r.list = list /\ Elsewhere(r, U, m)
       /\ Sharing(r.db, m) = S \ {pal} /\ r.db[k] = e
       /\ \A j \in Entries \ {k, pal} : r.db[j] = T.db[j]
  BY <1>5, <1>7, <1>8, <1>10 DEF EntryAdjusted
<1>12. Elsewhere(r, T, m)
  BY <1>7, <1>11, ElsewhereTwice
<1>13. ASSUME m \notin drift, HalfAged(T, k - 1, m, routers) PROVE HalfAged(r, k, m, routers)
  <2>1. before = {}
    BY <1>3, <1>13 DEF Earlier, before
  <2>. DEFINE Q == pals \ {pal}
  <2>2. (S \ {pal}) \cap (1..k) = {k} /\ (S \ {pal}) \ (1..k) = Q
    BY <1>1, <1>2, <2>1
  <2>3. Members(r.db, {k}) = T.db[pal].age
    <3>1. Members(r.db, {k}) = r.db[k].uplist
      BY DEF Members
    <3>. QED
      BY <1>9, <1>11, <3>1
  <2>4. Reported(r.db, Q) = Reported(T.db, Q) /\ pals = Q \cup {pal}
    <3>1. Q \in SUBSET Entries /\ \A j \in Q : r.db[j] = T.db[j]
      BY <1>2, <1>11
    <3>2. pals = Q \cup {pal}
      BY <1>1
    <3>. HIDE DEF Q
    <3>. QED
      BY <1>1, <3>1, <3>2, MemberFacts
  <2>5. MembersPlus(T.db, Q, pal) /\ MembersPlus(T.db, pals, k)
    BY MembersOf
  <2>. HIDE DEF Q
  <2>6. Reported(T.db, pals) = Reported(T.db, Q) \cup T.db[pal].age
    BY <2>4, <2>5 DEF MembersPlus
  <2>7. Summary(T.db, k, routers) = Reported(T.db, pals) \cup routers
    <3>1. Earlier(T.db, k) = {} /\ Pals(T.db, k) = pals /\ pals \ {} = pals /\ Members(T.db, {}) = {}
      BY <1>3, <1>13 DEF Members
    <3>2. Reported(T.db, pals \cup {k}) = Reported(T.db, pals)
      BY <2>5 DEF MembersPlus
    <3>. QED
      BY <3>1, <3>2 DEF Summary
  <2>8. Summary(T.db, k, routers) \subseteq Forwarded(T.list, m)
    <3>1. Summary(T.db, k, routers) \subseteq Members(T.db, S) \cup routers
      BY <1>1, SummaryFacts DEF S
    <3>2. Members(T.db, S) \cup routers \subseteq Forwarded(T.list, m)
      BY <1>2, <1>13 DEF HalfAged, S
    <3>. QED
      BY <3>1, <3>2
  <2>9. Forwarded(r.list, m) = Members(r.db, {k}) \cup Reported(r.db, Q) \cup routers
    <3>1. Forwarded(r.list, m) = Reported(T.db, pals) \cup routers
      BY <1>7, <1>11, <2>7, <2>8
    <3>2. Members(r.db, {k}) \cup Reported(r.db, Q) = Reported(T.db, pals)
      BY <2>3, <2>4, <2>6
    <3>. QED
      BY <3>1, <3>2
  <2>. SUFFICES ASSUME NEW q \in S \ {pal}, r.db[q].pioneer PROVE ~(k < q)
    <3>1. (\A q \in S \ {pal} : r.db[q].pioneer => ~(k < q))
             => HalfOf(r, k, m, routers, S \ {pal}, {k}, Q)
      BY <1>11, <2>2, <2>9 DEF HalfOf
    <3>. QED
      BY <3>1, HalfFrom
  <2>10. q = k
    <3>1. r.db \in Dbs /\ r.db[k].pioneer /\ q \in Sharing(r.db, m)
      BY <1>9, <1>11, TableFacts
    <3>2. k \in Sharing(r.db, m)
      BY <1>1, <1>2, <1>11
    <3>3. q \in Entries /\ MacOf(r.db, k) = m
      BY <3>1, <3>2, DbFacts
    <3>4. q # k => q \in Pals(r.db, k)
      BY <3>1, <3>3 DEF Pals
    <3>. QED
      BY <3>1, <3>4, PalFacts
  <2>11. k \in Nat
    BY McConstants
  <2>. QED
    BY <2>10, <2>11
<1>. QED
  BY <1>1, <1>3, <1>11, <1>12, <1>13, HalfStep

(* An entry that was not reported, and is gone.                                *)
LEMMA GoneAged ==
    ASSUME NEW T \in TableSet, NEW k \in Entries, T.db[k].gda # NOGROUP, T.db[k].age = {},
           NEW m, m = MacOf(T.db, k), T.db[k].pioneer => Pals(T.db, k) = {},
           NEW routers \in SUBSET Ports, NEW list,
           list = IF T.db[k].pioneer THEN Cast(T.list, m, Summary(T.db, k, routers)) ELSE T.list,
           NEW cast, cast = [db |-> T.db, list |-> list, drift |-> T.drift],
           NEW r, r = Removed(cast, k)
    PROVE  AgedKept(r, T, k, routers)
<1>. DEFINE e == T.db[k]
            pals == Pals(T.db, k)
            before == {j \in pals : j < k}
            S == Sharing(T.db, m)
<1>1. /\ T.db \in Dbs /\ T.list \in McLists /\ T.drift \in SUBSET Macs
      /\ e \in McEntry /\ e.age \subseteq e.uplist /\ cast.db = T.db
  BY TableFacts, DbFacts DEF Unique
<1>2. Split(S, k, pals, before)
  BY <1>1, SplitPals
<1>3. EntryAdjusted(cast, T, k, e, list, T.drift)
  <2>1. Adjusts(e, T.db[k]) /\ T.db = [T.db EXCEPT ![k] = e]
    BY <1>1, DbFacts DEF Adjusts
  <2>2. list = T.list \/ list = Cast(T.list, m, Summary(T.db, k, routers))
    OBVIOUS
  <2>. HIDE DEF e
  <2>. QED
    BY <1>1, <2>1, <2>2, EntryAdjusts
<1>4. cast \in TableSet /\ cast.drift = T.drift /\ cast.list = list /\ Elsewhere(cast, T, m)
  BY <1>3 DEF EntryAdjusted
<1>5. /\ r \in TableSet /\ r.drift = T.drift /\ Elsewhere(r, cast, m)
      /\ Sharing(r.db, m) = S \ {k} /\ \A j \in Entries \ {k} : r.db[j] = T.db[j]
      /\ ~T.db[k].pioneer => r.list = T.list
  BY <1>1, <1>4, RemovedFacts
<1>6. Elsewhere(r, T, m)
  BY <1>4, <1>5, ElsewhereTwice
<1>7. ASSUME HalfAged(T, k - 1, m, routers) PROVE HalfAged(r, k, m, routers)
  <2>1. CASE T.db[k].pioneer
    <3>1. S \ {k} = {}
      BY <1>2, <2>1 DEF Split
    <3>. QED
      BY <1>5, <3>1 DEF HalfAged
  <2>2. CASE ~T.db[k].pioneer
    <3>. HIDE DEF S, before, pals
    <3>1. /\ S = pals \cup {k} /\ k \notin pals /\ before \subseteq pals
          /\ S \in SUBSET Entries /\ pals \in SUBSET Entries
          /\ S \cap (1..(k - 1)) = before /\ S \ (1..(k - 1)) = (pals \ before) \cup {k}
          /\ (S \ {k}) \cap (1..k) = before /\ (S \ {k}) \ (1..k) = pals \ before
          /\ k - 1 < k /\ \A j \in pals : (k < j <=> k - 1 < j) /\ (j \in before <=> ~(k < j))
      BY <1>2 DEF Split
    <3>2. S \ {k} = pals
      BY <3>1
    <3>3. /\ Members(r.db, before) = Members(T.db, before)
          /\ Reported(r.db, pals \ before) = Reported(T.db, pals \ before)
          /\ Members(r.db, pals) = Members(T.db, pals)
      <4>1. \A A \in SUBSET pals : Members(r.db, A) = Members(T.db, A) /\ Reported(r.db, A) = Reported(T.db, A)
        <5>. TAKE A \in SUBSET pals
        <5>1. A \in SUBSET Entries /\ \A j \in A : r.db[j] = T.db[j]
          BY <1>5, <3>1
        <5>. QED
          BY <1>1, <5>1, MemberFacts
      <4>2. pals \ before \in SUBSET pals /\ before \in SUBSET pals /\ pals \in SUBSET pals
        BY <3>1
      <4>. QED
        BY <4>1, <4>2
    <3>4. MembersPlus(T.db, pals, k) /\ MembersPlus(T.db, pals \ before, k)
      BY MembersOf
    <3>5. ASSUME NEW q \in pals, r.db[q].pioneer
          PROVE  IF k < q THEN Members(r.db, pals) \cup routers \subseteq Forwarded(r.list, m)
                 ELSE Forwarded(r.list, m) = Members(r.db, before) \cup Reported(r.db, pals \ before)
                                             \cup routers
      <4>1. T.db[q].pioneer /\ q \in S
        BY <1>5, <3>1, <3>5
      <4>2. IF k - 1 < q THEN Members(T.db, S) \cup routers \subseteq Forwarded(T.list, m)
            ELSE Forwarded(T.list, m) = Members(T.db, S \cap (1..(k - 1)))
                                        \cup Reported(T.db, S \ (1..(k - 1))) \cup routers
        BY <1>7, <4>1 DEF HalfAged, S
      <4>3. CASE k < q
        <5>1. Members(T.db, pals) \subseteq Members(T.db, S)
          BY <3>1, <3>4 DEF MembersPlus
        <5>. QED
          BY <1>5, <2>2, <3>1, <3>3, <4>2, <4>3, <5>1
      <4>4. CASE ~(k < q)
        <5>1. Reported(T.db, (pals \ before) \cup {k}) = Reported(T.db, pals \ before)
          BY <3>4 DEF MembersPlus
        <5>2. Forwarded(T.list, m) = Members(T.db, before) \cup Reported(T.db, pals \ before)
                                     \cup routers
          BY <3>1, <4>2, <4>4, <5>1
        <5>. QED
          BY <1>5, <2>2, <3>3, <4>4, <5>2
      <4>. QED
        BY <4>3, <4>4
    <3>. QED
      <4>1. HalfOf(r, k, m, routers, pals, before, pals \ before)
        BY <1>5, <3>1, <3>2, <3>5 DEF HalfOf
      <4>. QED
        BY <4>1, HalfFrom
  <2>. QED
    BY <2>1, <2>2
<1>. QED
  BY <1>5, <1>6, <1>7, HalfStep

LEMMA RecordStep ==
    ASSUME NEW d, NEW l, NEW f, NEW x, NEW y
    PROVE  /\ [[db |-> d, list |-> l, drift |-> f] EXCEPT !.list = x] = [db |-> d, list |-> x, drift |-> f]
           /\ [[db |-> d, list |-> l, drift |-> f] EXCEPT !.db = x] = [db |-> x, list |-> l, drift |-> f]
           /\ [[db |-> d, list |-> l, drift |-> f] EXCEPT !.db = x, !.drift = y]
                 = [db |-> x, list |-> l, drift |-> y]
<1>1. [[db |-> d, list |-> l, drift |-> f] EXCEPT !.list = x] = [db |-> d, list |-> x, drift |-> f]
  OBVIOUS
<1>2. [[db |-> d, list |-> l, drift |-> f] EXCEPT !.db = x] = [db |-> x, list |-> l, drift |-> f]
  OBVIOUS
<1>3. [[db |-> d, list |-> l, drift |-> f] EXCEPT !.db = x, !.drift = y]
         = [db |-> x, list |-> l, drift |-> y]
  <2>. DEFINE R == [db : {d, x}, list : {l}, drift : {f, y}]
              r == [[db |-> d, list |-> l, drift |-> f] EXCEPT !.db = x, !.drift = y]
  <2>1. [db |-> d, list |-> l, drift |-> f] \in R
    OBVIOUS
  <2>2. r \in R /\ r.db = x /\ r.list = l /\ r.drift = y
    OBVIOUS
  <2>3. \A z \in R : z = [db |-> z.db, list |-> z.list, drift |-> z.drift]
    OBVIOUS
  <2>. HIDE DEF R, r
  <2>4. r = [db |-> r.db, list |-> r.list, drift |-> r.drift]
    BY <2>2, <2>3
  <2>5. r = [db |-> x, list |-> l, drift |-> y]
    BY <2>2, <2>4, Zenon
  <2>. QED
    BY <2>5 DEF r
<1>. QED
  BY <1>1, <1>2, <1>3

LEMMA AgeEntryFacts ==
    ASSUME NEW T \in TableSet, NEW k \in Entries, NEW routers \in SUBSET Ports,
           NEW r, r = AgeEntry(T, k, routers)
    PROVE  AgedKept(r, T, k, routers)
<1>. DEFINE e == T.db[k]
            pals == Pals(T.db, k)
            m == MacOf(T.db, k)
            cast == IF e.pioneer THEN [T EXCEPT !.list = Cast(@, m, Summary(T.db, k, routers))] ELSE T
            list == IF e.pioneer THEN Cast(T.list, m, Summary(T.db, k, routers)) ELSE T.list
            taken == TakeOver(T.db, k, FirstOf(pals))
            drift == IF Earlier(T.db, k) = {} THEN T.drift ELSE T.drift \cup {m}
<1>1. T = [db |-> T.db, list |-> T.list, drift |-> T.drift] /\ T.db \in Dbs
  BY TableFacts
<1>2. cast = [db |-> T.db, list |-> list, drift |-> T.drift]
  <2>. DEFINE new == Cast(T.list, m, Summary(T.db, k, routers))
  <2>1. [T EXCEPT !.list = new] = [db |-> T.db, list |-> new, drift |-> T.drift]
    <3>1. PICK d, l, f : d = T.db /\ l = T.list /\ f = T.drift
      OBVIOUS
    <3>2. T = [db |-> d, list |-> l, drift |-> f]
      BY <1>1, <3>1
    <3>. HIDE DEF new
    <3>3. [T EXCEPT !.list = new] = [db |-> d, list |-> new, drift |-> f]
      BY <3>2
    <3>. QED
      BY <3>1, <3>3
  <2>. QED
    BY <1>1, <2>1
<1>3. CASE e.gda = NOGROUP
  <2>1. r = T
    BY <1>3 DEF AgeEntry
  <2>. QED
    BY <1>3, <2>1, FreeAged
<1>4. CASE e.gda # NOGROUP /\ e.age # {}
  <2>. DEFINE db == [T.db EXCEPT ![k] = Aged(T.db[k])]
  <2>1. r = [cast EXCEPT !.db[k] = Aged(@)]
    BY <1>4 DEF AgeEntry
  <2>. HIDE DEF cast, list
  <2>2. r = [cast EXCEPT !.db = [cast.db EXCEPT ![k] = Aged(cast.db[k])]]
    BY <2>1
  <2>3. cast.db = T.db
    BY <1>2
  <2>4. r = [cast EXCEPT !.db = db]
    BY <2>2, <2>3
  <2>5. r = [db |-> db, list |-> list, drift |-> T.drift]
    <3>. HIDE DEF db
    <3>. QED
      BY <1>2, <2>4, RecordStep
  <2>. HIDE DEF db
  <2>. QED
    BY <1>4, <2>5, ReportedAged DEF list, db
<1>5. CASE e.gda # NOGROUP /\ e.age = {} /\ e.pioneer /\ pals # {}
  <2>. DEFINE db == [taken EXCEPT ![k] = Aged(taken[k])]
  <2>1. r = [cast EXCEPT !.db = [taken EXCEPT ![k] = Aged(@)],
                         !.drift = IF Earlier(T.db, k) = {} THEN @ ELSE @ \cup {m}]
    BY <1>5 DEF AgeEntry
  <2>. HIDE DEF cast, list
  <2>2. cast.drift = T.drift
    BY <1>2
  <2>3. r = [cast EXCEPT !.db = db, !.drift = drift]
    BY <2>1, <2>2
  <2>4. r = [db |-> db, list |-> list, drift |-> drift]
    <3>. HIDE DEF db, drift
    <3>. QED
      BY <1>2, <2>3, RecordStep
  <2>5. list = Cast(T.list, m, Summary(T.db, k, routers))
    BY <1>5 DEF list
  <2>. QED
    BY <1>5, <2>4, <2>5, PioneerAged
<1>6. CASE e.gda # NOGROUP /\ e.age = {} /\ ~(e.pioneer /\ pals # {})
  <2>1. r = Removed(cast, k)
    BY <1>6 DEF AgeEntry
  <2>. HIDE DEF cast
  <2>. QED
    BY <1>2, <1>6, <2>1, GoneAged
<1>. QED
  BY <1>3, <1>4, <1>5, <1>6

-----------------------------------------------------------------------------
(* The ageing of the tables, entry by entry.                                   *)
AgeSteps(g, T, routers) ==
    /\ g[0] = T /\ g[NumGroups] = AgeTables(T, routers)
    /\ \A k \in 1..NumGroups : g[k] = AgeEntry(g[k - 1], k, routers)

LEMMA AgeStepsExist ==
    ASSUME NEW T \in TableSet, NEW routers \in SUBSET Ports
    PROVE  \E g : AgeSteps(g, T, routers) /\ \A k \in 0..NumGroups : g[k] \in TableSet
<1>. DEFINE Op(w, d) == AgeEntry(w, d, routers)
            n == NumGroups
            op == [x \in TableSet \X Entries |-> Op(x[1], x[2])]
            IsIter(f) == f = [s \in SUBSET (1..n) |->
                                 IF s = {} THEN T ELSE Op(f[s \ {Max(s)}], InOrder[Max(s)])]
<1>1. n \in Nat /\ InOrder \in [1..n -> Entries] /\ DOMAIN InOrder = 1..n /\ T \in TableSet
  <2>. DEFINE N == NumGroups
  <2>1. N \in Nat /\ Entries = 1..N
    BY McConstants
  <2>2. InOrder \in [Entries -> Entries] /\ DOMAIN InOrder = Entries
    BY DEF InOrder
  <2>. QED
    BY <2>1, <2>2
<1>2. op \in [TableSet \X Entries -> TableSet]
  <2>1. \A x \in TableSet \X Entries : Op(x[1], x[2]) \in TableSet
    BY AgeEntryFacts DEF AgedKept
  <2>. HIDE DEF Op
  <2>. QED
    BY <2>1
<1>3. AgeTables(T, routers) = (CHOOSE f : IsIter(f))[1..n]
  BY <1>1 DEF AgeTables, FoldLeft, MapThenFoldSet
<1>. HIDE DEF n
<1>4. \E f : IsIter(f) /\ \A s \in SUBSET (1..n) : f[s] \in TableSet
  <2>. HIDE DEF op, Op
  <2>1. PICK f : Iterates(f, n, T, op, InOrder) /\ \A s \in SUBSET (1..n) : f[s] \in TableSet
    BY <1>1, <1>2, FoldExists, Zenon
  <2>2. ASSUME NEW s \in SUBSET (1..n), s # {}
        PROVE  f[s] = Op(f[s \ {Max(s)}], InOrder[Max(s)])
    <3>1. Max(s) \in 1..n /\ s \ {Max(s)} \in SUBSET (1..n)
      BY <1>1, <2>2, GreatestNumber
    <3>2. InOrder[Max(s)] \in Entries /\ f[s \ {Max(s)}] \in TableSet
      BY <1>1, <2>1, <3>1
    <3>3. f[s] = op[<<f[s \ {Max(s)}], InOrder[Max(s)]>>]
      BY <2>1, <2>2 DEF Iterates
    <3>. QED
      BY <3>2, <3>3 DEF op
  <2>3. f = [s \in SUBSET (1..n) |-> f[s]] /\ f[{}] = T
    BY <2>1 DEF Iterates
  <2>4. IsIter(f)
    BY <2>2, <2>3
  <2>. QED
    BY <2>1, <2>4
<1>5. PICK f : IsIter(f) /\ (CHOOSE h : IsIter(h))[1..n] = f[1..n]
  BY <1>4
<1>. DEFINE g == [k \in 0..n |-> f[1..k]]
<1>6. g[0] = T /\ g[n] = f[1..n]
  <2>. HIDE DEF Op
  <2>1. 1..0 = {} /\ f[{}] = T
    BY <1>5
  <2>. QED
    BY <1>1, <2>1
<1>7. ASSUME NEW k \in 1..n PROVE g[k] = Op(g[k - 1], InOrder[k])
  <2>. HIDE DEF Op
  <2>1. k \in Nat \ {0} /\ 1..k \in SUBSET (1..n)
    BY <1>1
  <2>2. 1..k # {} /\ Max(1..k) = k /\ (1..k) \ {k} = 1..(k - 1)
    BY <2>1, LastOfInterval, Zenon
  <2>3. f[1..k] = Op(f[1..(k - 1)], InOrder[k])
    BY <1>5, <2>1, <2>2
  <2>4. k \in 0..n /\ k - 1 \in 0..n
    BY <1>1
  <2>. QED
    BY <2>3, <2>4
<1>. HIDE DEF g
<1>8. \A k \in 0..n : k \in {j \in 0..n : g[j] \in TableSet}
  <2>. DEFINE Good == {j \in 0..n : g[j] \in TableSet}
  <2>1. 0 \in Good
    BY <1>1, <1>6
  <2>2. ASSUME NEW k \in 1..n, k - 1 \in Good PROVE k \in Good
    <3>1. g[k - 1] \in TableSet /\ InOrder[k] \in Entries /\ k \in 0..n
      BY <1>1, <2>2
    <3>2. g[k] = op[<<g[k - 1], InOrder[k]>>]
      <4>. HIDE DEF Op
      <4>. QED
        BY <1>7, <3>1
    <3>. HIDE DEF op
    <3>. QED
      BY <1>2, <3>1, <3>2
  <2>. HIDE DEF Good
  <2>3. \A k \in 0..n : k \in Good
    BY <1>1, <2>1, <2>2, FoldStays
  <2>. QED
    BY <2>3 DEF Good
<1>9. \A k \in 1..n : g[k] = AgeEntry(g[k - 1], k, routers)
  BY <1>1, <1>7, McConstants DEF InOrder
<1>. HIDE DEF Op
<1>. QED
  BY <1>3, <1>5, <1>6, <1>8, <1>9 DEF n, AgeSteps

(* The calculation of all ports, pioneer by pioneer.                           *)
CalcSteps(g, db, list, routers) ==
    /\ g[0] = list /\ g[NumGroups] = CalculatedList(db, list, routers)
    /\ \A k \in 1..NumGroups : g[k] = Recalculate(db, g[k - 1], k, routers)

LEMMA CalcStepsExist ==
    ASSUME NEW db \in Dbs, NEW list \in McLists, NEW routers \in SUBSET Ports
    PROVE  \E g : CalcSteps(g, db, list, routers) /\ \A k \in 0..NumGroups : g[k] \in McLists
<1>. DEFINE Op(w, d) == Recalculate(db, w, d, routers)
            n == NumGroups
            op == [x \in McLists \X Entries |-> Op(x[1], x[2])]
            IsIter(f) == f = [s \in SUBSET (1..n) |->
                                 IF s = {} THEN list ELSE Op(f[s \ {Max(s)}], InOrder[Max(s)])]
<1>1. n \in Nat /\ InOrder \in [1..n -> Entries] /\ DOMAIN InOrder = 1..n /\ list \in McLists
  <2>. DEFINE N == NumGroups
  <2>1. N \in Nat /\ Entries = 1..N
    BY McConstants
  <2>2. InOrder \in [Entries -> Entries] /\ DOMAIN InOrder = Entries
    BY DEF InOrder
  <2>. QED
    BY <2>1, <2>2
<1>2. op \in [McLists \X Entries -> McLists]
  <2>1. \A x \in McLists \X Entries : Op(x[1], x[2]) \in McLists
    BY RecalculateFacts DEF PortsSet
  <2>. HIDE DEF Op
  <2>. QED
    BY <2>1
<1>3. CalculatedList(db, list, routers) = (CHOOSE f : IsIter(f))[1..n]
  BY <1>1 DEF CalculatedList, FoldLeft, MapThenFoldSet
<1>. HIDE DEF n
<1>4. \E f : IsIter(f) /\ \A s \in SUBSET (1..n) : f[s] \in McLists
  <2>. HIDE DEF op, Op
  <2>1. PICK f : Iterates(f, n, list, op, InOrder) /\ \A s \in SUBSET (1..n) : f[s] \in McLists
    BY <1>1, <1>2, FoldExists, Zenon
  <2>2. ASSUME NEW s \in SUBSET (1..n), s # {}
        PROVE  f[s] = Op(f[s \ {Max(s)}], InOrder[Max(s)])
    <3>1. Max(s) \in 1..n /\ s \ {Max(s)} \in SUBSET (1..n)
      BY <1>1, <2>2, GreatestNumber
    <3>2. InOrder[Max(s)] \in Entries /\ f[s \ {Max(s)}] \in McLists
      BY <1>1, <2>1, <3>1
    <3>3. f[s] = op[<<f[s \ {Max(s)}], InOrder[Max(s)]>>]
      BY <2>1, <2>2 DEF Iterates
    <3>. QED
      BY <3>2, <3>3 DEF op
  <2>3. f = [s \in SUBSET (1..n) |-> f[s]] /\ f[{}] = list
    BY <2>1 DEF Iterates
  <2>4. IsIter(f)
    BY <2>2, <2>3
  <2>. QED
    BY <2>1, <2>4
<1>5. PICK f : IsIter(f) /\ (CHOOSE h : IsIter(h))[1..n] = f[1..n]
  BY <1>4
<1>. DEFINE g == [k \in 0..n |-> f[1..k]]
<1>6. g[0] = list /\ g[n] = f[1..n]
  <2>. HIDE DEF Op
  <2>1. 1..0 = {} /\ f[{}] = list
    BY <1>5
  <2>. QED
    BY <1>1, <2>1
<1>7. ASSUME NEW k \in 1..n PROVE g[k] = Op(g[k - 1], InOrder[k])
  <2>. HIDE DEF Op
  <2>1. k \in Nat \ {0} /\ 1..k \in SUBSET (1..n)
    BY <1>1
  <2>2. 1..k # {} /\ Max(1..k) = k /\ (1..k) \ {k} = 1..(k - 1)
    BY <2>1, LastOfInterval, Zenon
  <2>3. f[1..k] = Op(f[1..(k - 1)], InOrder[k])
    BY <1>5, <2>1, <2>2
  <2>4. k \in 0..n /\ k - 1 \in 0..n
    BY <1>1
  <2>. QED
    BY <2>3, <2>4
<1>. HIDE DEF g
<1>8. \A k \in 0..n : k \in {j \in 0..n : g[j] \in McLists}
  <2>. DEFINE Good == {j \in 0..n : g[j] \in McLists}
  <2>1. 0 \in Good
    BY <1>1, <1>6
  <2>2. ASSUME NEW k \in 1..n, k - 1 \in Good PROVE k \in Good
    <3>1. g[k - 1] \in McLists /\ InOrder[k] \in Entries /\ k \in 0..n
      BY <1>1, <2>2
    <3>2. g[k] = op[<<g[k - 1], InOrder[k]>>]
      <4>. HIDE DEF Op
      <4>. QED
        BY <1>7, <3>1
    <3>. HIDE DEF op
    <3>. QED
      BY <1>2, <3>1, <3>2
  <2>. HIDE DEF Good
  <2>3. \A k \in 0..n : k \in Good
    BY <1>1, <2>1, <2>2, FoldStays
  <2>. QED
    BY <2>3 DEF Good
<1>9. \A k \in 1..n : g[k] = Recalculate(db, g[k - 1], k, routers)
  BY <1>1, <1>7, McConstants DEF InOrder
<1>. HIDE DEF Op
<1>. QED
  BY <1>3, <1>5, <1>6, <1>8, <1>9 DEF n, CalcSteps

(* The nodes of all pioneers are removed, one by one.                          *)
EmptySteps(g, db, list) ==
    /\ g[0] = list /\ g[NumGroups] = Emptied(db, list)
    /\ \A k \in 1..NumGroups : g[k] = IF k \in Pioneers(db) THEN AddrRemove(g[k - 1], MacOf(db, k)) ELSE g[k - 1]

LEMMA EmptyStepsExist ==
    ASSUME NEW db \in Dbs, NEW list \in McLists
    PROVE  \E g : EmptySteps(g, db, list) /\ \A k \in 0..NumGroups : g[k] \in McLists
<1>. DEFINE Op(w, d) == IF d \in Pioneers(db) THEN AddrRemove(w, MacOf(db, d)) ELSE w
            n == NumGroups
            op == [x \in McLists \X Entries |-> Op(x[1], x[2])]
            IsIter(f) == f = [s \in SUBSET (1..n) |->
                                 IF s = {} THEN list ELSE Op(f[s \ {Max(s)}], InOrder[Max(s)])]
<1>1. n \in Nat /\ InOrder \in [1..n -> Entries] /\ DOMAIN InOrder = 1..n /\ list \in McLists
  <2>. DEFINE N == NumGroups
  <2>1. N \in Nat /\ Entries = 1..N
    BY McConstants
  <2>2. InOrder \in [Entries -> Entries] /\ DOMAIN InOrder = Entries
    BY DEF InOrder
  <2>. QED
    BY <2>1, <2>2
<1>2. op \in [McLists \X Entries -> McLists]
  <2>1. \A x \in McLists \X Entries : Op(x[1], x[2]) \in McLists
    BY AddrRemoveFacts
  <2>. HIDE DEF Op
  <2>. QED
    BY <2>1
<1>3. Emptied(db, list) = (CHOOSE f : IsIter(f))[1..n]
  BY <1>1 DEF Emptied, FoldLeft, MapThenFoldSet
<1>. HIDE DEF n
<1>4. \E f : IsIter(f) /\ \A s \in SUBSET (1..n) : f[s] \in McLists
  <2>. HIDE DEF op, Op
  <2>1. PICK f : Iterates(f, n, list, op, InOrder) /\ \A s \in SUBSET (1..n) : f[s] \in McLists
    BY <1>1, <1>2, FoldExists, Zenon
  <2>2. ASSUME NEW s \in SUBSET (1..n), s # {}
        PROVE  f[s] = Op(f[s \ {Max(s)}], InOrder[Max(s)])
    <3>1. Max(s) \in 1..n /\ s \ {Max(s)} \in SUBSET (1..n)
      BY <1>1, <2>2, GreatestNumber
    <3>2. InOrder[Max(s)] \in Entries /\ f[s \ {Max(s)}] \in McLists
      BY <1>1, <2>1, <3>1
    <3>3. f[s] = op[<<f[s \ {Max(s)}], InOrder[Max(s)]>>]
      BY <2>1, <2>2 DEF Iterates
    <3>. QED
      BY <3>2, <3>3 DEF op
  <2>3. f = [s \in SUBSET (1..n) |-> f[s]] /\ f[{}] = list
    BY <2>1 DEF Iterates
  <2>4. IsIter(f)
    BY <2>2, <2>3
  <2>. QED
    BY <2>1, <2>4
<1>5. PICK f : IsIter(f) /\ (CHOOSE h : IsIter(h))[1..n] = f[1..n]
  BY <1>4
<1>. DEFINE g == [k \in 0..n |-> f[1..k]]
<1>6. g[0] = list /\ g[n] = f[1..n]
  <2>. HIDE DEF Op
  <2>1. 1..0 = {} /\ f[{}] = list
    BY <1>5
  <2>. QED
    BY <1>1, <2>1
<1>7. ASSUME NEW k \in 1..n PROVE g[k] = Op(g[k - 1], InOrder[k])
  <2>. HIDE DEF Op
  <2>1. k \in Nat \ {0} /\ 1..k \in SUBSET (1..n)
    BY <1>1
  <2>2. 1..k # {} /\ Max(1..k) = k /\ (1..k) \ {k} = 1..(k - 1)
    BY <2>1, LastOfInterval, Zenon
  <2>3. f[1..k] = Op(f[1..(k - 1)], InOrder[k])
    BY <1>5, <2>1, <2>2
  <2>4. k \in 0..n /\ k - 1 \in 0..n
    BY <1>1
  <2>. QED
    BY <2>3, <2>4
<1>. HIDE DEF g
<1>8. \A k \in 0..n : k \in {j \in 0..n : g[j] \in McLists}
  <2>. DEFINE Good == {j \in 0..n : g[j] \in McLists}
  <2>1. 0 \in Good
    BY <1>1, <1>6
  <2>2. ASSUME NEW k \in 1..n, k - 1 \in Good PROVE k \in Good
    <3>1. g[k - 1] \in McLists /\ InOrder[k] \in Entries /\ k \in 0..n
      BY <1>1, <2>2
    <3>2. g[k] = op[<<g[k - 1], InOrder[k]>>]
      <4>. HIDE DEF Op
      <4>. QED
        BY <1>7, <3>1
    <3>. HIDE DEF op
    <3>. QED
      BY <1>2, <3>1, <3>2
  <2>. HIDE DEF Good
  <2>3. \A k \in 0..n : k \in Good
    BY <1>1, <2>1, <2>2, FoldStays
  <2>. QED
    BY <2>3 DEF Good
<1>9. \A k \in 1..n : g[k] = IF k \in Pioneers(db) THEN AddrRemove(g[k - 1], MacOf(db, k)) ELSE g[k - 1]
  BY <1>1, <1>7, McConstants DEF InOrder
<1>. HIDE DEF Op
<1>. QED
  BY <1>3, <1>5, <1>6, <1>8, <1>9 DEF n, EmptySteps

LEMMA HalfBegins ==
    ASSUME NEW T \in TableSet, NEW routers, AllExact(T, routers)
    PROVE  AllHalf(T, 0, routers)
<1>. SUFFICES ASSUME NEW m \in Macs \ T.drift PROVE HalfAged(T, 0, m, routers)
  BY DEF AllHalf
<1>1. \A q \in Sharing(T.db, m) : 0 < q
  <2>1. Sharing(T.db, m) \in SUBSET Entries
    BY TableFacts, DbFacts
  <2>2. \A q \in Entries : 0 < q
    BY McConstants
  <2>. QED
    BY <2>1, <2>2
<1>2. Sharing(T.db, m) # {} =>
         Members(T.db, Sharing(T.db, m)) \cup routers \subseteq Forwarded(T.list, m)
  BY DEF AllExact, Exact
<1>. QED
  BY <1>1, <1>2 DEF HalfAged

LEMMA HalfEnds ==
    ASSUME NEW T \in TableSet, NEW routers, AllHalf(T, NumGroups, routers)
    PROVE  AllExact(T, routers)
<1>. SUFFICES ASSUME NEW m \in Macs \ T.drift, Sharing(T.db, m) # {}
              PROVE  Forwarded(T.list, m) = Members(T.db, Sharing(T.db, m)) \cup routers
  BY DEF AllExact, Exact
<1>. DEFINE S == Sharing(T.db, m)
<1>1. PICK q \in S : T.db[q].pioneer
  BY TableFacts DEF Led
<1>2. S \in SUBSET Entries
  BY TableFacts, DbFacts
<1>3. Entries = 1..NumGroups /\ \A j \in Entries : ~(NumGroups < j)
  BY McConstants
<1>. HIDE DEF S
<1>4. S \cap (1..NumGroups) = S /\ S \ (1..NumGroups) = {} /\ ~(NumGroups < q)
  BY <1>1, <1>2, <1>3
<1>5. Forwarded(T.list, m) = Members(T.db, S \cap (1..NumGroups))
                             \cup Reported(T.db, S \ (1..NumGroups)) \cup routers
  BY <1>1, <1>4 DEF AllHalf, HalfAged, S
<1>6. Reported(T.db, {}) = {}
  BY DEF Reported
<1>7. Members(T.db, S \cap (1..NumGroups)) = Members(T.db, S)
      /\ Reported(T.db, S \ (1..NumGroups)) = {}
  BY <1>4, <1>6
<1>. QED
  BY <1>5, <1>7 DEF S

LEMMA AgeTablesFacts ==
    ASSUME NEW T \in TableSet, NEW routers \in SUBSET Ports, NEW r, r = AgeTables(T, routers)
    PROVE  r \in TableSet /\ (AllExact(T, routers) => AllExact(r, routers))
<1>. DEFINE n == NumGroups
<1>1. PICK g : AgeSteps(g, T, routers) /\ \A k \in 0..n : g[k] \in TableSet
  BY AgeStepsExist
<1>2. n \in Nat /\ Entries = 1..n /\ n \in 0..n
  BY McConstants
<1>3. g[0] = T /\ g[n] = r /\ \A k \in 1..n : g[k] = AgeEntry(g[k - 1], k, routers)
  BY <1>1 DEF AgeSteps
<1>. HIDE DEF n
<1>4. ASSUME AllExact(T, routers) PROVE AllExact(r, routers)
  <2>. DEFINE Good == {k \in 0..n : AllHalf(g[k], k, routers)}
  <2>1. 0 \in Good
    BY <1>2, <1>3, <1>4, HalfBegins
  <2>2. ASSUME NEW k \in 1..n, k - 1 \in Good PROVE k \in Good
    <3>1. k \in Entries /\ k \in 0..n /\ k - 1 \in 0..n
      BY <1>2
    <3>2. AgedKept(g[k], g[k - 1], k, routers)
      BY <1>1, <1>3, <3>1, AgeEntryFacts
    <3>. QED
      BY <2>2, <3>1, <3>2 DEF AgedKept
  <2>. HIDE DEF Good
  <2>3. n \in Good
    BY <1>2, <2>1, <2>2, FoldStays
  <2>4. AllHalf(r, n, routers)
    BY <1>3, <2>3 DEF Good
  <2>. QED
    BY <1>1, <1>2, <1>3, <2>4, HalfEnds DEF n
<1>. QED
  BY <1>1, <1>2, <1>3, <1>4

Calculated(list, old, db, k, routers) ==
    /\ list \in McLists /\ Len(list) = Len(old) /\ MacsIn(list) = MacsIn(old)
    /\ \A j \in 1..k : db[j].pioneer =>
          Forwarded(list, MacOf(db, j)) = Members(db, Sharing(db, MacOf(db, j))) \cup routers

LEMMA CalculatedFacts ==
    ASSUME NEW db \in Dbs, NEW list \in McLists, Led(db, list), NEW routers \in SUBSET Ports,
           NEW r, r = CalculatedList(db, list, routers)
    PROVE  Calculated(r, list, db, NumGroups, routers)
<1>. DEFINE n == NumGroups
<1>1. PICK g : CalcSteps(g, db, list, routers) /\ \A k \in 0..n : g[k] \in McLists
  BY CalcStepsExist
<1>2. n \in Nat /\ Entries = 1..n /\ n \in 0..n
  BY McConstants
<1>3. g[0] = list /\ g[n] = r /\ \A k \in 1..n : g[k] = Recalculate(db, g[k - 1], k, routers)
  BY <1>1 DEF CalcSteps
<1>. HIDE DEF n
<1>4. Calculated(g[0], list, db, 0, routers)
  <2>1. 1..0 = {}
    OBVIOUS
  <2>. QED
    BY <1>3, <2>1 DEF Calculated
<1>5. ASSUME NEW k \in 1..n, Calculated(g[k - 1], list, db, k - 1, routers)
      PROVE  Calculated(g[k], list, db, k, routers)
  <2>1. k \in Entries /\ k - 1 \in 0..n /\ g[k - 1] \in McLists /\ g[k] = Recalculate(db, g[k - 1], k, routers)
    BY <1>1, <1>2, <1>3
  <2>0. PortsSet(g[k], db, g[k - 1], k, routers)
    BY <2>1, RecalculateFacts
  <2>2. /\ g[k] \in McLists /\ Len(g[k]) = Len(g[k - 1]) /\ MacsIn(g[k]) = MacsIn(g[k - 1])
        /\ \A m : Forwarded(g[k], m) =
              IF db[k].pioneer /\ m = MacOf(db, k) /\ m \in MacsIn(g[k - 1])
              THEN Members(db, Sharing(db, m)) \cup routers ELSE Forwarded(g[k - 1], m)
    BY <2>0 DEF PortsSet
  <2>3. ASSUME NEW j \in 1..k, db[j].pioneer
        PROVE  Forwarded(g[k], MacOf(db, j)) = Members(db, Sharing(db, MacOf(db, j))) \cup routers
    <3>1. j \in Entries /\ (j = k \/ j \in 1..(k - 1))
      BY <1>2
    <3>2. MacOf(db, j) \in MacsIn(g[k - 1])
      <4>1. db[j].gda # NOGROUP
        BY <2>3, <3>1, PalFacts
      <4>2. MacOf(db, j) \in Macs /\ Sharing(db, MacOf(db, j)) # {}
        BY <3>1, <4>1, DbFacts
      <4>. QED
        BY <1>5, <4>2 DEF Led, Calculated
    <3>3. CASE j = k
      BY <2>2, <2>3, <3>2, <3>3
    <3>4. CASE j \in 1..(k - 1)
      <4>1. Forwarded(g[k - 1], MacOf(db, j)) = Members(db, Sharing(db, MacOf(db, j))) \cup routers
        BY <1>5, <2>3, <3>4 DEF Calculated
      <4>. QED
        BY <2>2, <4>1
    <3>. QED
      BY <3>1, <3>3, <3>4
  <2>. QED
    BY <1>5, <2>2, <2>3 DEF Calculated
<1>. DEFINE Good == {k \in 0..n : Calculated(g[k], list, db, k, routers)}
<1>6. n \in Good
  <2>1. 0 \in Good /\ \A k \in 1..n : k - 1 \in Good => k \in Good
    BY <1>2, <1>4, <1>5
  <2>. HIDE DEF Good
  <2>. QED
    BY <1>2, <2>1, FoldStays
<1>. QED
  BY <1>3, <1>6 DEF n

LEMMA RecalculatedFacts ==
    ASSUME NEW T \in TableSet, NEW routers \in SUBSET Ports, NEW r, r = Recalculated(T, routers)
    PROVE  r \in TableSet /\ r.drift = {} /\ AllExact(r, routers)
<1>. DEFINE list == CalculatedList(T.db, T.list, routers)
<1>1. /\ T.db \in Dbs /\ T.list \in McLists /\ Led(T.db, T.list) /\ Len(T.list) <= MaxNodes
      /\ T = [db |-> T.db, list |-> T.list, drift |-> T.drift]
  BY TableFacts
<1>2. Calculated(list, T.list, T.db, NumGroups, routers)
  BY <1>1, CalculatedFacts
<1>. HIDE DEF list
<1>3. list \in McLists /\ Len(list) <= MaxNodes /\ Led(T.db, list)
  BY <1>1, <1>2 DEF Calculated, Led
<1>4. r = [db |-> T.db, list |-> list, drift |-> {}]
  <2>1. PICK d, l, f : d = T.db /\ l = T.list /\ f = T.drift
    OBVIOUS
  <2>2. T = [db |-> d, list |-> l, drift |-> f]
    BY <1>1, <2>1
  <2>3. r = [T EXCEPT !.list = list, !.drift = {}]
    BY DEF Recalculated, list
  <2>4. T \in [db : {d}, list : {l, list}, drift : {f, {}}]
    BY <2>2
  <2>5. /\ r \in [db : {d}, list : {l, list}, drift : {f, {}}]
        /\ r.db = d /\ r.list = list /\ r.drift = {}
    BY <2>3, <2>4, <2>2
  <2>6. \A z \in [db : {d}, list : {l, list}, drift : {f, {}}] :
           z = [db |-> z.db, list |-> z.list, drift |-> z.drift]
    OBVIOUS
  <2>. QED
    BY <2>1, <2>5, <2>6, Zenon
<1>5. IsTables(r, T.db, list, {})
  BY <1>1, <1>3, <1>4, TablesMade
<1>6. ASSUME NEW m \in Macs, Sharing(T.db, m) # {}
      PROVE  Forwarded(list, m) = Members(T.db, Sharing(T.db, m)) \cup routers
  <2>1. PICK q \in Sharing(T.db, m) : T.db[q].pioneer
    BY <1>1, <1>6 DEF Led
  <2>2. q \in Entries /\ MacOf(T.db, q) = m
    BY <1>1, <2>1, DbFacts
  <2>. QED
    BY <1>2, <2>1, <2>2, McConstants DEF Calculated
<1>7. AllExact(r, routers)
  BY <1>5, <1>6 DEF AllExact, Exact, IsTables
<1>. QED
  BY <1>5, <1>7 DEF IsTables

LEMMA EmptiedFacts ==
    ASSUME NEW db \in Dbs, NEW list \in McLists, NEW r, r = Emptied(db, list)
    PROVE  r \in McLists /\ Len(r) <= Len(list)
<1>. DEFINE n == NumGroups
<1>1. PICK g : EmptySteps(g, db, list) /\ \A k \in 0..n : g[k] \in McLists
  BY EmptyStepsExist
<1>2. n \in Nat /\ Entries = 1..n /\ n \in 0..n
  BY McConstants
<1>3. /\ g[0] = list /\ g[n] = r
      /\ \A k \in 1..n :
            g[k] = IF k \in Pioneers(db) THEN AddrRemove(g[k - 1], MacOf(db, k)) ELSE g[k - 1]
  BY <1>1 DEF EmptySteps
<1>. HIDE DEF n
<1>. DEFINE Good == {k \in 0..n : Len(g[k]) <= Len(list)}
<1>4. 0 \in Good
  BY <1>2, <1>3, McListFacts
<1>5. ASSUME NEW k \in 1..n, k - 1 \in Good PROVE k \in Good
  <2>1. k \in 0..n /\ k - 1 \in 0..n
    BY <1>2
  <2>2. g[k] \in McLists /\ g[k - 1] \in McLists /\ Len(g[k - 1]) <= Len(list)
    BY <1>1, <1>5, <2>1
  <2>3. Len(g[k]) <= Len(g[k - 1])
    <3>1. CASE k \in Pioneers(db)
      BY <1>3, <2>2, <3>1, AddrRemoveFacts
    <3>2. CASE k \notin Pioneers(db)
      <4>1. g[k] = g[k - 1] /\ Len(g[k]) \in Nat
        BY <1>3, <2>2, <3>2, McListFacts
      <4>. QED
        BY <4>1
    <3>. QED
      BY <3>1, <3>2
  <2>4. Len(g[k]) \in Nat /\ Len(g[k - 1]) \in Nat /\ Len(list) \in Nat
    BY <2>2, McListFacts
  <2>. QED
    BY <2>1, <2>2, <2>3, <2>4
<1>6. n \in Good
  <2>. HIDE DEF Good
  <2>. QED
    BY <1>2, <1>4, <1>5, FoldStays
<1>. QED
  BY <1>1, <1>2, <1>3, <1>6

-----------------------------------------------------------------------------
(* The leaves.  No port has two leaves for a group.                            *)
McLeave == [gda : Groups, uport : Ports, timeout : 0..MaxTimeout]
McQueues == Seq(McLeave)
SameLeave(a, b) == a.gda = b.gda /\ a.uport = b.uport
Distinct(queue) == \A x, y \in 1..Len(queue) : SameLeave(queue[x], queue[y]) => x = y
Walks == [T : TableSet, queue : McQueues, first : BOOLEAN, ended : BOOLEAN]

LEMMA McTimeouts ==
    /\ MaxTimeout \in Nat /\ LeaveTimeout \in 0..MaxTimeout /\ 0 \in 0..MaxTimeout
    /\ MaxTimeout \in 0..MaxTimeout /\ MaxLeaves \in Nat \ {0} /\ RouterInterval \in Nat \ {0}
    /\ Membership \in Nat \ {0} /\ RxSlots \in Nat \ {0} /\ MaxNodes \in Nat \ {0}
<1>1. LeaveTimeout \in 1..MaxTimeout /\ MaxTimeout \in Nat
      /\ {NumGroups, MaxLeaves, Membership, MaxNodes, RxSlots} \subseteq Nat \ {0}
      /\ RouterInterval \in Nat \ {0, 1}
  BY IgmpSnoopAssumption
<1>. QED
  BY <1>1

(* A leave of the queue is kept with some timeout or goes.                     *)
LeaveKept(new, queue, l) ==
    \/ new = queue
    \/ \E k \in McLeave : SameLeave(k, l) /\ new = Append(queue, k)
Walked(r, W, l) == r \in Walks /\ KeptExact(r.T, W.T) /\ LeaveKept(r.queue, W.queue, l)

LEMMA WalkFacts ==
    ASSUME NEW W \in Walks
    PROVE  W.T \in TableSet /\ W.queue \in McQueues /\ W.first \in BOOLEAN /\ W.ended \in BOOLEAN
  BY DEF Walks

LEMMA QueueChanged ==
    ASSUME NEW W \in Walks, NEW l \in McLeave, NEW queue \in McQueues,
           LeaveKept(queue, W.queue, l), NEW r, NEW b \in BOOLEAN,
           r = [W EXCEPT !.queue = queue] \/ r = [W EXCEPT !.queue = queue, !.first = b]
           \/ r = [W EXCEPT !.queue = queue, !.ended = b]
    PROVE  Walked(r, W, l)
<1>1. KeptExact(W.T, W.T)
  BY WalkFacts DEF KeptExact
<1>2. r \in Walks /\ r.T = W.T /\ r.queue = queue
  BY DEF Walks
<1>. QED
  BY <1>1, <1>2 DEF Walked

LEMMA LeaveStepFacts ==
    ASSUME NEW W \in Walks, NEW l \in McLeave, dynamic_router.uplist \in SUBSET Ports,
           NEW r, r = LeaveStep(W, l)
    PROVE  Walked(r, W, l)
<1>. DEFINE i == Found(W.T.db, l.gda)
            t == IF l.timeout = 0 THEN MaxTimeout ELSE l.timeout - 1
            keep(timeout) == Append(W.queue, [l EXCEPT !.timeout = timeout])
<1>1. ASSUME NEW timeout \in 0..MaxTimeout
      PROVE  keep(timeout) \in McQueues /\ LeaveKept(keep(timeout), W.queue, l)
  <2>1. [l EXCEPT !.timeout = timeout] \in McLeave /\ SameLeave([l EXCEPT !.timeout = timeout], l)
    BY DEF McLeave, SameLeave
  <2>. DEFINE k == [l EXCEPT !.timeout = timeout]
  <2>. HIDE DEF k
  <2>2. Append(W.queue, k) \in McQueues /\ LeaveKept(Append(W.queue, k), W.queue, l)
    BY <2>1, WalkFacts, AppendProperties DEF LeaveKept, McQueues, k
  <2>. QED
    BY <2>2 DEF k
<1>2. t \in 0..MaxTimeout
  <2>1. l.timeout \in 0..MaxTimeout
    BY DEF McLeave
  <2>. QED
    BY <2>1, McTimeouts
<1>3. CASE W.ended
  <2>1. r = [W EXCEPT !.queue = Append(@, l)]
    BY <1>3 DEF LeaveStep
  <2>2. Append(W.queue, l) \in McQueues /\ LeaveKept(Append(W.queue, l), W.queue, l)
    BY WalkFacts, AppendProperties DEF LeaveKept, McQueues, SameLeave
  <2>. QED
    BY <2>1, <2>2, QueueChanged
<1>. HIDE DEF keep
<1>4. CASE ~W.ended /\ t # 0
  <2>1. r = [W EXCEPT !.queue = keep(t), !.first = FALSE]
    BY <1>4 DEF LeaveStep, keep
  <2>. HIDE DEF t
  <2>. QED
    BY <1>1, <1>2, <2>1, QueueChanged
<1>5. CASE ~W.ended /\ t = 0 /\ i = {}
  <2>1. CASE W.first
    <3>1. r = [W EXCEPT !.queue = keep(0), !.ended = TRUE]
      BY <1>5, <2>1 DEF LeaveStep, keep
    <3>. QED
      BY <1>1, <3>1, QueueChanged, McTimeouts
  <2>2. CASE ~W.first
    <3>1. r = [W EXCEPT !.queue = keep(MaxTimeout)]
      BY <1>5, <2>2 DEF LeaveStep, keep
    <3>. QED
      BY <1>1, <3>1, QueueChanged, McTimeouts
  <2>. QED
    BY <2>1, <2>2
<1>6. CASE ~W.ended /\ t = 0 /\ i # {}
  <2>. DEFINE U == LeaveExpires(W.T, FirstOf(i), l)
  <2>1. r = [W EXCEPT !.T = U, !.first = FALSE]
    BY <1>6 DEF LeaveStep
  <2>2. FirstOf(i) \in Entries /\ W.T.db[FirstOf(i)].gda # NOGROUP
    <3>1. i \in SUBSET Nat
      BY McConstants DEF Found
    <3>2. FirstOf(i) \in i
      BY <1>6, <3>1, FirstOfNumbers
    <3>3. l.gda # NOGROUP
      BY McConstants DEF McLeave
    <3>. QED
      BY <3>2, <3>3 DEF Found
  <2>3. KeptExact(U, W.T)
    BY <2>2, WalkFacts, LeaveExpiresFacts
  <2>4. U \in TableSet
    BY <2>3 DEF KeptExact
  <2>. HIDE DEF U
  <2>5. r \in Walks /\ r.T = U /\ r.queue = W.queue
    BY <2>1, <2>4 DEF Walks
  <2>. QED
    BY <2>3, <2>5 DEF Walked, LeaveKept
<1>. QED
  BY <1>3, <1>4, <1>5, <1>6

(* The walk over the leaves.                                                    *)
LeaveSteps(g, start) ==
    /\ g[0] = start /\ g[Len(igmpLV)] = Leaves
    /\ \A k \in 1..Len(igmpLV) : g[k] = LeaveStep(g[k - 1], igmpLV[k])

LEMMA LeaveStepsExist ==
    ASSUME igmpLV \in McQueues, Tables \in TableSet, dynamic_router.uplist \in SUBSET Ports,
           NEW start, start = [T |-> Tables, queue |-> <<>>, first |-> TRUE, ended |-> FALSE]
    PROVE  \E g : LeaveSteps(g, start) /\ \A k \in 0..Len(igmpLV) : g[k] \in Walks
<1>. DEFINE Op(w, d) == LeaveStep(w, d)
            n == Len(igmpLV)
            op == [x \in Walks \X McLeave |-> Op(x[1], x[2])]
            IsIter(f) == f = [s \in SUBSET (1..n) |->
                                 IF s = {} THEN start ELSE Op(f[s \ {Max(s)}], igmpLV[Max(s)])]
<1>1. n \in Nat /\ igmpLV \in [1..n -> McLeave] /\ DOMAIN igmpLV = 1..n /\ start \in Walks
  <2>1. start \in Walks
    BY DEF Walks, McQueues
  <2>. QED
    BY <2>1, LenProperties DEF McQueues
<1>2. op \in [Walks \X McLeave -> Walks]
  <2>1. \A x \in Walks \X McLeave : Op(x[1], x[2]) \in Walks
    BY LeaveStepFacts DEF Walked
  <2>. HIDE DEF Op
  <2>. QED
    BY <2>1
<1>3. Leaves = (CHOOSE f : IsIter(f))[1..n]
  BY <1>1 DEF Leaves, FoldLeft, MapThenFoldSet
<1>. HIDE DEF n
<1>4. \E f : IsIter(f) /\ \A s \in SUBSET (1..n) : f[s] \in Walks
  <2>. HIDE DEF op, Op
  <2>1. PICK f : Iterates(f, n, start, op, igmpLV) /\ \A s \in SUBSET (1..n) : f[s] \in Walks
    BY <1>1, <1>2, FoldExists, Zenon
  <2>2. ASSUME NEW s \in SUBSET (1..n), s # {}
        PROVE  f[s] = Op(f[s \ {Max(s)}], igmpLV[Max(s)])
    <3>1. Max(s) \in 1..n /\ s \ {Max(s)} \in SUBSET (1..n)
      BY <1>1, <2>2, GreatestNumber
    <3>2. igmpLV[Max(s)] \in McLeave /\ f[s \ {Max(s)}] \in Walks
      BY <1>1, <2>1, <3>1
    <3>3. f[s] = op[<<f[s \ {Max(s)}], igmpLV[Max(s)]>>]
      BY <2>1, <2>2 DEF Iterates
    <3>. QED
      BY <3>2, <3>3 DEF op
  <2>3. f = [s \in SUBSET (1..n) |-> f[s]] /\ f[{}] = start
    BY <2>1 DEF Iterates
  <2>4. IsIter(f)
    BY <2>2, <2>3
  <2>. QED
    BY <2>1, <2>4
<1>5. PICK f : IsIter(f) /\ (CHOOSE h : IsIter(h))[1..n] = f[1..n]
  BY <1>4
<1>. DEFINE g == [k \in 0..n |-> f[1..k]]
<1>6. g[0] = start /\ g[n] = f[1..n]
  <2>. HIDE DEF Op
  <2>1. 1..0 = {} /\ f[{}] = start
    BY <1>5
  <2>. QED
    BY <1>1, <2>1
<1>7. ASSUME NEW k \in 1..n PROVE g[k] = Op(g[k - 1], igmpLV[k])
  <2>. HIDE DEF Op
  <2>1. k \in Nat \ {0} /\ 1..k \in SUBSET (1..n)
    BY <1>1
  <2>2. 1..k # {} /\ Max(1..k) = k /\ (1..k) \ {k} = 1..(k - 1)
    BY <2>1, LastOfInterval, Zenon
  <2>3. f[1..k] = Op(f[1..(k - 1)], igmpLV[k])
    BY <1>5, <2>1, <2>2
  <2>4. k \in 0..n /\ k - 1 \in 0..n
    BY <1>1
  <2>. QED
    BY <2>3, <2>4
<1>. HIDE DEF g
<1>8. \A k \in 0..n : k \in {j \in 0..n : g[j] \in Walks}
  <2>. DEFINE Good == {j \in 0..n : g[j] \in Walks}
  <2>1. 0 \in Good
    BY <1>1, <1>6
  <2>2. ASSUME NEW k \in 1..n, k - 1 \in Good PROVE k \in Good
    <3>1. g[k - 1] \in Walks /\ igmpLV[k] \in McLeave /\ k \in 0..n
      BY <1>1, <2>2
    <3>2. g[k] = op[<<g[k - 1], igmpLV[k]>>]
      <4>. HIDE DEF Op
      <4>. QED
        BY <1>7, <3>1
    <3>. HIDE DEF op
    <3>. QED
      BY <1>2, <3>1, <3>2
  <2>. HIDE DEF Good
  <2>3. \A k \in 0..n : k \in Good
    BY <1>1, <2>1, <2>2, FoldStays
  <2>. QED
    BY <2>3 DEF Good
<1>9. \A k \in 1..n : g[k] = LeaveStep(g[k - 1], igmpLV[k])
  BY <1>1, <1>7
<1>. HIDE DEF Op
<1>. QED
  BY <1>3, <1>5, <1>6, <1>8, <1>9 DEF n, LeaveSteps

(* The leaves that are left are leaves of the queue.                           *)
LeavesFrom(queue, k) ==
    /\ queue \in McQueues /\ Len(queue) <= k /\ Distinct(queue)
    /\ \A x \in 1..Len(queue) : \E y \in 1..k : SameLeave(queue[x], igmpLV[y])

LEMMA LeavesKept ==
    ASSUME igmpLV \in McQueues, Distinct(igmpLV), NEW k \in 1..Len(igmpLV), NEW old,
           LeavesFrom(old, k - 1), NEW new, LeaveKept(new, old, igmpLV[k])
    PROVE  LeavesFrom(new, k)
<1>1. /\ old \in McQueues /\ Len(old) \in Nat /\ Len(old) <= k - 1 /\ Distinct(old)
      /\ \A x \in 1..Len(old) : \E y \in 1..(k - 1) : SameLeave(old[x], igmpLV[y])
  BY LenProperties DEF LeavesFrom, McQueues
<1>2. k \in Nat \ {0} /\ 1..(k - 1) \subseteq 1..k /\ k \in 1..k /\ k \notin 1..(k - 1)
      /\ 1..k \subseteq 1..Len(igmpLV)
  BY LenProperties DEF McQueues
<1>3. CASE new = old
  <2>1. Len(old) <= k
    BY <1>1, <1>2
  <2>. QED
    BY <1>1, <1>2, <1>3, <2>1 DEF LeavesFrom
<1>4. ASSUME NEW l \in McLeave, SameLeave(l, igmpLV[k]), new = Append(old, l)
      PROVE  LeavesFrom(new, k)
  <2>1. /\ new \in McQueues /\ Len(new) = Len(old) + 1 /\ new[Len(new)] = l
        /\ \A x \in 1..Len(old) : new[x] = old[x]
    BY <1>1, <1>4, AppendProperties DEF McQueues
  <2>2. \A x \in 1..Len(new) : x = Len(new) \/ x \in 1..Len(old)
    BY <1>1, <2>1
  <2>3. \A x \in 1..Len(old) : ~SameLeave(old[x], l)
    <3>. SUFFICES ASSUME NEW x \in 1..Len(old), SameLeave(old[x], l) PROVE FALSE
      OBVIOUS
    <3>1. PICK y \in 1..(k - 1) : SameLeave(old[x], igmpLV[y])
      BY <1>1
    <3>2. SameLeave(igmpLV[y], igmpLV[k])
      BY <1>4, <3>1 DEF SameLeave
    <3>. QED
      BY <1>2, <3>1, <3>2 DEF Distinct
  <2>4. Distinct(new)
    <3>. SUFFICES ASSUME NEW x \in 1..Len(new), NEW y \in 1..Len(new),
                         SameLeave(new[x], new[y]), x # y
                  PROVE  FALSE
      BY DEF Distinct
    <3>1. SameLeave(new[y], new[x])
      BY DEF SameLeave
    <3>2. CASE x \in 1..Len(old) /\ y \in 1..Len(old)
      BY <1>1, <2>1, <3>2 DEF Distinct
    <3>3. CASE x = Len(new)
      BY <2>1, <2>2, <2>3, <3>1, <3>3
    <3>4. CASE y = Len(new)
      BY <2>1, <2>2, <2>3, <3>4
    <3>. QED
      BY <2>2, <3>2, <3>3, <3>4
  <2>5. \A x \in 1..Len(new) : \E y \in 1..k : SameLeave(new[x], igmpLV[y])
    BY <1>1, <1>2, <1>4, <2>1, <2>2
  <2>6. Len(new) <= k
    BY <1>1, <1>2, <2>1
  <2>. QED
    BY <2>1, <2>4, <2>5, <2>6 DEF LeavesFrom
<1>. QED
  BY <1>3, <1>4 DEF LeaveKept

LEMMA LeavesFacts ==
    ASSUME igmpLV \in McQueues, Distinct(igmpLV), Tables \in TableSet,
           dynamic_router.uplist \in SUBSET Ports
    PROVE  /\ KeptExact(Leaves.T, Tables) /\ LeavesFrom(Leaves.queue, Len(igmpLV))
<1>. DEFINE n == Len(igmpLV)
            start == [T |-> Tables, queue |-> <<>>, first |-> TRUE, ended |-> FALSE]
<1>1. PICK g : LeaveSteps(g, start) /\ \A k \in 0..n : g[k] \in Walks
  BY LeaveStepsExist
<1>2. n \in Nat /\ n \in 0..n /\ \A k \in 1..n : igmpLV[k] \in McLeave
  BY LenProperties DEF McQueues
<1>3. g[0] = start /\ g[n] = Leaves /\ \A k \in 1..n : g[k] = LeaveStep(g[k - 1], igmpLV[k])
  BY <1>1 DEF LeaveSteps
<1>4. g[0].T = Tables /\ g[0].queue = <<>>
  BY <1>3
<1>. HIDE DEF n, start
<1>. DEFINE Good == {k \in 0..n : KeptExact(g[k].T, Tables) /\ LeavesFrom(g[k].queue, k)}
<1>5. 0 \in Good
  <2>1. KeptExact(Tables, Tables)
    BY DEF KeptExact
  <2>2. LeavesFrom(<<>>, 0)
    BY DEF LeavesFrom, McQueues, Distinct
  <2>. QED
    BY <1>2, <1>4, <2>1, <2>2
<1>6. ASSUME NEW k \in 1..n, k - 1 \in Good PROVE k \in Good
  <2>1. k \in 0..n /\ k - 1 \in 0..n
    BY <1>2
  <2>2. Walked(g[k], g[k - 1], igmpLV[k])
    BY <1>1, <1>2, <1>3, <2>1, LeaveStepFacts
  <2>3. KeptExact(g[k].T, Tables)
    BY <1>6, <2>2 DEF Walked, KeptExact
  <2>4. LeavesFrom(g[k].queue, k)
    BY <1>6, <2>2, LeavesKept DEF Walked, n
  <2>. QED
    BY <2>1, <2>3, <2>4
<1>7. n \in Good
  <2>. HIDE DEF Good
  <2>. QED
    BY <1>2, <1>5, <1>6, FoldStays
<1>. QED
  BY <1>3, <1>7 DEF n

-----------------------------------------------------------------------------
(* Reports.                                                                    *)
LEMMA JoinKnown ==
    ASSUME NEW T \in TableSet, NEW i \in Entries, T.db[i].gda # NOGROUP, NEW p \in Ports, NEW e,
           Adjusts(e, T.db[i]), e.uplist = T.db[i].uplist \cup {p}, NEW m, m = MacOf(T.db, i),
           NEW db, db = [T.db EXCEPT ![i] = e],
           NEW list, list = NodeSet(T.list, m, Forwarded(T.list, m) \cup {p}),
           NEW r, r = [db |-> db, list |-> list, drift |-> T.drift]
    PROVE  KeptExact(r, T)
<1>. DEFINE R == dynamic_router.uplist
            cut == Forwarded(T.list, m) \cup {p}
            pals == Pals(T.db, i)
<1>1. /\ T.db \in Dbs /\ T.list \in McLists /\ T.drift \in SUBSET Macs /\ Led(T.db, T.list)
      /\ m \in Macs
  BY TableFacts, DbFacts
<1>2. cut \in SUBSET Ports
  BY <1>1, ForwardedPorts
<1>. HIDE DEF cut, R, pals
<1>3. EntryAdjusted(r, T, i, e, list, T.drift)
  BY <1>1, <1>2, EntryAdjusts DEF cut
<1>4. /\ r \in TableSet /\ r.drift = T.drift /\ r.list = list /\ Elsewhere(r, T, m)
      /\ Sharing(r.db, m) = Sharing(T.db, m)
      /\ r.db[i] = e /\ \A j \in Entries \ {i} : r.db[j] = T.db[j]
  BY <1>3 DEF EntryAdjusted
<1>5. Sharing(T.db, m) = pals \cup {i} /\ pals \in SUBSET Entries /\ i \notin pals
  BY <1>1, PalFacts DEF pals
<1>6. ASSUME Exact(T.db, T.list, m, R) PROVE Exact(r.db, r.list, m, R)
  <2>1. Forwarded(list, m) = Forwarded(T.list, m) \cup {p}
    <3>1. m \in MacsIn(T.list)
      BY <1>1, <1>5 DEF Led
    <3>. QED
      BY <1>1, <1>2, <3>1, NodeSetFacts DEF cut
  <2>2. Members(r.db, pals) = Members(T.db, pals)
    <3>1. \A j \in pals : r.db[j] = T.db[j]
      BY <1>4, <1>5
    <3>. QED
      BY <3>1 DEF Members
  <2>3. Members(r.db, pals \cup {i}) = Members(T.db, pals \cup {i}) \cup {p}
    <3>1. MembersPlus(r.db, pals, i) /\ MembersPlus(T.db, pals, i)
      BY MembersOf
    <3>. QED
      BY <1>4, <2>2, <3>1 DEF MembersPlus
  <2>4. Forwarded(T.list, m) = Members(T.db, pals \cup {i}) \cup R
    BY <1>5, <1>6 DEF Exact
  <2>. QED
    BY <1>4, <1>5, <2>1, <2>3, <2>4 DEF Exact
<1>7. AllExact(T, R) => AllExact(r, R)
  <2>. SUFFICES ASSUME AllExact(T, R) PROVE AllExact(r, R)
    OBVIOUS
  <2>1. m \in Macs \ r.drift => Exact(r.db, r.list, m, R)
    BY <1>4, <1>6 DEF AllExact
  <2>. QED
    BY <1>4, <2>1, ExactElsewhere
<1>. QED
  BY <1>4, <1>7 DEF KeptExact, R

NewEntry(e, db, i, g, p) ==
    /\ db[i].gda = NOGROUP /\ \A j \in Entries : db[j].gda # g
    /\ e \in McEntry /\ e.gda = g /\ e.age \subseteq e.uplist /\ e.uplist = db[i].uplist \cup {p}
    /\ e.pioneer = (Sharing(db, Mac[g]) = {})

LEMMA JoinNew ==
    ASSUME NEW T \in TableSet, NEW i \in Entries, NEW g \in Groups, NEW p \in Ports,
           Len(T.list) < MaxNodes, dynamic_router.uplist \in SUBSET Ports,
           NEW e, NewEntry(e, T.db, i, g, p), NEW m, m = Mac[g],
           NEW db, db = [T.db EXCEPT ![i] = e],
           NEW list, list = AddrAdd(T.list, m, {p} \cup dynamic_router.uplist),
           NEW drift, drift = IF Sharing(T.db, m) # {} THEN T.drift \cup {m} ELSE T.drift \ {m},
           NEW r, r = [db |-> db, list |-> list, drift |-> drift]
    PROVE  KeptExact(r, T)
<1>. DEFINE R == dynamic_router.uplist
<1>1. /\ T.db \in Dbs /\ T.list \in McLists /\ T.drift \in SUBSET Macs /\ Led(T.db, T.list)
      /\ m \in Macs /\ T.db[i].uplist = {}
  BY TableFacts, DbFacts, McConstants DEF Unique, NewEntry
<1>2. Taken(db, T.db, i, e, m)
  BY <1>1, EntryTaken DEF NewEntry
<1>3. /\ list \in McLists /\ Len(list) = Len(T.list) + 1 /\ MacsIn(list) = MacsIn(T.list) \cup {m}
      /\ Forwarded(list, m) = {p} \cup R
      /\ \A x : x # m => Forwarded(list, x) = Forwarded(T.list, x)
  BY <1>1, AddrAddFacts
<1>4. db \in Dbs /\ db[i] = e /\ Led(db, list)
  BY <1>1, <1>2, <1>3 DEF Taken
<1>5. Len(list) <= MaxNodes
  <2>1. Len(T.list) \in Nat /\ MaxNodes \in Nat
    BY <1>1, McListFacts, McTimeouts
  <2>. QED
    BY <1>3, <2>1
<1>6. IsTables(r, db, list, drift)
  BY <1>1, <1>3, <1>4, <1>5, TablesMade
<1>7. Elsewhere(r, T, m)
  <2>. SUFFICES ASSUME NEW x, x # m PROVE SameAt(r, T, x)
    BY DEF Elsewhere
  <2>1. Sharing(db, x) = Sharing(T.db, x)
    BY <1>2 DEF Taken
  <2>2. \A j \in Sharing(T.db, x) : db[j] = T.db[j]
    <3>1. \A j \in Sharing(T.db, x) : j \in Entries \ {i}
      BY <1>1, DbFacts DEF NewEntry
    <3>. QED
      BY <1>2, <3>1 DEF Taken
  <2>. QED
    BY <1>3, <1>6, <2>1, <2>2 DEF IsTables, SameAt
<1>8. m \in Macs \ r.drift => Exact(r.db, r.list, m, R)
  <2>. SUFFICES ASSUME m \notin drift PROVE Exact(db, list, m, R)
    BY <1>6 DEF IsTables
  <2>1. Sharing(db, m) = {i}
    BY <1>2 DEF Taken
  <2>2. Members(db, {i}) = {p}
    <3>1. Members(db, {i}) = db[i].uplist
      BY DEF Members
    <3>. QED
      BY <1>1, <1>4, <3>1 DEF NewEntry
  <2>. QED
    BY <1>3, <2>1, <2>2 DEF Exact
<1>9. \A x \in T.drift : x # m => x \in r.drift
  BY <1>6 DEF IsTables
<1>10. AllExact(T, R) => AllExact(r, R)
  BY <1>6, <1>7, <1>8, <1>9, ExactElsewhere DEF IsTables
<1>. QED
  BY <1>6, <1>10 DEF KeptExact, IsTables

LEMMA UpdateFacts ==
    ASSUME Tables \in TableSet, dynamic_router.uplist \in SUBSET Ports, NEW g \in Groups,
           NEW p \in Ports, NEW alloc \in BOOLEAN,
           alloc => Found(igmpDB, g) = {} /\ Len(mlist) < MaxNodes, Update(g, p, alloc)
    PROVE  KeptExact(Tables', Tables)
<1>. DEFINE m == Mac[g]
            E(i, pioneer) == [gda |-> g, pioneer |-> pioneer, age |-> igmpDB[i].age \cup {p},
                              uplist |-> igmpDB[i].uplist \cup {p}]
<1>1. /\ Tables.db = igmpDB /\ Tables.list = mlist /\ Tables.drift = drifted
      /\ igmpDB \in Dbs /\ g # NOGROUP
  BY TableFacts, McConstants DEF Tables
<1>2. Found(igmpDB, g) \in SUBSET Nat /\ Found(igmpDB, NOGROUP) \in SUBSET Nat
  BY McConstants DEF Found
<1>3. ASSUME NEW i \in Entries, NEW pioneer \in BOOLEAN
      PROVE  /\ E(i, pioneer) \in McEntry /\ E(i, pioneer).gda = g /\ E(i, pioneer).pioneer = pioneer
             /\ E(i, pioneer).age \subseteq E(i, pioneer).uplist
             /\ E(i, pioneer).uplist = igmpDB[i].uplist \cup {p}
             /\ Join(i, g, p, pioneer) = [igmpDB EXCEPT ![i] = E(i, pioneer)]
  <2>1. igmpDB[i].age \in SUBSET Ports /\ igmpDB[i].uplist \in SUBSET Ports
        /\ igmpDB[i].age \subseteq igmpDB[i].uplist
    BY <1>1, DbFacts DEF Unique
  <2>. QED
    BY <2>1 DEF McEntry, Join
<1>. HIDE DEF E
<1>4. CASE Found(igmpDB, g) # {}
  <2>. DEFINE i == FirstOf(Found(igmpDB, g))
              e == E(i, igmpDB[i].pioneer)
              db == [igmpDB EXCEPT ![i] = e]
              list == NodeSet(mlist, m, Forwarded(mlist, m) \cup {p})
  <2>1. i \in Found(igmpDB, g)
    BY <1>2, <1>4, FirstOfNumbers
  <2>. HIDE DEF i
  <2>2. i \in Entries /\ igmpDB[i].gda = g /\ igmpDB[i].pioneer \in BOOLEAN
    BY <1>1, <2>1, DbFacts DEF Found
  <2>3. SetTables([db |-> Join(i, g, p, igmpDB[i].pioneer), list |-> list, drift |-> drifted])
    BY <1>4 DEF Update, i
  <2>4. Tables' = [db |-> db, list |-> list, drift |-> drifted]
    BY <1>3, <2>2, <2>3 DEF SetTables, Tables
  <2>5. Adjusts(e, igmpDB[i]) /\ e.uplist = igmpDB[i].uplist \cup {p}
    BY <1>3, <2>2 DEF Adjusts
  <2>6. m = MacOf(igmpDB, i)
    BY <2>2 DEF MacOf
  <2>. HIDE DEF db, list, e, m
  <2>7. db = [igmpDB EXCEPT ![i] = e] /\ list = NodeSet(mlist, m, Forwarded(mlist, m) \cup {p})
    BY DEF db, list
  <2>. QED
    BY <1>1, <2>2, <2>4, <2>5, <2>6, <2>7, JoinKnown
<1>5. CASE Found(igmpDB, g) = {} /\ Found(igmpDB, NOGROUP) # {} /\ alloc
  <2>. DEFINE i == FirstOf(Found(igmpDB, NOGROUP))
              others == Sharing(igmpDB, m) # {}
              e == E(i, ~others)
              db == [igmpDB EXCEPT ![i] = e]
              list == AddrAdd(mlist, m, {p} \cup dynamic_router.uplist)
              drift == IF others THEN drifted \cup {m} ELSE drifted \ {m}
  <2>1. i \in Found(igmpDB, NOGROUP)
    BY <1>2, <1>5, FirstOfNumbers
  <2>. HIDE DEF i
  <2>2. i \in Entries /\ igmpDB[i].gda = NOGROUP
    BY <2>1 DEF Found
  <2>3. SetTables([db |-> Join(i, g, p, ~others), list |-> list, drift |-> drift])
    BY <1>5 DEF Update, i
  <2>4. (~others) \in BOOLEAN
    OBVIOUS
  <2>. HIDE DEF others
  <2>5. Tables' = [db |-> db, list |-> list, drift |-> drift]
    <3>. HIDE DEF drift, list
    <3>. QED
      BY <1>3, <2>2, <2>3, <2>4 DEF SetTables, Tables
  <2>6. /\ e \in McEntry /\ e.gda = g /\ e.age \subseteq e.uplist
        /\ e.uplist = igmpDB[i].uplist \cup {p} /\ e.pioneer = ~others
    BY <1>3, <2>2, <2>4
  <2>7. \A j \in Entries : igmpDB[j].gda # g
    BY <1>5 DEF Found
  <2>. HIDE DEF db, list, e, m, drift
  <2>8. /\ db = [igmpDB EXCEPT ![i] = e] /\ list = AddrAdd(mlist, m, {p} \cup dynamic_router.uplist)
        /\ drift = IF Sharing(igmpDB, m) # {} THEN drifted \cup {m} ELSE drifted \ {m}
    BY DEF db, list, drift, others
  <2>9. NewEntry(e, igmpDB, i, g, p)
    BY <2>2, <2>6, <2>7 DEF NewEntry, others, m
  <2>10. Len(mlist) < MaxNodes /\ m = Mac[g]
    BY <1>5 DEF m
  <2>. QED
    BY <1>1, <2>2, <2>5, <2>8, <2>9, <2>10, JoinNew
<1>6. CASE Found(igmpDB, g) = {} /\ ~(Found(igmpDB, NOGROUP) # {} /\ alloc)
  <2>1. UNCHANGED tables
    BY <1>6 DEF Update
  <2>2. Tables' = Tables
    BY <2>1 DEF tables, Tables
  <2>. QED
    BY <2>2 DEF KeptExact
<1>. QED
  BY <1>4, <1>5, <1>6

-----------------------------------------------------------------------------
(* The changes of the queue.                                                   *)
QueueOK(queue) == queue \in McQueues /\ Len(queue) <= MaxLeaves /\ Distinct(queue)

LEMMA QueueFacts ==
    ASSUME NEW queue \in McQueues
    PROVE  /\ Len(queue) \in Nat /\ DOMAIN queue = 1..Len(queue)
           /\ queue \in [1..Len(queue) -> McLeave] /\ \A n \in 1..Len(queue) : queue[n] \in McLeave
  BY LenProperties DEF McQueues

LEMMA QueueRetimed ==
    ASSUME NEW queue, QueueOK(queue), NEW r \in [1..Len(queue) -> McLeave],
           \A n \in 1..Len(queue) : SameLeave(r[n], queue[n])
    PROVE  QueueOK(r)
<1>1. Len(queue) \in Nat /\ queue \in McQueues
  BY QueueFacts DEF QueueOK
<1>2. r \in McQueues /\ Len(r) = Len(queue)
  BY <1>1, LenProperties DEF McQueues
<1>3. Distinct(r)
  <2>. SUFFICES ASSUME NEW x \in 1..Len(queue), NEW y \in 1..Len(queue), SameLeave(r[x], r[y])
                PROVE  x = y
    BY <1>2 DEF Distinct
  <2>1. SameLeave(queue[x], queue[y])
    BY DEF SameLeave
  <2>. QED
    BY <2>1 DEF QueueOK, Distinct
<1>. QED
  BY <1>2, <1>3 DEF QueueOK

LEMMA LeaveInFront ==
    ASSUME NEW queue, QueueOK(queue), NEW l \in McLeave, Len(queue) < MaxLeaves,
           \A n \in 1..Len(queue) : ~SameLeave(queue[n], l), NEW r, r = <<l>> \o queue
    PROVE  QueueOK(r)
<1>. DEFINE n == Len(queue)
<1>1. queue \in McQueues /\ n \in Nat /\ MaxLeaves \in Nat
  BY QueueFacts, McTimeouts DEF QueueOK
<1>2. <<l>> \in McQueues /\ Len(<<l>>) = 1 /\ <<l>>[1] = l
  BY DEF McQueues
<1>3. /\ r \in McQueues /\ Len(r) = 1 + n
      /\ \A i \in 1..(1 + n) : r[i] = IF i <= 1 THEN <<l>>[i] ELSE queue[i - 1]
  BY <1>1, <1>2, ConcatProperties DEF McQueues
<1>. HIDE DEF n
<1>4. \A i \in 1..(1 + n) : (i = 1 /\ r[i] = l) \/ (i - 1 \in 1..n /\ r[i] = queue[i - 1])
  BY <1>1, <1>2, <1>3
<1>5. Distinct(r)
  <2>. SUFFICES ASSUME NEW x \in 1..(1 + n), NEW y \in 1..(1 + n), SameLeave(r[x], r[y])
                PROVE  x = y
    BY <1>3 DEF Distinct
  <2>1. SameLeave(r[y], r[x])
    BY DEF SameLeave
  <2>2. CASE x = 1 /\ y = 1
    BY <2>2
  <2>3. CASE x = 1 /\ y # 1
    BY <1>4, <2>1, <2>3 DEF n
  <2>4. CASE x # 1 /\ y = 1
    BY <1>4, <2>4 DEF n
  <2>5. CASE x # 1 /\ y # 1
    <3>1. x - 1 \in 1..n /\ y - 1 \in 1..n /\ SameLeave(queue[x - 1], queue[y - 1])
      BY <1>4, <2>5
    <3>2. x - 1 = y - 1
      BY <3>1 DEF QueueOK, Distinct, n
    <3>. QED
      BY <3>2
  <2>. QED
    BY <2>2, <2>3, <2>4, <2>5
<1>6. Len(r) <= MaxLeaves
  BY <1>1, <1>3 DEF n
<1>. QED
  BY <1>3, <1>5, <1>6 DEF QueueOK

LEMMA LeaveTakenOut ==
    ASSUME NEW queue, QueueOK(queue), NEW k \in 1..Len(queue), NEW r, r = RemoveAt(queue, k)
    PROVE  QueueOK(r)
<1>. DEFINE n == Len(queue)
            a == SubSeq(queue, 1, k - 1)
            b == SubSeq(queue, k + 1, n)
<1>1. queue \in McQueues /\ n \in Nat /\ MaxLeaves \in Nat /\ n <= MaxLeaves
      /\ \A i \in 1..n : queue[i] \in McLeave
  BY QueueFacts, McTimeouts DEF QueueOK
<1>2. r = a \o b
  BY DEF RemoveAt
<1>. HIDE DEF n
<1>3. k \in 1..n /\ k \in Nat
  BY <1>1 DEF n
<1>4. a \in McQueues /\ Len(a) = k - 1 /\ \A i \in 1..(k - 1) : a[i] = queue[i]
  <2>1. 1 \in Int /\ k - 1 \in Int /\ \A i \in 1..(k - 1) : queue[i] \in McLeave
    BY <1>1, <1>3
  <2>2. /\ a \in Seq(McLeave) /\ Len(a) = IF 1 <= k - 1 THEN k - 1 - 1 + 1 ELSE 0
        /\ \A i \in 1..(k - 1 - 1 + 1) : a[i] = queue[1 + i - 1]
    BY <2>1, SubSeqProperties
  <2>. HIDE DEF a
  <2>. QED
    BY <1>3, <2>2 DEF McQueues
<1>5. b \in McQueues /\ Len(b) = n - k /\ \A i \in 1..(n - k) : b[i] = queue[k + i]
  <2>1. k + 1 \in Int /\ n \in Int /\ \A i \in (k + 1)..n : queue[i] \in McLeave
    BY <1>1, <1>3
  <2>2. /\ b \in Seq(McLeave) /\ Len(b) = IF k + 1 <= n THEN n - (k + 1) + 1 ELSE 0
        /\ \A i \in 1..(n - (k + 1) + 1) : b[i] = queue[k + 1 + i - 1]
    BY <2>1, SubSeqProperties
  <2>. HIDE DEF b
  <2>. QED
    BY <1>1, <1>3, <2>2 DEF McQueues
<1>. HIDE DEF a, b
<1>6. /\ r \in McQueues /\ Len(r) = n - 1
      /\ \A i \in 1..(n - 1) : r[i] = IF i < k THEN queue[i] ELSE queue[i + 1]
  <2>1. /\ r \in McQueues /\ Len(r) = k - 1 + (n - k)
        /\ \A i \in 1..(k - 1 + (n - k)) : r[i] = IF i <= k - 1 THEN a[i] ELSE b[i - (k - 1)]
    BY <1>2, <1>4, <1>5, ConcatProperties DEF McQueues
  <2>2. k - 1 + (n - k) = n - 1
    BY <1>1, <1>3
  <2>3. ASSUME NEW i \in 1..(n - 1) PROVE r[i] = IF i < k THEN queue[i] ELSE queue[i + 1]
    <3>1. r[i] = IF i <= k - 1 THEN a[i] ELSE b[i - (k - 1)]
      BY <2>1, <2>2
    <3>2. CASE i < k
      <4>1. i \in 1..(k - 1) /\ i <= k - 1
        BY <1>3, <3>2
      <4>. QED
        BY <1>4, <3>1, <3>2, <4>1
    <3>3. CASE ~(i < k)
      <4>1. i - (k - 1) \in 1..(n - k) /\ ~(i <= k - 1) /\ k + (i - (k - 1)) = i + 1
        BY <1>1, <1>3, <3>3
      <4>. QED
        BY <1>5, <3>1, <3>3, <4>1
    <3>. QED
      BY <3>2, <3>3
  <2>. QED
    BY <2>1, <2>2, <2>3
<1>7. Distinct(r)
  <2>. SUFFICES ASSUME NEW x \in 1..(n - 1), NEW y \in 1..(n - 1), SameLeave(r[x], r[y])
                PROVE  x = y
    BY <1>6 DEF Distinct
  <2>. DEFINE at(i) == IF i < k THEN i ELSE i + 1
  <2>1. at(x) \in 1..n /\ at(y) \in 1..n /\ (at(x) = at(y) => x = y)
    BY <1>1, <1>3
  <2>2. r[x] = queue[at(x)] /\ r[y] = queue[at(y)]
    BY <1>6
  <2>. HIDE DEF at
  <2>3. at(x) = at(y)
    BY <2>1, <2>2 DEF QueueOK, Distinct, n
  <2>. QED
    BY <2>1, <2>3
<1>8. Len(r) <= MaxLeaves
  BY <1>1, <1>6
<1>. QED
  BY <1>6, <1>7, <1>8 DEF QueueOK

LEMMA QueuedFacts ==
    ASSUME QueueOK(igmpLV), NEW g, NEW p, Queued(g, p) # {}
    PROVE  FirstOf(Queued(g, p)) \in 1..Len(igmpLV)
<1>1. Queued(g, p) \in SUBSET Nat /\ Queued(g, p) \subseteq 1..Len(igmpLV)
  BY QueueFacts DEF QueueOK, Queued
<1>. QED
  BY <1>1, FirstOfNumbers

-----------------------------------------------------------------------------
(* The inductive invariant: the tables are well formed and have the ports that *)
(* they ought to have, the queue is one, and snooping that is off has nothing. *)
Routers == [age : SUBSET RouterPorts, uplist : SUBSET RouterPorts]
TablesOK == Tables \in TableSet /\ AllExact(Tables, dynamic_router.uplist)
ServiceOK ==
    /\ IGMPsnoop_enable \in BOOLEAN /\ handlers \in 0..RxSlots /\ timer \in BOOLEAN
    /\ igmpsnoop_tick \in 1..Membership /\ router_port_tick \in 1..RouterInterval
    /\ IGMPsnoop_enable => handlers # 0 /\ timer
NothingWhenOff ==
    ~IGMPsnoop_enable => igmpLV = <<>> /\ \A i \in Entries : igmpDB[i].gda = NOGROUP
IgmpInv ==
    /\ TablesOK /\ QueueOK(igmpLV) /\ dynamic_router \in Routers
    /\ ServiceOK /\ NothingWhenOff

LEMMA RouterFacts ==
    ASSUME NEW r \in Routers
    PROVE  /\ r.age \in SUBSET RouterPorts /\ r.uplist \in SUBSET RouterPorts
           /\ r.age \in SUBSET Ports /\ r.uplist \in SUBSET Ports
  BY McConstants DEF Routers

LEMMA FreeTables ==
    ASSUME NEW list \in McLists, Len(list) <= MaxNodes, NEW routers,
           NEW r, r = [db |-> [i \in Entries |-> Free], list |-> list, drift |-> {}]
    PROVE  r \in TableSet /\ AllExact(r, routers)
<1>. DEFINE db == [i \in Entries |-> Free]
<1>1. db \in [Entries -> McEntry] /\ \A i \in Entries : db[i] = Free
  BY FreeEntry
<1>. HIDE DEF db
<1>2. /\ \A i \in Entries : db[i].gda = NOGROUP /\ ~db[i].pioneer /\ db[i].uplist = {}
      /\ \A i \in Entries : db[i].age \subseteq db[i].uplist
  BY <1>1, FreeEntry
<1>3. Unique(db)
  BY <1>2 DEF Unique
<1>4. \A m : Sharing(db, m) = {}
  BY <1>2 DEF Sharing
<1>5. db \in Dbs /\ Led(db, list)
  BY <1>1, <1>3, <1>4 DEF Dbs, Led
<1>6. {} \in SUBSET Macs /\ r = [db |-> db, list |-> list, drift |-> {}]
  BY DEF db
<1>7. IsTables(r, db, list, {})
  BY <1>5, <1>6, TablesMade
<1>. QED
  BY <1>4, <1>7 DEF IsTables, AllExact, Exact

LEMMA IgmpStarts == IgmpInit => IgmpInv
<1>. SUFFICES ASSUME IgmpInit PROVE IgmpInv
  OBVIOUS
<1>1. TablesOK
  <2>1. Tables = [db |-> [i \in Entries |-> Free], list |-> <<>>, drift |-> {}]
    BY DEF Tables, IgmpInit
  <2>2. <<>> \in McLists /\ Len(<<>>) <= MaxNodes
    BY McTimeouts DEF McLists
  <2>. QED
    BY <2>1, <2>2, FreeTables DEF TablesOK
<1>2. QueueOK(igmpLV)
  BY McTimeouts DEF IgmpInit, QueueOK, McQueues, Distinct
<1>3. dynamic_router \in Routers
  BY DEF IgmpInit, Routers
<1>4. ServiceOK
  <2>1. 0 \in 0..RxSlots /\ Membership \in 1..Membership /\ RouterInterval \in 1..RouterInterval
    BY McTimeouts
  <2>2. /\ IGMPsnoop_enable = FALSE /\ handlers = 0 /\ timer = FALSE
        /\ igmpsnoop_tick = Membership /\ router_port_tick = RouterInterval
    BY DEF IgmpInit
  <2>. QED
    BY <2>1, <2>2 DEF ServiceOK
<1>5. NothingWhenOff
  BY FreeEntry DEF IgmpInit, NothingWhenOff
<1>. QED
  BY <1>1, <1>2, <1>3, <1>4, <1>5 DEF IgmpInv

LEMMA TablesSet ==
    ASSUME NEW T \in TableSet, SetTables(T)
    PROVE  Tables' = T
  BY TableFacts DEF SetTables, Tables

LEMMA ReportStep ==
    ASSUME IgmpInv, NEW v, NEW g \in Groups, NEW p \in Ports, NEW alloc \in BOOLEAN,
           Report(v, g, p, alloc)
    PROVE  IgmpInv'
<1>1. /\ IGMPsnoop_enable /\ Update(g, p, alloc) /\ UNCHANGED <<service, dynamic_router, ticks>>
      /\ alloc => Found(igmpDB, g) = {} /\ Len(mlist) < MaxNodes
      /\ igmpLV' = IF v = 2 /\ Queued(g, p) # {}
                   THEN RemoveAt(igmpLV, FirstOf(Queued(g, p))) ELSE igmpLV
  BY DEF Report
<1>2. TablesOK'
  <2>1. Tables \in TableSet /\ dynamic_router.uplist \in SUBSET Ports
        /\ AllExact(Tables, dynamic_router.uplist)
    BY RouterFacts DEF IgmpInv, TablesOK
  <2>2. KeptExact(Tables', Tables)
    BY <1>1, <2>1, UpdateFacts
  <2>3. dynamic_router' = dynamic_router
    BY <1>1
  <2>. QED
    BY <2>1, <2>2, <2>3 DEF KeptExact, TablesOK
<1>3. QueueOK(igmpLV')
  <2>1. QueueOK(igmpLV)
    BY DEF IgmpInv
  <2>2. CASE v = 2 /\ Queued(g, p) # {}
    BY <1>1, <2>1, <2>2, QueuedFacts, LeaveTakenOut
  <2>3. CASE ~(v = 2 /\ Queued(g, p) # {})
    BY <1>1, <2>1, <2>3
  <2>. QED
    BY <2>2, <2>3
<1>4. dynamic_router' \in Routers /\ ServiceOK' /\ NothingWhenOff'
  BY <1>1 DEF IgmpInv, ServiceOK, NothingWhenOff, service, ticks
<1>. QED
  BY <1>2, <1>3, <1>4 DEF IgmpInv

LEMMA LeaveStepKeeps ==
    ASSUME IgmpInv, NEW g \in Groups, NEW p \in Ports, Leave(g, p)
    PROVE  IgmpInv'
<1>1. IGMPsnoop_enable /\ UNCHANGED <<service, tables, dynamic_router, ticks>>
  BY DEF Leave
<1>2. QueueOK(igmpLV) /\ igmpLV \in McQueues
  BY DEF IgmpInv, QueueOK
<1>3. QueueOK(igmpLV')
  <2>1. CASE Queued(g, p) # {}
    <3>. DEFINE k == FirstOf(Queued(g, p))
                t == IF igmpLV[k].timeout < LeaveTimeout THEN igmpLV[k].timeout ELSE LeaveTimeout
    <3>1. k \in 1..Len(igmpLV)
      BY <1>2, <2>1, QueuedFacts
    <3>. HIDE DEF k
    <3>2. igmpLV' = [igmpLV EXCEPT ![k].timeout = t]
      BY <2>1 DEF Leave, k
    <3>3. igmpLV[k] \in McLeave /\ igmpLV \in [1..Len(igmpLV) -> McLeave]
      BY <1>2, <3>1, QueueFacts
    <3>4. t \in 0..MaxTimeout
      BY <3>3, McTimeouts DEF McLeave
    <3>. HIDE DEF t
    <3>5. [igmpLV[k] EXCEPT !.timeout = t] \in McLeave
          /\ SameLeave([igmpLV[k] EXCEPT !.timeout = t], igmpLV[k])
      BY <3>3, <3>4 DEF McLeave, SameLeave
    <3>6. /\ igmpLV' \in [1..Len(igmpLV) -> McLeave]
          /\ \A n \in 1..Len(igmpLV) : SameLeave(igmpLV'[n], igmpLV[n])
      BY <3>1, <3>2, <3>3, <3>5 DEF SameLeave
    <3>. QED
      BY <1>2, <3>6, QueueRetimed
  <2>2. CASE Queued(g, p) = {}
    <3>. DEFINE l == [gda |-> g, uport |-> p, timeout |-> LeaveTimeout]
    <3>1. Len(igmpLV) < MaxLeaves /\ igmpLV' = <<l>> \o igmpLV
      BY <2>2 DEF Leave
    <3>2. l \in McLeave
      BY McTimeouts DEF McLeave
    <3>3. \A n \in 1..Len(igmpLV) : ~SameLeave(igmpLV[n], l)
      BY <1>2, <2>2, QueueFacts DEF Queued, SameLeave
    <3>. HIDE DEF l
    <3>. QED
      BY <1>2, <3>1, <3>2, <3>3, LeaveInFront
  <2>. QED
    BY <2>1, <2>2
<1>4. TablesOK'
  <2>1. Tables' = Tables /\ dynamic_router' = dynamic_router
    BY <1>1 DEF tables, Tables
  <2>. QED
    BY <2>1 DEF IgmpInv, TablesOK
<1>5. dynamic_router' \in Routers /\ ServiceOK' /\ NothingWhenOff'
  BY <1>1 DEF IgmpInv, ServiceOK, NothingWhenOff, service, ticks
<1>. QED
  BY <1>3, <1>4, <1>5 DEF IgmpInv

LEMMA QueryStep ==
    ASSUME IgmpInv, NEW g \in Groups \cup {NOGROUP}, NEW p \in RouterPorts, Query(g, p)
    PROVE  IgmpInv'
<1>. DEFINE r == [age |-> dynamic_router.age \cup {p}, uplist |-> dynamic_router.uplist \cup {p}]
<1>1. /\ IGMPsnoop_enable /\ UNCHANGED <<service, ticks>> /\ dynamic_router' = r
      /\ SetTables(IF p \in dynamic_router.uplist THEN Tables
                   ELSE Recalculated(Tables, dynamic_router'.uplist))
  BY DEF Query
<1>2. Tables \in TableSet /\ AllExact(Tables, dynamic_router.uplist) /\ dynamic_router \in Routers
  BY DEF IgmpInv, TablesOK
<1>3. r \in Routers /\ r.uplist = dynamic_router.uplist \cup {p} /\ r.uplist \in SUBSET Ports
  BY <1>2, RouterFacts, McConstants DEF Routers
<1>. HIDE DEF r
<1>4. TablesOK'
  <2>1. CASE p \in dynamic_router.uplist
    <3>1. Tables' = Tables
      BY <1>1, <1>2, <2>1, TablesSet
    <3>2. dynamic_router'.uplist = dynamic_router.uplist
      BY <1>1, <1>3, <2>1
    <3>. QED
      BY <1>2, <3>1, <3>2 DEF TablesOK
  <2>2. CASE p \notin dynamic_router.uplist
    <3>. DEFINE U == Recalculated(Tables, r.uplist)
    <3>1. U \in TableSet /\ AllExact(U, r.uplist)
      BY <1>2, <1>3, RecalculatedFacts
    <3>2. SetTables(U)
      BY <1>1, <2>2
    <3>. HIDE DEF U
    <3>3. Tables' = U
      BY <3>1, <3>2, TablesSet
    <3>. QED
      BY <1>1, <3>1, <3>3 DEF TablesOK
  <2>. QED
    BY <2>1, <2>2
<1>5. QueueOK(igmpLV')
  <2>1. QueueOK(igmpLV) /\ igmpLV \in [1..Len(igmpLV) -> McLeave] /\ DOMAIN igmpLV = 1..Len(igmpLV)
    BY QueueFacts DEF IgmpInv, QueueOK
  <2>. DEFINE later(l) == [l EXCEPT !.timeout = LeaveTimeout]
  <2>2. \A l \in McLeave : later(l) \in McLeave /\ SameLeave(later(l), l) /\ SameLeave(l, l)
    BY McTimeouts DEF McLeave, SameLeave
  <2>3. igmpLV' = [n \in DOMAIN igmpLV |->
                      IF igmpLV[n].gda = g THEN later(igmpLV[n]) ELSE igmpLV[n]]
    BY DEF Query
  <2>. HIDE DEF later
  <2>4. /\ igmpLV' \in [1..Len(igmpLV) -> McLeave]
        /\ \A n \in 1..Len(igmpLV) : SameLeave(igmpLV'[n], igmpLV[n])
    BY <2>1, <2>2, <2>3
  <2>. QED
    BY <2>1, <2>4, QueueRetimed
<1>6. dynamic_router' \in Routers /\ ServiceOK' /\ NothingWhenOff'
  BY <1>1, <1>3 DEF IgmpInv, ServiceOK, NothingWhenOff, service, ticks
<1>. QED
  BY <1>4, <1>5, <1>6 DEF IgmpInv

LEMMA DownFacts ==
    ASSUME NEW n \in Nat \ {0}, NEW tick \in 1..n
    PROVE  Down(tick, n) \in 1..n
  BY DEF Down

LEMMA OneSecStep ==
    ASSUME IgmpInv, OneSec
    PROVE  IgmpInv'
<1>. DEFINE R == dynamic_router.uplist
            Rn == dynamic_router'.uplist
            walk == Leaves
            routed == IF router_port_tick = 1 THEN Recalculated(walk.T, Rn) ELSE walk.T
            U == IF igmpsnoop_tick = 1 THEN AgeTables(routed, Rn) ELSE routed
<1>1. /\ timer /\ IGMPsnoop_enable /\ UNCHANGED service
      /\ router_port_tick' = Down(router_port_tick, RouterInterval)
      /\ igmpsnoop_tick' = Down(igmpsnoop_tick, Membership)
      /\ dynamic_router' = IF router_port_tick = 1 THEN RoutersAged(dynamic_router) ELSE dynamic_router
      /\ igmpLV' = walk.queue /\ SetTables(U)
  BY DEF OneSec, Second
<1>2. /\ Tables \in TableSet /\ AllExact(Tables, R) /\ dynamic_router \in Routers /\ QueueOK(igmpLV)
      /\ igmpLV \in McQueues /\ Distinct(igmpLV) /\ R \in SUBSET Ports
  BY RouterFacts DEF IgmpInv, TablesOK, QueueOK
<1>3. dynamic_router' \in Routers
  BY <1>1, <1>2 DEF Routers, RoutersAged
<1>4. Rn \in SUBSET Ports
  BY <1>3, RouterFacts
<1>. HIDE DEF Rn
<1>5. KeptExact(walk.T, Tables) /\ LeavesFrom(walk.queue, Len(igmpLV))
  BY <1>2, LeavesFacts
<1>. HIDE DEF walk
<1>6. walk.T \in TableSet /\ AllExact(walk.T, R)
  BY <1>2, <1>5 DEF KeptExact
<1>7. routed \in TableSet /\ AllExact(routed, Rn)
  <2>1. CASE router_port_tick = 1
    BY <1>4, <1>6, <2>1, RecalculatedFacts
  <2>2. CASE router_port_tick # 1
    BY <1>1, <1>6, <2>2 DEF Rn
  <2>. QED
    BY <2>1, <2>2
<1>. HIDE DEF routed
<1>8. U \in TableSet /\ AllExact(U, Rn)
  BY <1>4, <1>7, AgeTablesFacts
<1>. HIDE DEF U
<1>9. TablesOK'
  <2>1. Tables' = U
    BY <1>1, <1>8, TablesSet
  <2>. QED
    BY <1>8, <2>1 DEF TablesOK, Rn
<1>10. QueueOK(igmpLV')
  <2>1. walk.queue \in McQueues /\ Len(walk.queue) <= Len(igmpLV) /\ Distinct(walk.queue)
    BY <1>5 DEF LeavesFrom
  <2>2. Len(walk.queue) \in Nat /\ Len(igmpLV) \in Nat /\ MaxLeaves \in Nat
    BY <1>2, <2>1, QueueFacts, McTimeouts
  <2>. QED
    BY <1>1, <1>2, <2>1, <2>2 DEF QueueOK
<1>11. ServiceOK' /\ NothingWhenOff'
  <2>1. router_port_tick' \in 1..RouterInterval /\ igmpsnoop_tick' \in 1..Membership
    BY <1>1, DownFacts, McTimeouts DEF IgmpInv, ServiceOK
  <2>. QED
    BY <1>1, <2>1 DEF IgmpInv, ServiceOK, NothingWhenOff, service
<1>. QED
  BY <1>3, <1>9, <1>10, <1>11 DEF IgmpInv

LEMMA DatabaseInitFacts ==
    ASSUME TablesOK, DatabaseInit
    PROVE  TablesOK' /\ QueueOK(igmpLV') /\ dynamic_router' \in Routers /\ NothingWhenOff'
<1>1. /\ Tables \in TableSet /\ igmpDB \in Dbs /\ mlist \in McLists /\ Len(mlist) <= MaxNodes
  BY TableFacts DEF TablesOK, Tables
<1>2. mlist' \in McLists /\ Len(mlist') <= MaxNodes
  <2>1. mlist' \in McLists /\ Len(mlist') <= Len(mlist)
    BY <1>1, EmptiedFacts DEF DatabaseInit
  <2>2. Len(mlist') \in Nat /\ Len(mlist) \in Nat /\ MaxNodes \in Nat
    BY <1>1, <2>1, McListFacts, McTimeouts
  <2>. QED
    BY <1>1, <2>1, <2>2
<1>3. Tables' = [db |-> [i \in Entries |-> Free], list |-> mlist', drift |-> {}]
  BY DEF Tables, DatabaseInit
<1>4. TablesOK'
  BY <1>2, <1>3, FreeTables DEF TablesOK
<1>5. QueueOK(igmpLV')
  BY McTimeouts DEF DatabaseInit, QueueOK, McQueues, Distinct
<1>6. dynamic_router' \in Routers
  BY DEF DatabaseInit, Routers
<1>7. NothingWhenOff'
  BY FreeEntry DEF DatabaseInit, NothingWhenOff
<1>. QED
  BY <1>4, <1>5, <1>6, <1>7

LEMMA EnableStep ==
    ASSUME IgmpInv, NEW rx \in BOOLEAN, NEW add \in BOOLEAN, NEW board \in BOOLEAN,
           Enable(rx, add, board)
    PROVE  IgmpInv'
<1>1. /\ ~IGMPsnoop_enable /\ (rx => handlers < RxSlots)
      /\ handlers' = IF rx THEN handlers + 1 ELSE handlers
      /\ timer' = (timer \/ (rx /\ add))
      /\ IF rx /\ add
         THEN igmpsnoop_tick' = Membership /\ router_port_tick' = RouterInterval
         ELSE UNCHANGED ticks
      /\ IGMPsnoop_enable' = Succeeded(rx, add, board)
      /\ UNCHANGED <<igmpLV, dynamic_router, tables>>
  BY DEF Enable
<1>2. TablesOK' /\ QueueOK(igmpLV') /\ dynamic_router' \in Routers /\ NothingWhenOff'
  <2>1. Tables' = Tables /\ dynamic_router' = dynamic_router /\ igmpLV' = igmpLV /\ igmpDB' = igmpDB
    BY <1>1 DEF tables, Tables
  <2>2. igmpLV = <<>> /\ \A i \in Entries : igmpDB[i].gda = NOGROUP
    BY <1>1 DEF IgmpInv, NothingWhenOff
  <2>. QED
    BY <2>1, <2>2 DEF IgmpInv, TablesOK, NothingWhenOff
<1>3. ServiceOK'
  <2>1. igmpsnoop_tick' \in 1..Membership /\ router_port_tick' \in 1..RouterInterval
    <3>1. CASE rx /\ add
      BY <1>1, <3>1, McTimeouts
    <3>2. CASE ~(rx /\ add)
      BY <1>1, <3>2 DEF IgmpInv, ServiceOK, ticks
    <3>. QED
      BY <3>1, <3>2
  <2>2. handlers' \in 0..RxSlots /\ (rx => handlers' # 0)
    BY <1>1, McTimeouts DEF IgmpInv, ServiceOK
  <2>3. IGMPsnoop_enable' \in BOOLEAN /\ (IGMPsnoop_enable' => rx /\ add)
    BY <1>1 DEF Succeeded
  <2>4. timer' \in BOOLEAN /\ (rx /\ add => timer')
    BY <1>1 DEF IgmpInv, ServiceOK
  <2>. QED
    BY <2>1, <2>2, <2>3, <2>4 DEF ServiceOK
<1>. QED
  BY <1>2, <1>3 DEF IgmpInv

LEMMA DisableStep == IgmpInv /\ Disable => IgmpInv'
<1>. SUFFICES ASSUME IgmpInv, Disable PROVE IgmpInv'
  OBVIOUS
<1>1. TablesOK' /\ QueueOK(igmpLV') /\ dynamic_router' \in Routers /\ NothingWhenOff'
  BY DatabaseInitFacts DEF IgmpInv, Disable
<1>2. ServiceOK'
  <2>1. handlers' \in 0..RxSlots
    BY McTimeouts DEF IgmpInv, ServiceOK, Disable
  <2>2. /\ IGMPsnoop_enable' = FALSE /\ timer' = FALSE
        /\ igmpsnoop_tick' \in 1..Membership /\ router_port_tick' \in 1..RouterInterval
    BY DEF IgmpInv, ServiceOK, Disable, ticks
  <2>. QED
    BY <2>1, <2>2 DEF ServiceOK
<1>. QED
  BY <1>1, <1>2 DEF IgmpInv

LEMMA ChangeVlanStep == IgmpInv /\ ChangeVlan => IgmpInv'
<1>. SUFFICES ASSUME IgmpInv, ChangeVlan PROVE IgmpInv'
  OBVIOUS
<1>1. TablesOK' /\ QueueOK(igmpLV') /\ dynamic_router' \in Routers /\ NothingWhenOff'
  BY DatabaseInitFacts DEF IgmpInv, ChangeVlan
<1>2. ServiceOK'
  BY DEF IgmpInv, ServiceOK, ChangeVlan, service, ticks
<1>. QED
  BY <1>1, <1>2 DEF IgmpInv

LEMMA IgmpStep == IgmpInv /\ [IgmpNext]_igmpVars => IgmpInv'
<1>. SUFFICES ASSUME IgmpInv, [IgmpNext]_igmpVars PROVE IgmpInv'
  OBVIOUS
<1>1. ASSUME NEW g \in Groups, NEW alloc \in BOOLEAN, NEW p \in Ports, Report(1, g, p, alloc)
      PROVE  IgmpInv'
  BY <1>1, ReportStep
<1>2. ASSUME NEW g \in Groups, NEW alloc \in BOOLEAN, NEW p \in V2Ports, Report(2, g, p, alloc)
      PROVE  IgmpInv'
  BY <1>2, ReportStep, McConstants
<1>3. ASSUME NEW g \in Groups, NEW p \in V2Ports, Leave(g, p) PROVE IgmpInv'
  BY <1>3, LeaveStepKeeps, McConstants
<1>4. ASSUME NEW g \in Groups \cup {NOGROUP}, NEW p \in RouterPorts, Query(g, p) PROVE IgmpInv'
  BY <1>4, QueryStep
<1>5. CASE OneSec
  BY <1>5, OneSecStep
<1>6. ASSUME NEW rx \in BOOLEAN, NEW add \in BOOLEAN, NEW board \in BOOLEAN, Enable(rx, add, board)
      PROVE  IgmpInv'
  BY <1>6, EnableStep
<1>7. CASE Disable
  BY <1>7, DisableStep
<1>8. CASE ChangeVlan
  BY <1>8, ChangeVlanStep
<1>9. CASE UNCHANGED igmpVars
  <2>1. UNCHANGED <<IGMPsnoop_enable, handlers, timer, igmpDB, igmpLV, dynamic_router>>
        /\ UNCHANGED <<igmpsnoop_tick, router_port_tick, mlist, drifted>>
    BY <1>9 DEF igmpVars, service, ticks
  <2>2. Tables' = Tables
    BY <2>1 DEF Tables
  <2>. QED
    BY <2>1, <2>2 DEF IgmpInv, TablesOK, ServiceOK, NothingWhenOff
<1>. QED
  BY <1>1, <1>2, <1>3, <1>4, <1>5, <1>6, <1>7, <1>8, <1>9 DEF IgmpNext

LEMMA IgmpInvariant == IgmpSpec => []IgmpInv
  BY IgmpStarts, IgmpStep, PTL DEF IgmpSpec

LEMMA AtMostOne ==
    ASSUME NEW S, \A x, y \in S : x = y
    PROVE  Cardinality(S) \in Nat /\ Cardinality(S) <= 1 /\ (S # {} => Cardinality(S) = 1)
<1>1. CASE S = {}
  BY <1>1, FS_EmptySet
<1>2. CASE S # {}
  <2>1. PICK x : S = {x}
    BY <1>2
  <2>. QED
    BY <2>1, FS_Singleton
<1>. QED
  BY <1>1, <1>2

LEMMA IgmpInvTypes == IgmpInv => IgmpTypeOK
<1>. SUFFICES ASSUME IgmpInv PROVE IgmpTypeOK
  OBVIOUS
<1>1. /\ Tables \in TableSet /\ QueueOK(igmpLV) /\ igmpLV \in McQueues
      /\ igmpDB \in Dbs /\ mlist \in McLists /\ drifted \in SUBSET Macs /\ Len(mlist) <= MaxNodes
  BY TableFacts DEF IgmpInv, TablesOK, QueueOK, Tables
<1>2. \A i \in Entries : igmpDB[i] \in [gda : Groups \cup {NOGROUP}, pioneer : BOOLEAN,
                                        age : SUBSET Ports, uplist : SUBSET Ports]
  BY <1>1, DbFacts DEF McEntry
<1>3. ASSUME NEW g \in Groups PROVE Cardinality(Found(igmpDB, g)) <= 1
  <2>1. \A i, j \in Found(igmpDB, g) : i = j
    <3>1. g # NOGROUP /\ Unique(igmpDB)
      BY <1>1, DbFacts, McConstants
    <3>. QED
      BY <3>1 DEF Found, Unique
  <2>. QED
    BY <2>1, AtMostOne
<1>4. ASSUME NEW g \in Groups, NEW p \in Ports PROVE Cardinality(Queued(g, p)) <= 1
  <2>1. \A x, y \in Queued(g, p) : x = y
    BY <1>1, QueueFacts DEF Queued, QueueOK, Distinct, SameLeave
  <2>. QED
    BY <2>1, AtMostOne
<1>5. /\ Len(igmpLV) <= MaxLeaves
      /\ \A n \in DOMAIN igmpLV :
            igmpLV[n] \in [gda : Groups, uport : Ports, timeout : 0..MaxTimeout]
  BY <1>1, QueueFacts DEF QueueOK, McLeave
<1>6. \A n \in DOMAIN mlist : mlist[n] \in [mac : Macs, ports : SUBSET Ports]
  BY <1>1, McListFacts DEF McNode
<1>7. /\ IGMPsnoop_enable \in BOOLEAN /\ handlers \in 0..RxSlots /\ timer \in BOOLEAN
      /\ igmpsnoop_tick \in 1..Membership /\ router_port_tick \in 1..RouterInterval
      /\ dynamic_router \in [age : SUBSET RouterPorts, uplist : SUBSET RouterPorts]
  BY DEF IgmpInv, ServiceOK, Routers
<1>. QED
  BY <1>1, <1>2, <1>3, <1>4, <1>5, <1>6, <1>7 DEF IgmpTypeOK

LEMMA IgmpInvOnePioneer == IgmpInv => OnePioneer
<1>. SUFFICES ASSUME IgmpInv PROVE OnePioneer
  OBVIOUS
<1>1. igmpDB \in Dbs /\ mlist \in McLists /\ Led(igmpDB, mlist)
  BY TableFacts DEF IgmpInv, TablesOK, Tables
<1>2. ASSUME NEW m \in Macs, Sharing(igmpDB, m) # {}
      PROVE  /\ Cardinality(Sharing(igmpDB, m) \cap Pioneers(igmpDB)) = 1
             /\ Nodes(mlist, m) # {}
  <2>. DEFINE S == Sharing(igmpDB, m) \cap Pioneers(igmpDB)
  <2>1. m \in MacsIn(mlist) /\ \E i \in Sharing(igmpDB, m) : igmpDB[i].pioneer
    BY <1>1, <1>2 DEF Led
  <2>2. S # {}
    BY <1>1, <2>1, DbFacts DEF Pioneers
  <2>3. \A i, j \in S : i = j
    <3>1. \A x, y \in Entries :
             igmpDB[x].pioneer /\ igmpDB[y].pioneer /\ igmpDB[x].gda # NOGROUP
             /\ igmpDB[y].gda # NOGROUP /\ MacOf(igmpDB, x) = MacOf(igmpDB, y) => x = y
      BY <1>1, DbFacts, Zenon DEF Unique
    <3>2. \A i \in S : i \in Entries /\ igmpDB[i].pioneer /\ igmpDB[i].gda # NOGROUP
                       /\ MacOf(igmpDB, i) = m
      BY <1>1, DbFacts DEF Pioneers
    <3>. HIDE DEF S
    <3>. QED
      BY <3>1, <3>2
  <2>. HIDE DEF S
  <2>4. Cardinality(S) = 1
    BY <2>2, <2>3, AtMostOne
  <2>. QED
    BY <1>1, <2>1, <2>4, McListFacts DEF S
<1>. QED
  BY <1>2, IgmpInvTypes DEF OnePioneer

LEMMA IgmpInvForwards == IgmpInv => ForwardsMembers
<1>. SUFFICES ASSUME IgmpInv PROVE ForwardsMembers
  OBVIOUS
<1>1. Tables.db = igmpDB /\ Tables.list = mlist /\ Tables.drift = drifted
  BY DEF Tables
<1>. QED
  BY <1>1 DEF IgmpInv, TablesOK, AllExact, Exact, ForwardsMembers

LEMMA IgmpInvServed == IgmpInv => Served
  BY DEF IgmpInv, ServiceOK, NothingWhenOff, Served, Found

(* igmpDB and IPMCuplist: of the groups that share a MAC address exactly one   *)
(* is the pioneer, no group has two entries and no port two leaves for a       *)
(* group, through joins, leaves, ageing and take-overs.                        *)
THEOREM OnePioneerCorrect == IgmpSpec => []OnePioneer
  BY IgmpInvariant, IgmpInvOnePioneer, PTL

(* L2MCportbmp_*: outside of the addresses that may have drifted the multicast *)
(* goes to the ports of the members and of the routers and to no others, after *)
(* any reports, leaves, queries and seconds in any order.                      *)
THEOREM ForwardsMembersCorrect == IgmpSpec => []ForwardsMembers
  BY IgmpInvariant, IgmpInvForwards, PTL

(* igmpsnoop_enable_set: snooping that is on has its handler and its timer,    *)
(* and off it has no members and no leaves, whichever call failed before.      *)
THEOREM ServedCorrect == IgmpSpec => []Served
  BY IgmpInvariant, IgmpInvServed, PTL

-----------------------------------------------------------------------------
(* Saved settings.                                                             *)
USE SettingsAssumption

(* The items, serializer by serializer: FoldLeft unfolded.                    *)
Steps(g, list, n, covered, a, from) ==
    /\ g[0] = list /\ g[n] = Saved(list, n, covered, a, from)
    /\ \A k \in 1..n : g[k] = ItemSaved(g[k - 1], k, k \in covered, k >= a, from)

LEMMA SavedSteps ==
    ASSUME NEW list, NEW n \in Nat, NEW covered, NEW a, NEW from
    PROVE  \E g : Steps(g, list, n, covered, a, from)
<1>. DEFINE Op(l, k) == ItemSaved(l, k, k \in covered, k >= a, from)
            seq == [i \in 1..n |-> i]
            IsIter(m, f) == f = [s \in SUBSET (1..m) |->
                                    IF s = {} THEN list ELSE Op(f[s \ {Max(s)}], seq[Max(s)])]
<1>1. Saved(list, n, covered, a, from) = (CHOOSE f : IsIter(n, f))[1..n]
  <2>1. DOMAIN seq = 1..n
    OBVIOUS
  <2>. QED
    BY <2>1 DEF Saved, FoldLeft, MapThenFoldSet
<1>2. \A k \in 1..n : seq[k] = k
  OBVIOUS
<1>. HIDE DEF Op, seq
<1>3. \E f : IsIter(0, f)
  <2>1. IsIter(0, [s \in SUBSET (1..0) |-> list])
    OBVIOUS
  <2>. QED
    BY <2>1
<1>4. ASSUME NEW m \in 1..n, \E f : IsIter(m - 1, f) PROVE \E f : IsIter(m, f)
  <2>1. PICK f : IsIter(m - 1, f)
    BY <1>4
  <2>. DEFINE g == [s \in SUBSET (1..m) |-> IF m \in s THEN Op(f[s \ {m}], m) ELSE f[s]]
  <2>2. ASSUME NEW s \in SUBSET (1..m)
        PROVE  g[s] = IF s = {} THEN list ELSE Op(g[s \ {Max(s)}], seq[Max(s)])
    <3>1. CASE m \in s
      <4>1. Max(s) = m /\ seq[m] = m /\ s # {}
        BY <1>2, <3>1, LastOfInterval
      <4>2. s \ {m} \in SUBSET (1..m) /\ m \notin s \ {m}
        OBVIOUS
      <4>3. g[s \ {m}] = f[s \ {m}]
        BY <4>2
      <4>4. g[s] = Op(f[s \ {m}], m)
        BY <3>1
      <4>. HIDE DEF g
      <4>. QED
        BY <4>1, <4>3, <4>4
    <3>2. CASE m \notin s
      <4>0. m \in Nat \ {0} /\ (1..m) \ {m} = 1..(m - 1)
        BY LastOfInterval
      <4>1. s \in SUBSET (1..(m - 1)) /\ s \ {Max(s)} \in SUBSET (1..m) /\ m \notin s \ {Max(s)}
        BY <3>2, <4>0, Zenon
      <4>2. g[s] = f[s] /\ g[s \ {Max(s)}] = f[s \ {Max(s)}]
        BY <3>2, <4>1
      <4>. HIDE DEF g
      <4>3. f[s] = IF s = {} THEN list ELSE Op(f[s \ {Max(s)}], seq[Max(s)])
        BY <2>1, <4>1
      <4>. QED
        BY <4>2, <4>3
    <3>. QED
      BY <3>1, <3>2
  <2>3. g = [s \in SUBSET (1..m) |-> g[s]]
    OBVIOUS
  <2>. HIDE DEF g
  <2>4. IsIter(m, g)
    BY <2>2, <2>3
  <2>. QED
    BY <2>4
<1>5. \E f : IsIter(n, f)
  <2>. HIDE DEF IsIter
  <2>. DEFINE None == {m \in 0..n : ~(\E f : IsIter(m, f))}
  <2>0. n \in 0..n /\ None \in SUBSET Nat
    OBVIOUS
  <2>. SUFFICES ASSUME None # {} PROVE FALSE
    BY <2>0
  <2>1. PICK m \in None : \A j \in None : m <= j
    <3>. HIDE DEF None
    <3>. QED
      BY <2>0, LeastNumber
  <2>2. m \in 1..n /\ m - 1 \in 0..n /\ ~(m <= m - 1)
    BY <1>3, <2>1
  <2>3. \E f : IsIter(m - 1, f)
    BY <2>1, <2>2
  <2>. QED
    BY <1>4, <2>1, <2>2, <2>3
<1>6. PICK f : IsIter(n, f) /\ Saved(list, n, covered, a, from) = f[1..n]
  BY <1>1, <1>5
<1>. DEFINE g == [k \in 0..n |-> f[1..k]]
<1>7. g[0] = list /\ g[n] = f[1..n]
  <2>1. 1..0 = {} /\ 1..0 \in SUBSET (1..n)
    OBVIOUS
  <2>2. f[{}] = list
    BY <1>6, <2>1
  <2>. QED
    BY <2>1, <2>2
<1>8. ASSUME NEW k \in 1..n PROVE g[k] = Op(g[k - 1], k)
  <2>1. /\ 1..k \in SUBSET (1..n) /\ 1..k # {} /\ Max(1..k) = k /\ (1..k) \ {k} = 1..(k - 1)
    <3>1. k \in Nat \ {0} /\ 1..k \in SUBSET (1..n) /\ 1..k \in SUBSET (1..k)
      OBVIOUS
    <3>2. 1..k # {} /\ k \in 1..k /\ (1..k) \ {k} = 1..(k - 1)
      BY <3>1, LastOfInterval
    <3>3. Max(1..k) = k
      BY <3>1, <3>2, LastOfInterval, Zenon
    <3>. QED
      BY <3>1, <3>2, <3>3
  <2>2. f[1..k] = Op(f[(1..k) \ {Max(1..k)}], seq[Max(1..k)])
    BY <1>6, <2>1
  <2>3. f[1..k] = Op(f[1..(k - 1)], k)
    BY <1>2, <2>1, <2>2
  <2>. QED
    BY <2>3
<1>. HIDE DEF g
<1>. QED
  BY <1>6, <1>7, <1>8 DEF Op, Steps


-----------------------------------------------------------------------------
(* Lists of items.  From is what the serializers take the settings from.      *)
Settable == [Serializers -> Values \cup {INITIAL}]
OneOfEach(l) == \A i, j \in DOMAIN l : l[i].name = l[j].name => i = j
Items == {l \in Seq(ItemType) : OneOfEach(l)}

LEMMA ItemsFacts ==
    ASSUME NEW l \in Items
    PROVE  /\ l \in Seq(ItemType) /\ OneOfEach(l) /\ Len(l) \in Nat /\ DOMAIN l = 1..Len(l)
           /\ \A i \in DOMAIN l :
                 /\ l[i] \in ItemType /\ l[i].name \in Serializers
                 /\ l[i].data \in Values \cup {STUB, INITIAL}
<1>1. l \in Seq(ItemType) /\ OneOfEach(l)
  BY DEF Items
<1>2. Len(l) \in Nat /\ DOMAIN l = 1..Len(l) /\ \A i \in DOMAIN l : l[i] \in ItemType
  BY <1>1, LenProperties, ElementOfSeq
<1>. QED
  BY <1>1, <1>2 DEF ItemType

LEMMA PositionFacts ==
    ASSUME NEW l \in Items, NEW s
    PROVE  \/ Position(l, s) \in DOMAIN l /\ l[Position(l, s)].name = s
           \/ /\ Position(l, s) = Len(l) + 1 /\ Position(l, s) \notin DOMAIN l
              /\ \A i \in DOMAIN l : l[i].name # s
<1>1. CASE \E i \in DOMAIN l : l[i].name = s
  BY <1>1 DEF Position
<1>2. CASE \A i \in DOMAIN l : l[i].name # s
  <2>1. Position(l, s) = Len(l) + 1
    BY <1>2 DEF Position
  <2>2. Len(l) + 1 \notin DOMAIN l
    BY ItemsFacts
  <2>. QED
    BY <1>2, <2>1, <2>2
<1>. QED
  BY <1>1, <1>2

LEMMA ItemIsItem ==
    ASSUME fw \in Firmwares, NEW s \in Serializers, NEW d \in Values \cup {STUB, INITIAL}
    PROVE  /\ Item(s, d) \in ItemType /\ Item(s, d).name = s /\ Item(s, d).data = d
           /\ Item(s, d).version = Version[fw][s]
<1>1. Version[fw][s] \in Nat
  OBVIOUS
<1>. QED
  BY <1>1 DEF Item, ItemType

(* An item is overwritten, replaced or appended, or the list ends before it.  *)
LEMMA Overwritten ==
    ASSUME NEW l \in Items, NEW at \in DOMAIN l, NEW e \in ItemType, e.name = l[at].name
    PROVE  /\ [l EXCEPT ![at] = e] \in Items /\ DOMAIN [l EXCEPT ![at] = e] = DOMAIN l
           /\ \A i \in DOMAIN l : [l EXCEPT ![at] = e][i] = IF i = at THEN e ELSE l[i]
<1>. DEFINE u == [l EXCEPT ![at] = e]
<1>1. l \in Seq(ItemType) /\ at \in 1..Len(l) /\ OneOfEach(l)
  BY ItemsFacts
<1>2. u \in Seq(ItemType) /\ DOMAIN u = DOMAIN l
  BY <1>1, ExceptSeq
<1>3. \A i \in DOMAIN l : u[i] = IF i = at THEN e ELSE l[i]
  OBVIOUS
<1>. HIDE DEF u
<1>4. OneOfEach(u)
  BY <1>1, <1>2, <1>3 DEF OneOfEach
<1>. QED
  BY <1>2, <1>3, <1>4 DEF u, Items

LEMMA Appended ==
    ASSUME NEW l \in Items, NEW e \in ItemType, \A i \in DOMAIN l : l[i].name # e.name
    PROVE  /\ Append(l, e) \in Items /\ DOMAIN Append(l, e) = DOMAIN l \cup {Len(l) + 1}
           /\ \A i \in DOMAIN l : Append(l, e)[i] = l[i]
           /\ Append(l, e)[Len(l) + 1] = e
<1>. DEFINE u == Append(l, e)
            n == Len(l)
<1>1. l \in Seq(ItemType) /\ OneOfEach(l) /\ n \in Nat /\ DOMAIN l = 1..n
  BY ItemsFacts
<1>2. /\ u \in Seq(ItemType) /\ Len(u) = n + 1 /\ u[n + 1] = e
      /\ \A i \in 1..n : u[i] = l[i]
  BY <1>1, AppendProperties
<1>. HIDE DEF u, n
<1>3. DOMAIN u = 1..(n + 1)
  BY <1>2, LenProperties
<1>4. 1..(n + 1) = 1..n \cup {n + 1}
  BY <1>1
<1>5. OneOfEach(u)
  BY <1>1, <1>2, <1>3, <1>4 DEF OneOfEach
<1>. QED
  BY <1>1, <1>2, <1>3, <1>4, <1>5 DEF u, n, Items

LEMMA CutOff ==
    ASSUME NEW l \in Items, NEW at \in 1..(Len(l) + 1)
    PROVE  SubSeq(l, 1, at - 1) \in Items
<1>. DEFINE u == SubSeq(l, 1, at - 1)
<1>1. l \in Seq(ItemType) /\ OneOfEach(l) /\ Len(l) \in Nat /\ DOMAIN l = 1..Len(l)
  BY ItemsFacts
<1>2. 1 \in 1..(Len(l) + 1) /\ at - 1 \in 0..Len(l) /\ at - 1 \in 1 - 1..Len(l)
  BY <1>1
<1>3. /\ u \in Seq(ItemType) /\ DOMAIN u = 1..(at - 1)
      /\ \A i \in 1..(at - 1) : u[i] = l[i]
  <2>1. at - 1 \in Nat /\ \A i \in 1..(at - 1) : i \in DOMAIN l
    BY <1>1, <1>2
  <2>2. u = [i \in 1..(at - 1) |-> l[i]]
    BY <1>1, <2>1
  <2>3. \A i \in 1..(at - 1) : l[i] \in ItemType
    BY <2>1, ItemsFacts
  <2>. HIDE DEF u
  <2>4. u \in [1..(at - 1) -> ItemType]
    BY <2>2, <2>3
  <2>. QED
    BY <2>1, <2>2, <2>4, SeqDef
<1>4. \A i \in 1..(at - 1) : i \in DOMAIN l
  BY <1>1, <1>2
<1>. HIDE DEF u
<1>5. OneOfEach(u)
  BY <1>1, <1>3, <1>4 DEF OneOfEach
<1>. QED
  BY <1>3, <1>5 DEF u, Items

(* What ItemSaved makes of the list.                                          *)
SavedCase(r, l, s, at, d, save, alloc) ==
    \/ /\ at \in DOMAIN l /\ l[at].version = Version[fw][s] /\ (~save \/ l[at].data = STUB)
       /\ r = l
    \/ /\ at \in DOMAIN l /\ l[at].version = Version[fw][s] /\ save /\ l[at].data # STUB
       /\ r = [l EXCEPT ![at] = [l[at] EXCEPT !.data = d]]
    \/ ~alloc /\ r = SubSeq(l, 1, at - 1)
    \/ /\ at \in DOMAIN l /\ alloc /\ l[at].version # Version[fw][s]
       /\ r = [l EXCEPT ![at] = Item(s, d)]
    \/ at \notin DOMAIN l /\ alloc /\ r = Append(l, Item(s, d))

LEMMA ItemSavedCases ==
    ASSUME NEW l, NEW s, NEW save \in BOOLEAN, NEW alloc \in BOOLEAN, NEW from
    PROVE  SavedCase(ItemSaved(l, s, save, alloc, from), l, s, Position(l, s),
                     IF save THEN from[s] ELSE STUB, save, alloc)
<1>. DEFINE at == Position(l, s)
            d == IF save THEN from[s] ELSE STUB
            r == ItemSaved(l, s, save, alloc, from)
            here == at \in DOMAIN l /\ l[at].version = Version[fw][s]
            over == [l EXCEPT ![at] = [l[at] EXCEPT !.data = d]]
<1>1. r = CASE here -> IF save /\ l[at].data # STUB THEN over ELSE l
            [] ~here /\ ~alloc -> SubSeq(l, 1, at - 1)
            [] ~here /\ alloc /\ at \in DOMAIN l -> [l EXCEPT ![at] = Item(s, d)]
            [] OTHER -> Append(l, Item(s, d))
  BY DEF ItemSaved
<1>. SUFFICES SavedCase(r, l, s, at, d, save, alloc)
  OBVIOUS
<1>. HIDE DEF at, d, r, over
<1>2. CASE here
  <2>1. r = IF save /\ l[at].data # STUB THEN over ELSE l
    BY <1>1, <1>2
  <2>. QED
    BY <1>2, <2>1 DEF SavedCase, over
<1>3. CASE ~here /\ ~alloc
  <2>1. r = SubSeq(l, 1, at - 1)
    BY <1>1, <1>3
  <2>. QED
    BY <1>3, <2>1 DEF SavedCase
<1>4. CASE ~here /\ alloc /\ at \in DOMAIN l
  <2>1. r = [l EXCEPT ![at] = Item(s, d)]
    BY <1>1, <1>4
  <2>. QED
    BY <1>4, <2>1 DEF SavedCase
<1>5. CASE alloc /\ at \notin DOMAIN l
  <2>1. r = Append(l, Item(s, d))
    BY <1>1, <1>5
  <2>. QED
    BY <1>5, <2>1 DEF SavedCase
<1>. QED
  BY <1>2, <1>3, <1>4, <1>5

LEMMA ItemSavedItems ==
    ASSUME fw \in Firmwares, NEW l \in Items, NEW s \in Serializers, NEW save \in BOOLEAN,
           NEW alloc \in BOOLEAN, NEW from \in Settable
    PROVE  ItemSaved(l, s, save, alloc, from) \in Items
<1>. DEFINE at == Position(l, s)
            d == IF save THEN from[s] ELSE STUB
            r == ItemSaved(l, s, save, alloc, from)
<1>1. d \in Values \cup {STUB, INITIAL}
  BY DEF Settable
<1>2. \/ at \in DOMAIN l /\ l[at].name = s
      \/ at = Len(l) + 1 /\ at \notin DOMAIN l /\ \A i \in DOMAIN l : l[i].name # s
  BY PositionFacts
<1>3. at \in 1..(Len(l) + 1)
  BY <1>2, ItemsFacts
<1>4. Item(s, d) \in ItemType /\ Item(s, d).name = s
  BY <1>1, ItemIsItem
<1>5. SavedCase(r, l, s, at, d, save, alloc)
  BY ItemSavedCases
<1>. SUFFICES r \in Items
  OBVIOUS
<1>. HIDE DEF at, d, r
<1>6. CASE at \in DOMAIN l /\ r = [l EXCEPT ![at] = [l[at] EXCEPT !.data = d]]
  <2>1. l[at] \in ItemType
    BY <1>6, ItemsFacts
  <2>2. /\ [l[at] EXCEPT !.data = d] \in ItemType
        /\ [l[at] EXCEPT !.data = d].name = l[at].name
    BY <1>1, <2>1 DEF ItemType
  <2>. QED
    BY <1>6, <2>2, Overwritten
<1>7. CASE r = SubSeq(l, 1, at - 1)
  BY <1>3, <1>7, CutOff
<1>8. CASE at \in DOMAIN l /\ r = [l EXCEPT ![at] = Item(s, d)]
  BY <1>2, <1>4, <1>8, Overwritten
<1>9. CASE at \notin DOMAIN l /\ r = Append(l, Item(s, d))
  BY <1>2, <1>4, <1>9, Appended
<1>. QED
  BY <1>5, <1>6, <1>7, <1>8, <1>9 DEF SavedCase

LEMMA SavedItems ==
    ASSUME fw \in Firmwares, NEW l \in Items, NEW n \in 0..NumSerializers, NEW covered,
           NEW a \in Allocs, NEW from \in Settable
    PROVE  Saved(l, n, covered, a, from) \in Items
<1>1. n \in Nat /\ a \in Nat /\ \A k \in 1..n : k \in Serializers
  BY DEF Serializers, Allocs
<1>2. PICK g : Steps(g, l, n, covered, a, from)
  BY <1>1, SavedSteps
<1>. DEFINE Wrong == {k \in 0..n : g[k] \notin Items}
<1>3. Wrong \in SUBSET Nat /\ n \in 0..n
  BY <1>1
<1>. SUFFICES ASSUME Wrong # {} PROVE FALSE
  BY <1>2, <1>3 DEF Steps
<1>4. PICK k \in Wrong : \A j \in Wrong : k <= j
  <2>. HIDE DEF Wrong
  <2>. QED
    BY <1>3, LeastNumber
<1>5. k \in 1..n /\ k - 1 \in 0..n /\ ~(k <= k - 1)
  BY <1>2, <1>4 DEF Steps
<1>6. g[k - 1] \in Items
  BY <1>4, <1>5
<1>7. g[k] \in Items
  <2>1. k \in Serializers /\ (k \in covered) \in BOOLEAN /\ (k >= a) \in BOOLEAN
    BY <1>1, <1>5
  <2>2. g[k] = ItemSaved(g[k - 1], k, k \in covered, k >= a, from)
    BY <1>2, <1>5 DEF Steps
  <2>3. ItemSaved(g[k - 1], k, k \in covered, k >= a, from) \in Items
    BY <1>6, <2>1, ItemSavedItems
  <2>. QED
    BY <2>2, <2>3
<1>. QED
  BY <1>4, <1>7


-----------------------------------------------------------------------------
(* The types, and what the flash holds: outside of medium_close what the last *)
(* completed save wrote, or it is not valid; while a save is programmed a     *)
(* part of its items and no header.                                           *)
SettingsTypes ==
    /\ setting \in Settable /\ last \in Settable /\ fw \in Firmwares
    /\ items \in Items /\ body \in Items /\ (header = NONE \/ header \in Items)
    /\ pc \in {"boot", "ready", "erase", "program"}
    /\ covers \subseteq Serializers /\ clean \in BOOLEAN
FlashIsKept ==
    /\ pc # "program" => IF kept = NONE THEN ~Valid ELSE Valid /\ kept = body
    /\ pc = "program" => /\ header = NONE /\ kept = NONE /\ Len(body) <= Len(items)
                         /\ \A i \in 1..Len(body) : body[i] = items[i]

LEMMA NoItems == <<>> \in Items /\ NONE \notin Items /\ DOMAIN <<>> = {}
  BY DEF Items, OneOfEach

LEMMA OpenedItems == ASSUME SettingsTypes PROVE Opened \in Items
  BY NoItems DEF SettingsTypes, Opened

LEMMA LoadsAt ==
    ASSUME NEW l \in Items, NEW s, Loads(l, s)
    PROVE  /\ Position(l, s) \in DOMAIN l /\ l[Position(l, s)].name = s
           /\ l[Position(l, s)].version = Version[fw][s] /\ l[Position(l, s)].data # STUB
           /\ l[Position(l, s)].data \in Values \cup {INITIAL}
<1>1. PICK i \in DOMAIN l : l[i].name = s /\ l[i].version = Version[fw][s] /\ l[i].data # STUB
  BY DEF Loads
<1>2. Position(l, s) \in DOMAIN l /\ l[Position(l, s)].name = s
  BY <1>1, PositionFacts
<1>3. Position(l, s) = i
  BY <1>1, <1>2, ItemsFacts DEF OneOfEach
<1>4. l[i].data \in Values \cup {STUB, INITIAL}
  BY <1>1, ItemsFacts
<1>. QED
  BY <1>1, <1>3, <1>4

LEMMA LoadedType ==
    ASSUME SettingsTypes, NEW old \in Settable
    PROVE  Loaded(old) \in Settable
<1>1. ASSUME NEW s \in Serializers, Loads(body, s)
      PROVE  body[Position(body, s)].data \in Values \cup {INITIAL}
  BY <1>1, LoadsAt DEF SettingsTypes
<1>2. \A s \in Serializers : old[s] \in Values \cup {INITIAL}
  BY DEF Settable
<1>. QED
  BY <1>1, <1>2 DEF Loaded, Settable

LEMMA SettableTypes ==
    /\ Default \in Settable /\ [s \in Serializers |-> INITIAL] \in Settable
    /\ \A f \in Settable, s \in Serializers, v \in Values : [f EXCEPT ![s] = v] \in Settable
  BY DEF Settable

LEMMA SavesItems ==
    ASSUME SettingsTypes, NEW a \in Allocs, NEW from \in Settable
    PROVE  /\ SavedAll(Opened, a, from) \in Items
           /\ \A n \in ByName : SavedByName(Opened, n, a, from) \in Items
<1>1. fw \in Firmwares /\ NumSerializers \in 0..NumSerializers
      /\ \A n \in ByName : n \in 0..NumSerializers
  BY DEF SettingsTypes, Serializers
<1>. QED
  BY <1>1, OpenedItems, SavedItems DEF SavedAll, SavedByName

LEMMA BootType ==
    ASSUME SettingsTypes, NEW a \in Allocs, NEW validated \in BOOLEAN, NEW loaded \in BOOLEAN,
           NEW saved \in BOOLEAN, Boot(validated, loaded, saved, a)
    PROVE  SettingsTypes'
<1>. DEFINE defaults == IF loaded THEN Loaded(Default) ELSE Default
<1>1. defaults \in Settable /\ Loaded(setting) \in Settable /\ setting \in Settable
  BY LoadedType, SettableTypes DEF SettingsTypes
<1>2. SavedAll(Opened, a, defaults) \in Items
  BY <1>1, SavesItems
<1>3. \/ /\ setting' = IF loaded THEN Loaded(setting) ELSE setting
         /\ pc' = "ready" /\ UNCHANGED <<items, covers>>
      \/ /\ setting' = defaults /\ pc' = "erase"
         /\ items' = SavedAll(Opened, a, defaults) /\ covers' = Serializers
      \/ /\ setting' = defaults /\ pc' = "ready" /\ UNCHANGED <<items, covers>>
  BY DEF Boot, Close
<1>4. /\ clean' \in BOOLEAN /\ UNCHANGED <<fw, header, body>> /\ last' = setting'
  BY DEF Boot
<1>. HIDE DEF defaults
<1>5. setting' \in Settable /\ items' \in Items /\ covers' \subseteq Serializers
      /\ pc' \in {"ready", "erase"}
  BY <1>1, <1>2, <1>3 DEF SettingsTypes
<1>. QED
  BY <1>4, <1>5 DEF SettingsTypes

(* Programming appends the next item of the list.                             *)
LEMMA ProgramItemType ==
    ASSUME SettingsTypes, FlashIsKept, ProgramItem
    PROVE  SettingsTypes' /\ FlashIsKept'
<1>. DEFINE n == Len(body)
            e == items[n + 1]
<1>1. /\ pc = "program" /\ n < Len(items) /\ body' = Append(body, e)
      /\ UNCHANGED <<setting, fw, header, items, pc, kept, last, covers, clean>>
  BY DEF ProgramItem
<1>2. /\ body \in Items /\ items \in Items /\ n \in Nat /\ DOMAIN body = 1..n
      /\ Len(items) \in Nat /\ DOMAIN items = 1..Len(items)
  BY ItemsFacts DEF SettingsTypes
<1>3. n + 1 \in DOMAIN items /\ \A i \in DOMAIN body : i \in DOMAIN items /\ i # n + 1
  BY <1>1, <1>2
<1>4. e \in ItemType /\ \A i \in DOMAIN body : body[i] = items[i]
  BY <1>1, <1>2, <1>3, ItemsFacts DEF FlashIsKept
<1>5. \A i \in DOMAIN body : body[i].name # e.name
  BY <1>2, <1>3, <1>4, ItemsFacts DEF OneOfEach
<1>. HIDE DEF e
<1>6. /\ body' \in Items /\ DOMAIN body' = DOMAIN body \cup {n + 1}
      /\ \A i \in DOMAIN body : body'[i] = body[i]
      /\ body'[n + 1] = e
  BY <1>1, <1>2, <1>4, <1>5, Appended
<1>7. Len(body') = n + 1
  BY <1>1, <1>2, <1>4, AppendProperties DEF Items
<1>8. SettingsTypes'
  BY <1>1, <1>6 DEF SettingsTypes
<1>9. \A i \in 1..(n + 1) : body'[i] = items[i]
  <2>1. \A i \in 1..(n + 1) : i \in DOMAIN body \/ i = n + 1
    BY <1>2
  <2>. QED
    BY <1>4, <1>6, <2>1 DEF e
<1>10. FlashIsKept'
  BY <1>1, <1>2, <1>7, <1>9 DEF FlashIsKept
<1>. QED
  BY <1>8, <1>10

(* Programming ends when the flash has the whole list.                        *)
LEMMA WholeList ==
    ASSUME SettingsTypes, FlashIsKept, pc = "program", Programmed
    PROVE  body = items /\ body # NONE
<1>1. body \in Seq(ItemType) /\ items \in Seq(ItemType)
  BY DEF SettingsTypes, Items
<1>2. Len(body) = Len(items) /\ \A i \in 1..Len(body) : body[i] = items[i]
  BY DEF FlashIsKept, Programmed
<1>. QED
  BY <1>1, <1>2, SeqEqual

LEMMA SettingsStep == SettingsTypes /\ FlashIsKept /\ [Next]_vars => (SettingsTypes /\ FlashIsKept)'
<1>. SUFFICES ASSUME SettingsTypes, FlashIsKept, [Next]_vars
              PROVE  SettingsTypes' /\ FlashIsKept'
  OBVIOUS
<1>1. CASE \E a \in Allocs, validated, loaded, saved \in BOOLEAN : Boot(validated, loaded, saved, a)
  <2>1. SettingsTypes'
    BY <1>1, BootType
  <2>2. pc = "boot" /\ pc' # "program" /\ UNCHANGED <<header, body, kept>>
    BY <1>1 DEF Boot, Close
  <2>. QED
    BY <2>1, <2>2 DEF FlashIsKept, Valid
<1>2. CASE \E a \in Allocs, factory \in BOOLEAN : SaveAll(a, factory)
  <2>1. PICK a \in Allocs, factory \in BOOLEAN : SaveAll(a, factory)
    BY <1>2
  <2>2. setting' \in Settable
    BY <2>1, SettableTypes DEF SaveAll, SettingsTypes
  <2>3. SavedAll(Opened, a, setting') \in Items
    BY <2>2, SavesItems
  <2>. QED
    BY <2>1, <2>2, <2>3 DEF SaveAll, Close, SettingsTypes, FlashIsKept, Valid
<1>3. CASE \E a \in Allocs, n \in ByName : SaveName(n, a)
  <2>1. PICK a \in Allocs, n \in ByName : SaveName(n, a)
    BY <1>3
  <2>2. SavedByName(Opened, n, a, setting) \in Items
    BY SavesItems DEF SettingsTypes
  <2>3. {n} \subseteq Serializers
    OBVIOUS
  <2>. QED
    BY <2>1, <2>2, <2>3 DEF SaveName, Close, SettingsTypes, FlashIsKept, Valid
<1>4. CASE \E s \in Serializers, v \in Values : Configure(s, v)
  <2>1. PICK s \in Serializers, v \in Values : Configure(s, v)
    BY <1>4
  <2>2. setting' \in Settable
    BY <2>1, SettableTypes DEF Configure, SettingsTypes
  <2>3. UNCHANGED <<fw, header, body, items, pc, kept, last, covers, clean>>
    BY <2>1 DEF Configure
  <2>4. SettingsTypes'
    BY <2>2, <2>3 DEF SettingsTypes
  <2>. QED
    BY <2>3, <2>4 DEF FlashIsKept, Valid
<1>5. CASE Erase
  <2>1. /\ header' = NONE /\ body' = <<>> /\ kept' = NONE /\ pc' = "program"
        /\ UNCHANGED <<setting, fw, items, last, covers, clean>>
    BY <1>5 DEF Erase
  <2>2. Len(items) \in Nat /\ Len(<<>>) = 0 /\ 1..0 = {}
    BY ItemsFacts DEF SettingsTypes
  <2>. QED
    BY <2>1, <2>2, NoItems DEF SettingsTypes, FlashIsKept
<1>6. CASE ProgramItem
  BY <1>6, ProgramItemType
<1>7. CASE ProgramHeader
  <2>1. body = items /\ body # NONE
    BY <1>7, WholeList DEF ProgramHeader
  <2>2. last' \in Settable
    BY <1>7 DEF ProgramHeader, SettingsTypes, Settable
  <2>. QED
    BY <1>7, <2>1, <2>2, NoItems DEF ProgramHeader, SettingsTypes, FlashIsKept, Valid
<1>8. CASE CloseFails
  BY <1>8, NoItems DEF CloseFails, SettingsTypes, FlashIsKept, Valid
<1>9. CASE EraseMedium
  BY <1>9, NoItems DEF EraseMedium, SettingsTypes, FlashIsKept, Valid
<1>10. CASE \E image \in Firmwares : Reset(image)
  <2>1. PICK image \in Firmwares : Reset(image)
    BY <1>10
  <2>2. /\ pc # "boot" /\ fw' = image /\ setting' \in Settable /\ pc' = "boot" /\ items' = <<>>
        /\ covers' = {} /\ UNCHANGED <<header, body, kept, last, clean>>
    BY <2>1, SettableTypes DEF Reset
  <2>3. SettingsTypes'
    BY <2>2, NoItems DEF SettingsTypes
  <2>4. pc = "program" => header = NONE /\ kept = NONE
    BY DEF FlashIsKept
  <2>5. FlashIsKept'
    BY <2>2, <2>4 DEF FlashIsKept, Valid
  <2>. QED
    BY <2>3, <2>5
<1>11. CASE UNCHANGED vars
  BY <1>11 DEF vars, SettingsTypes, FlashIsKept, Valid
<1>. QED
  BY <1>1, <1>2, <1>3, <1>4, <1>5, <1>6, <1>7, <1>8, <1>9, <1>10, <1>11 DEF Next

LEMMA SettingsInit == Init => SettingsTypes /\ FlashIsKept
  BY NoItems, SettableTypes DEF Init, SettingsTypes, FlashIsKept, Valid

LEMMA SettingsInvariant == Spec => [](SettingsTypes /\ FlashIsKept)
  BY SettingsInit, SettingsStep, PTL DEF Spec


-----------------------------------------------------------------------------
(* main(): every boot that no allocation fails in makes of each setting what   *)
(* the last completed save wrote for this version of it, and else its factory  *)
(* default, for any number of serializers and images and whenever the resets   *)
(* before it came.                                                             *)
THEOREM BootRestoresCorrect == Spec => BootRestores
<1>1. ASSUME SettingsTypes, FlashIsKept, [Next]_vars, pc = "boot", pc' # "boot", clean',
             NEW s \in Serializers
      PROVE  setting'[s] = Expected(s)
  <2>1. PICK a \in Allocs, validated, loaded, saved \in BOOLEAN : Boot(validated, loaded, saved, a)
    BY <1>1 DEF Next, SaveAll, SaveName, Configure, Erase, ProgramItem, ProgramHeader, CloseFails,
                EraseMedium, Reset, vars
  <2>2. validated /\ loaded
    BY <1>1, <2>1 DEF Boot
  <2>3. setting' = Loaded(IF Validates THEN setting ELSE Default)
    BY <2>1, <2>2 DEF Boot
  <2>4. Validates => Valid /\ Loads(body, s)
    BY DEF Validates
  <2>5. setting'[s] = IF Valid /\ Loads(body, s) THEN body[Position(body, s)].data ELSE Default[s]
    BY <2>3, <2>4 DEF Loaded
  <2>6. IF kept = NONE THEN ~Valid ELSE Valid /\ kept = body
    BY <1>1 DEF FlashIsKept
  <2>. QED
    BY <2>5, <2>6 DEF Expected
<1>2. SettingsTypes /\ FlashIsKept /\ [Next]_vars
         => [pc = "boot" /\ pc' # "boot" /\ clean'
                 => \A s \in Serializers : setting'[s] = Expected(s)]_vars
  BY <1>1
<1>. QED
  BY <1>2, SettingsInvariant, PTL DEF BootRestores, Spec

(* A save under way of the flash medium, as SavedMedium has it.                *)
Writing == IF pc \in {"erase", "program"} THEN items ELSE NONE
OnFlash == IF Valid THEN body ELSE NONE

LEMMA MediumStep ==
    ASSUME SettingsTypes, FlashIsKept, SettingsTypes', [Next]_vars
    PROVE  [Medium!Next]_(Medium!vars)
<1>. SUFFICES \/ UNCHANGED <<OnFlash, Writing>>
              \/ Writing = NONE /\ Writing' \in Seq(ItemType) /\ UNCHANGED OnFlash
              \/ OnFlash' = NONE /\ UNCHANGED Writing
              \/ OnFlash = NONE /\ Writing # NONE /\ OnFlash' = Writing /\ Writing' = NONE
              \/ Writing' = NONE /\ UNCHANGED OnFlash
  BY DEF Medium!Next, Medium!vars, Medium!Begin, Medium!GiveUp, Medium!Commit, Medium!Abandon,
         OnFlash, Writing
<1>1. ASSUME pc' = "erase", pc \in {"boot", "ready"}, UNCHANGED <<header, body>>
      PROVE  Writing = NONE /\ Writing' \in Seq(ItemType) /\ UNCHANGED OnFlash
  BY <1>1 DEF Writing, OnFlash, Valid, SettingsTypes, Items
<1>2. ASSUME UNCHANGED <<header, body>>, pc' \in {"boot", "ready"}
      PROVE  Writing' = NONE /\ UNCHANGED OnFlash
  BY <1>2 DEF Writing, OnFlash, Valid
<1>3. CASE \E a \in Allocs, validated, loaded, saved \in BOOLEAN : Boot(validated, loaded, saved, a)
  BY <1>1, <1>2, <1>3 DEF Boot, Close
<1>4. CASE \E a \in Allocs, factory \in BOOLEAN : SaveAll(a, factory)
  BY <1>1, <1>4 DEF SaveAll, Close
<1>5. CASE \E a \in Allocs, n \in ByName : SaveName(n, a)
  BY <1>1, <1>5 DEF SaveName, Close
<1>6. CASE \E s \in Serializers, v \in Values : Configure(s, v)
  BY <1>6 DEF Configure, Writing, OnFlash, Valid
<1>7. CASE Erase
  BY <1>7 DEF Erase, Writing, OnFlash, Valid
<1>8. CASE ProgramItem
  <2>1. header = NONE /\ header' = NONE
    BY <1>8 DEF ProgramItem, FlashIsKept
  <2>. QED
    BY <1>8, <2>1 DEF ProgramItem, Writing, OnFlash, Valid
<1>9. CASE ProgramHeader
  <2>1. body = items /\ body # NONE
    BY <1>9, WholeList DEF ProgramHeader
  <2>2. header = NONE /\ header' = body /\ body' = body /\ pc = "program" /\ pc' = "ready"
    BY <1>9 DEF ProgramHeader, FlashIsKept
  <2>. QED
    BY <2>1, <2>2 DEF Writing, OnFlash, Valid
<1>10. CASE CloseFails
  BY <1>2, <1>10 DEF CloseFails
<1>11. CASE EraseMedium
  BY <1>11 DEF EraseMedium, Writing, OnFlash, Valid
<1>12. CASE \E image \in Firmwares : Reset(image)
  BY <1>2, <1>12 DEF Reset
<1>13. CASE UNCHANGED vars
  BY <1>13 DEF vars, Writing, OnFlash, Valid
<1>. QED
  BY <1>3, <1>4, <1>5, <1>6, <1>7, <1>8, <1>9, <1>10, <1>11, <1>12, <1>13 DEF Next

(* flash_medium.c implements the medium that its users rely on: a reader finds *)
(* what one save wrote, all of it, or nothing, whatever the number and size of *)
(* the items and wherever a reset cuts a save short.                           *)
THEOREM MediumSpecCorrect == Spec => MediumSpec
<1>1. Init => Medium!Init
  BY DEF Init, Medium!Init, Valid
<1>2. SettingsTypes /\ FlashIsKept /\ SettingsTypes' /\ [Next]_vars => [Medium!Next]_(Medium!vars)
  BY MediumStep
<1>. QED
  BY <1>1, <1>2, SettingsInvariant, PTL DEF Spec, MediumSpec, Medium!Spec

-----------------------------------------------------------------------------
(* While nothing failed since the boot, the flash has each setting as the last *)
(* save that covers it took it, and a save under way will write that.          *)
Holds(l, s, v) ==
    /\ v # STUB
    /\ \E i \in DOMAIN l : l[i].name = s /\ l[i].version = Version[fw][s] /\ l[i].data = v
NoStub(l) == \A i \in DOMAIN l : l[i].data # STUB
Current ==
    /\ clean /\ pc # "boot" => \A s \in Serializers : setting[s] # STUB
    /\ clean /\ pc = "ready" => Valid /\ \A s \in Serializers : Holds(body, s, last[s])
    /\ clean /\ pc \in {"erase", "program"} =>
          \A s \in Serializers : Holds(items, s, IF s \in covers THEN setting[s] ELSE last[s])

LEMMA HoldsAll ==
    ASSUME NEW l \in Items, NEW f, \A s \in Serializers : Holds(l, s, f[s])
    PROVE  NoStub(l)
<1>. SUFFICES ASSUME NEW i \in DOMAIN l PROVE l[i].data # STUB
  BY DEF NoStub
<1>1. l[i].name \in Serializers /\ OneOfEach(l)
  BY ItemsFacts
<1>2. PICK j \in DOMAIN l : l[j].name = l[i].name /\ l[j].data # STUB
  <2>1. Holds(l, l[i].name, f[l[i].name])
    BY <1>1
  <2>. QED
    BY <2>1 DEF Holds
<1>. QED
  BY <1>1, <1>2 DEF OneOfEach

LEMMA HoldsLoads ==
    ASSUME NEW l \in Items, NEW s, NEW v, Holds(l, s, v)
    PROVE  Loads(l, s) /\ l[Position(l, s)].data = v
<1>1. PICK i \in DOMAIN l :
          l[i].name = s /\ l[i].version = Version[fw][s] /\ l[i].data = v /\ v # STUB
  BY DEF Holds
<1>2. Loads(l, s)
  BY <1>1 DEF Loads
<1>3. Position(l, s) \in DOMAIN l /\ l[Position(l, s)].name = s
  BY <1>2, LoadsAt
<1>. QED
  BY <1>1, <1>2, <1>3, ItemsFacts DEF OneOfEach

LEMMA LoadsHolds ==
    ASSUME NEW l \in Items, NEW s, Loads(l, s)
    PROVE  Holds(l, s, l[Position(l, s)].data)
  BY LoadsAt DEF Holds

(* r is l but for item i, which has the value v of s.                          *)
OneItemSet(r, l, i, s, v) ==
    /\ i \in DOMAIN r /\ r[i].name = s /\ r[i].version = Version[fw][s] /\ r[i].data = v
    /\ \A j \in DOMAIN r : j = i \/ (j \in DOMAIN l /\ r[j] = l[j])
    /\ \A j \in DOMAIN l : l[j].name = s \/ (j \in DOMAIN r /\ r[j] = l[j])

(* r holds the value v of s, and all that l holds of the other serializers.    *)
ItemGiven(r, l, s, v) ==
    /\ NoStub(r) /\ Holds(r, s, v)
    /\ \A t \in Serializers \ {s} : \A w : Holds(l, t, w) => Holds(r, t, w)

LEMMA OthersHold ==
    ASSUME NEW l, NoStub(l), NEW s, NEW v, v # STUB, NEW r, NEW i, OneItemSet(r, l, i, s, v)
    PROVE  ItemGiven(r, l, s, v)
<1>1. NoStub(r)
  BY DEF NoStub, OneItemSet
<1>2. Holds(r, s, v)
  BY DEF Holds, OneItemSet
<1>3. ASSUME NEW t \in Serializers \ {s}, NEW w, Holds(l, t, w) PROVE Holds(r, t, w)
  <2>1. PICK j \in DOMAIN l :
            l[j].name = t /\ l[j].version = Version[fw][t] /\ l[j].data = w /\ w # STUB
    BY <1>3 DEF Holds
  <2>2. j \in DOMAIN r /\ r[j] = l[j]
    BY <2>1 DEF OneItemSet
  <2>. QED
    BY <2>1, <2>2 DEF Holds
<1>. QED
  BY <1>1, <1>2, <1>3 DEF ItemGiven

(* A serializer that is saved, without a failure, has its item afterwards, and *)
(* the other items stay; one that is only counted finds its item.              *)
LEMMA ItemSavedHolds ==
    ASSUME fw \in Firmwares, NEW l \in Items, NoStub(l), NEW s \in Serializers,
           NEW from \in Settable, from[s] # STUB, NEW r, r = ItemSaved(l, s, TRUE, TRUE, from)
    PROVE  /\ NoStub(r) /\ Holds(r, s, from[s])
           /\ \A t \in Serializers \ {s} : \A w : Holds(l, t, w) => Holds(r, t, w)
<1>. DEFINE at == Position(l, s)
            v == from[s]
            e == [l[at] EXCEPT !.data = v]
<1>1. SavedCase(r, l, s, at, v, TRUE, TRUE)
  <2>1. SavedCase(r, l, s, at, IF TRUE THEN from[s] ELSE STUB, TRUE, TRUE)
    BY ItemSavedCases
  <2>. QED
    BY <2>1
<1>2. \/ at \in DOMAIN l /\ l[at].name = s
      \/ at = Len(l) + 1 /\ at \notin DOMAIN l /\ \A i \in DOMAIN l : l[i].name # s
  BY PositionFacts
<1>3. v \in Values \cup {STUB, INITIAL} /\ v # STUB
  BY DEF Settable
<1>4. /\ Item(s, v) \in ItemType /\ Item(s, v).name = s /\ Item(s, v).data = v
      /\ Item(s, v).version = Version[fw][s]
  BY <1>3, ItemIsItem
<1>. HIDE DEF at, v
<1>5. ASSUME at \in DOMAIN l /\ l[at].version = Version[fw][s] /\ r = [l EXCEPT ![at] = e]
     PROVE  ItemGiven(r, l, s, v)
  <2>1. l[at] \in ItemType /\ l[at].name = s
    BY <1>2, <1>5, ItemsFacts
  <2>2. e \in ItemType /\ e.name = s /\ e.data = v /\ e.version = Version[fw][s]
    BY <1>3, <1>5, <2>1 DEF ItemType
  <2>. HIDE DEF e
  <2>3. DOMAIN r = DOMAIN l /\ \A i \in DOMAIN l : r[i] = IF i = at THEN e ELSE l[i]
    BY <1>5, <2>1, <2>2, Overwritten
  <2>4. at \in DOMAIN r /\ r[at] = e
    BY <1>5, <2>3
  <2>5. \A j \in DOMAIN r : j = at \/ (j \in DOMAIN l /\ r[j] = l[j])
    BY <2>3
  <2>6. \A j \in DOMAIN l : l[j].name = s \/ (j \in DOMAIN r /\ r[j] = l[j])
    BY <2>1, <2>3
  <2>7. OneItemSet(r, l, at, s, v)
    BY <2>2, <2>4, <2>5, <2>6 DEF OneItemSet
  <2>. QED
    BY <1>3, <2>7, OthersHold
<1>6. ASSUME at \in DOMAIN l /\ r = [l EXCEPT ![at] = Item(s, v)]
     PROVE  ItemGiven(r, l, s, v)
  <2>1. l[at].name = s
    BY <1>2, <1>6
  <2>2. DOMAIN r = DOMAIN l /\ \A i \in DOMAIN l : r[i] = IF i = at THEN Item(s, v) ELSE l[i]
    BY <1>4, <1>6, <2>1, Overwritten
  <2>3. at \in DOMAIN r /\ r[at] = Item(s, v)
    BY <1>6, <2>2
  <2>4. \A j \in DOMAIN r : j = at \/ (j \in DOMAIN l /\ r[j] = l[j])
    BY <2>2
  <2>5. \A j \in DOMAIN l : l[j].name = s \/ (j \in DOMAIN r /\ r[j] = l[j])
    BY <2>1, <2>2
  <2>6. OneItemSet(r, l, at, s, v)
    BY <1>4, <2>3, <2>4, <2>5 DEF OneItemSet
  <2>. QED
    BY <1>3, <2>6, OthersHold
<1>7. ASSUME at \notin DOMAIN l /\ r = Append(l, Item(s, v))
     PROVE  ItemGiven(r, l, s, v)
  <2>1. /\ DOMAIN r = DOMAIN l \cup {Len(l) + 1}
        /\ \A i \in DOMAIN l : r[i] = l[i]
        /\ r[Len(l) + 1] = Item(s, v)
    <3>1. Item(s, v) \in ItemType /\ \A i \in DOMAIN l : l[i].name # Item(s, v).name
      BY <1>2, <1>4, <1>7
    <3>2. /\ DOMAIN Append(l, Item(s, v)) = DOMAIN l \cup {Len(l) + 1}
          /\ \A i \in DOMAIN l : Append(l, Item(s, v))[i] = l[i]
          /\ Append(l, Item(s, v))[Len(l) + 1] = Item(s, v)
      BY <3>1, Appended, Zenon
    <3>. QED
      BY <1>7, <3>2, Zenon
  <2>2. Len(l) + 1 \in DOMAIN r /\ \A j \in DOMAIN l : j \in DOMAIN r
    BY <2>1
  <2>3. OneItemSet(r, l, Len(l) + 1, s, v)
    BY <1>4, <2>1, <2>2 DEF OneItemSet
  <2>. QED
    BY <1>3, <2>3, OthersHold
<1>8. ItemGiven(r, l, s, v)
  BY <1>1, <1>5, <1>6, <1>7 DEF SavedCase, NoStub
<1>. QED
  BY <1>8 DEF ItemGiven, v

LEMMA ItemCounted ==
    ASSUME NEW l \in Items, NEW s \in Serializers, NEW v, Holds(l, s, v), NEW alloc \in BOOLEAN,
           NEW from
    PROVE  ItemSaved(l, s, FALSE, alloc, from) = l
<1>1. Position(l, s) \in DOMAIN l /\ l[Position(l, s)].version = Version[fw][s]
  BY HoldsLoads, LoadsAt
<1>. QED
  BY <1>1 DEF ItemSaved

(* persistence_save_all_current_settings without a failure.                    *)
LEMMA SavedAllHolds ==
    ASSUME fw \in Firmwares, NEW l \in Items, NoStub(l), NEW from \in Settable,
           \A s \in Serializers : from[s] # STUB
    PROVE  \A s \in Serializers : Holds(SavedAll(l, 1, from), s, from[s])
<1>. DEFINE n == NumSerializers
            Right(m, k) == m \in Items /\ NoStub(m) /\ \A s \in 1..k : Holds(m, s, from[s])
<1>1. PICK g : Steps(g, l, n, Serializers, 1, from)
  BY SavedSteps
<1>. DEFINE Wrong == {k \in 0..n : ~Right(g[k], k)}
<1>2. Wrong \in SUBSET Nat /\ n \in 0..n
  OBVIOUS
<1>3. Wrong = {}
  <2>. SUFFICES ASSUME Wrong # {} PROVE FALSE
    OBVIOUS
  <2>1. PICK k \in Wrong : \A j \in Wrong : k <= j
    <3>. HIDE DEF Wrong
    <3>. QED
      BY <1>2, LeastNumber
  <2>2. Right(g[0], 0)
    BY <1>1 DEF Steps
  <2>3. k \in 1..n /\ k - 1 \in 0..n /\ ~(k <= k - 1)
    <3>. HIDE DEF Right
    <3>. QED
      BY <2>1, <2>2
  <2>4. Right(g[k - 1], k - 1)
    <3>. HIDE DEF Right
    <3>. QED
      BY <2>1, <2>3
  <2>5. g[k] = ItemSaved(g[k - 1], k, TRUE, TRUE, from)
    <3>1. g[k] = ItemSaved(g[k - 1], k, k \in Serializers, k >= 1, from)
      BY <1>1, <2>3 DEF Steps
    <3>2. (k \in Serializers) = TRUE /\ (k >= 1) = TRUE
      BY <2>3 DEF Serializers
    <3>. QED
      BY <3>1, <3>2
  <2>6. k \in Serializers /\ from[k] # STUB
    BY <2>3 DEF Serializers
  <2>7. g[k] \in Items
    <3>1. g[k - 1] \in Items /\ TRUE \in BOOLEAN
      BY <2>4
    <3>2. ItemSaved(g[k - 1], k, TRUE, TRUE, from) \in Items
      BY <2>6, <3>1, ItemSavedItems
    <3>. QED
      BY <2>5, <3>2
  <2>8. /\ NoStub(g[k]) /\ Holds(g[k], k, from[k])
        /\ \A t \in Serializers \ {k} : \A v : Holds(g[k - 1], t, v) => Holds(g[k], t, v)
    BY <2>4, <2>5, <2>6, ItemSavedHolds
  <2>9. \A s \in 1..k : s = k \/ (s \in 1..(k - 1) /\ s \in Serializers \ {k})
    BY <2>3 DEF Serializers
  <2>10. Right(g[k], k)
    BY <2>4, <2>7, <2>8, <2>9
  <2>. HIDE DEF Right
  <2>. QED
    BY <2>1, <2>10
<1>4. Right(g[n], n)
  <2>. HIDE DEF Right
  <2>. QED
    BY <1>2, <1>3
<1>. QED
  BY <1>1, <1>4 DEF Steps, SavedAll, Serializers

(* persistence_save_current_settings without a failure: the items before that  *)
(* of the serializer are only counted.                                         *)
LEMMA SavedByNameHolds ==
    ASSUME fw \in Firmwares, NEW l \in Items, NEW n \in Serializers, NEW from \in Settable,
           from[n] # STUB, NEW f, \A s \in Serializers : Holds(l, s, f[s])
    PROVE  \A s \in Serializers :
              Holds(SavedByName(l, n, 1, from), s, IF s \in {n} THEN from[s] ELSE f[s])
<1>1. n \in Nat \ {0} /\ \A k \in 1..n : k \in Serializers
  BY DEF Serializers
<1>2. PICK g : Steps(g, l, n, {n}, 1, from)
  BY <1>1, SavedSteps
<1>. DEFINE Wrong == {k \in 0..(n - 1) : g[k] # l}
<1>3. Wrong = {}
  <2>. SUFFICES ASSUME Wrong # {} PROVE FALSE
    OBVIOUS
  <2>1. Wrong \in SUBSET Nat
    OBVIOUS
  <2>2. PICK k \in Wrong : \A j \in Wrong : k <= j
    <3>. HIDE DEF Wrong
    <3>. QED
      BY <2>1, LeastNumber
  <2>3. k \in 1..n /\ k # n /\ k - 1 \in 0..(n - 1) /\ ~(k <= k - 1)
    BY <1>1, <1>2, <2>2 DEF Steps
  <2>4. g[k - 1] = l
    BY <2>2, <2>3
  <2>5. g[k] = ItemSaved(l, k, FALSE, TRUE, from)
    <3>1. g[k] = ItemSaved(g[k - 1], k, k \in {n}, k >= 1, from)
      BY <1>2, <2>3 DEF Steps
    <3>2. (k \in {n}) = FALSE /\ (k >= 1) = TRUE
      BY <1>1, <2>3
    <3>. QED
      BY <2>4, <3>1, <3>2
  <2>6. k \in Serializers /\ Holds(l, k, f[k])
    BY <1>1, <2>3
  <2>7. g[k] = l
    BY <2>5, <2>6, ItemCounted
  <2>. QED
    BY <2>2, <2>7
<1>4. g[n] = ItemSaved(l, n, TRUE, TRUE, from)
  <2>1. n \in 1..n /\ n - 1 \in 0..(n - 1)
    BY <1>1
  <2>2. g[n] = ItemSaved(g[n - 1], n, n \in {n}, n >= 1, from)
    BY <1>2, <2>1 DEF Steps
  <2>3. (n \in {n}) = TRUE /\ (n >= 1) = TRUE /\ g[n - 1] = l
    BY <1>1, <1>3, <2>1
  <2>. QED
    BY <2>2, <2>3
<1>5. /\ Holds(g[n], n, from[n])
      /\ \A t \in Serializers \ {n} : \A v : Holds(l, t, v) => Holds(g[n], t, v)
  BY <1>4, HoldsAll, ItemSavedHolds
<1>6. SavedByName(l, n, 1, from) = g[n]
  BY <1>2 DEF Steps, SavedByName
<1>7. ASSUME NEW s \in Serializers PROVE Holds(g[n], s, IF s \in {n} THEN from[s] ELSE f[s])
  <2>1. CASE s = n
    BY <1>5, <2>1
  <2>2. CASE s # n
    <3>1. Holds(l, s, f[s]) /\ s \in Serializers \ {n}
      BY <2>2
    <3>2. Holds(g[n], s, f[s])
      BY <1>5, <3>1
    <3>. QED
      BY <2>2, <3>2
  <2>. QED
    BY <2>1, <2>2
<1>. QED
  BY <1>6, <1>7


LEMMA DefaultsHold ==
    ASSUME SettingsTypes
    PROVE  /\ \A s \in Serializers : Default[s] # STUB /\ Loaded(Default)[s] # STUB
           /\ Validates => \A s \in Serializers : Holds(body, s, Loaded(setting)[s])
<1>1. body \in Items /\ \A s \in Serializers : Default[s] # STUB
  BY DEF SettingsTypes
<1>2. \A s \in Serializers : Loads(body, s) => body[Position(body, s)].data # STUB
  BY <1>1, LoadsAt
<1>3. \A s \in Serializers : Loaded(Default)[s] # STUB
  BY <1>1, <1>2 DEF Loaded
<1>4. ASSUME Validates, NEW s \in Serializers PROVE Holds(body, s, Loaded(setting)[s])
  <2>1. Loads(body, s) /\ Loaded(setting)[s] = body[Position(body, s)].data
    BY <1>4 DEF Validates, Loaded
  <2>. QED
    BY <1>1, <2>1, LoadsHolds
<1>. QED
  BY <1>1, <1>3, <1>4

LEMMA BootCurrent ==
    ASSUME SettingsTypes, NEW a \in Allocs, NEW validated \in BOOLEAN, NEW loaded \in BOOLEAN,
           NEW saved \in BOOLEAN, Boot(validated, loaded, saved, a)
    PROVE  Current'
<1>. SUFFICES ASSUME clean' PROVE Current'
  BY DEF Current
<1>1. /\ validated /\ loaded /\ saved /\ a = 1 /\ NoStub(Opened)
      /\ last' = setting' /\ UNCHANGED <<fw, header, body>>
  BY DEF Boot, NoStub
<1>2. CASE Validates
  <2>1. setting' = Loaded(setting) /\ pc' = "ready" /\ Valid
    BY <1>1, <1>2 DEF Boot, Validates
  <2>2. \A s \in Serializers : Holds(body, s, setting'[s])
    BY <1>2, <2>1, DefaultsHold
  <2>3. \A s \in Serializers : setting'[s] # STUB
    BY <2>2 DEF Holds
  <2>. QED
    BY <1>1, <2>1, <2>2, <2>3 DEF Current, Holds, Valid
<1>3. CASE ~Validates
  <2>1. /\ setting' = Loaded(Default) /\ pc' = "erase" /\ covers' = Serializers
        /\ items' = SavedAll(Opened, 1, setting')
    BY <1>1, <1>3 DEF Boot, Close
  <2>2. setting' \in Settable /\ \A s \in Serializers : setting'[s] # STUB
    BY <2>1, LoadedType, SettableTypes, DefaultsHold
  <2>3. \A s \in Serializers : Holds(items', s, setting'[s])
    BY <1>1, <2>1, <2>2, OpenedItems, SavedAllHolds DEF SettingsTypes
  <2>. QED
    BY <1>1, <2>1, <2>2, <2>3 DEF Current, Holds
<1>. QED
  BY <1>2, <1>3

LEMMA SaveCurrent ==
    ASSUME SettingsTypes, Current, NEW a \in Allocs,
           \/ \E factory \in BOOLEAN : SaveAll(a, factory)
           \/ \E n \in ByName : SaveName(n, a)
    PROVE  Current'
<1>. SUFFICES ASSUME clean' PROVE Current'
  BY DEF Current
<1>1. /\ pc = "ready" /\ clean /\ a = 1 /\ pc' = "erase" /\ UNCHANGED <<fw, last>>
  BY DEF SaveAll, SaveName, Close
<1>2. /\ body \in Items /\ fw \in Firmwares /\ setting \in Settable /\ last \in Settable
      /\ Opened = body /\ \A s \in Serializers : Holds(body, s, last[s]) /\ setting[s] # STUB
  BY <1>1 DEF SettingsTypes, Current, Opened
<1>3. CASE \E factory \in BOOLEAN : SaveAll(a, factory)
  <2>1. PICK factory \in BOOLEAN : SaveAll(a, factory)
    BY <1>3
  <2>2. setting' = (IF factory THEN Default ELSE setting) /\ covers' = Serializers
        /\ items' = SavedAll(body, 1, setting')
    BY <1>1, <1>2, <2>1 DEF SaveAll, Close
  <2>3. setting' \in Settable /\ \A s \in Serializers : setting'[s] # STUB
    BY <1>2, <2>2, SettableTypes, DefaultsHold
  <2>4. \A s \in Serializers : Holds(items', s, setting'[s])
    BY <1>2, <2>2, <2>3, HoldsAll, SavedAllHolds
  <2>. QED
    BY <1>1, <2>2, <2>3, <2>4 DEF Current, Holds
<1>4. CASE \E n \in ByName : SaveName(n, a)
  <2>1. PICK n \in ByName : SaveName(n, a)
    BY <1>4
  <2>2. /\ setting' = setting /\ covers' = {n} /\ n \in Serializers
        /\ items' = SavedByName(body, n, 1, setting)
    BY <1>1, <1>2, <2>1 DEF SaveName, Close
  <2>3. \A s \in Serializers : Holds(items', s, IF s \in {n} THEN setting[s] ELSE last[s])
    BY <1>2, <2>2, SavedByNameHolds
  <2>. QED
    BY <1>1, <1>2, <2>2, <2>3 DEF Current, Holds
<1>. QED
  BY <1>3, <1>4

LEMMA CurrentStep ==
    SettingsTypes /\ FlashIsKept /\ Current /\ [Next]_vars => Current'
<1>. SUFFICES ASSUME SettingsTypes, FlashIsKept, Current, [Next]_vars PROVE Current'
  OBVIOUS
<1>1. CASE \E a \in Allocs, validated, loaded, saved \in BOOLEAN : Boot(validated, loaded, saved, a)
  BY <1>1, BootCurrent
<1>2. CASE \E a \in Allocs : \/ \E factory \in BOOLEAN : SaveAll(a, factory)
                             \/ \E n \in ByName : SaveName(n, a)
  BY <1>2, SaveCurrent
<1>3. CASE \E s \in Serializers, v \in Values : Configure(s, v)
  <2>1. PICK s \in Serializers, v \in Values : Configure(s, v)
    BY <1>3
  <2>2. pc = "ready" /\ UNCHANGED <<fw, header, body, items, pc, last, covers, clean>>
    BY <2>1 DEF Configure
  <2>3. v # STUB /\ \A t \in Serializers : setting'[t] = IF t = s THEN v ELSE setting[t]
    BY <2>1 DEF Configure, SettingsTypes, Settable
  <2>. QED
    BY <2>2, <2>3 DEF Current, Holds, Valid
<1>4. CASE Erase
  BY <1>4 DEF Erase, Current, Holds
<1>5. CASE ProgramItem
  BY <1>5 DEF ProgramItem, Current, Holds
<1>6. CASE ProgramHeader
  <2>1. body = items /\ body # NONE
    BY <1>6, WholeList DEF ProgramHeader
  <2>2. /\ pc = "program" /\ pc' = "ready" /\ header' = body /\ UNCHANGED <<setting, fw, body, clean>>
        /\ last' = [s \in Serializers |-> IF s \in covers THEN setting[s] ELSE last[s]]
    BY <1>6 DEF ProgramHeader
  <2>3. clean => \A s \in Serializers : Holds(body, s, last'[s])
    BY <2>1, <2>2 DEF Current
  <2>. QED
    BY <2>1, <2>2, <2>3 DEF Current, Holds, Valid
<1>7. CASE CloseFails \/ EraseMedium
  BY <1>7 DEF CloseFails, EraseMedium, Current
<1>8. CASE \E image \in Firmwares : Reset(image)
  BY <1>8 DEF Reset, Current
<1>9. CASE UNCHANGED vars
  BY <1>9 DEF vars, Current, Holds, Valid
<1>. QED
  BY <1>1, <1>2, <1>3, <1>4, <1>5, <1>6, <1>7, <1>8, <1>9 DEF Next

(* The main loop and the medium: while no allocation has failed and nothing    *)
(* erased the medium since the boot, the next boot finds every setting as the  *)
(* last save that covers it took it, for any number of serializers; a save by  *)
(* name keeps the items of the others.                                         *)
THEOREM MediumCurrentCorrect == Spec => []MediumCurrent
<1>1. Init => Current
  BY DEF Init, Current
<1>2. SettingsTypes /\ FlashIsKept /\ Current => MediumCurrent
  <2>. SUFFICES ASSUME SettingsTypes, FlashIsKept, Current PROVE MediumCurrent
    OBVIOUS
  <2>1. \A l \in Items : IsItems(l)
    BY ItemsFacts DEF IsItems, OneOfEach
  <2>2. kept = NONE \/ kept \in Items
    BY DEF FlashIsKept, SettingsTypes
  <2>3. TypeOK
    BY <2>1, <2>2 DEF TypeOK, SettingsTypes, Settable
  <2>4. ASSUME pc = "ready", clean
        PROVE  Validates /\ \A s \in Serializers : body[Position(body, s)].data = last[s]
    BY <2>4, HoldsLoads DEF Current, SettingsTypes, Validates
  <2>. QED
    BY <2>3, <2>4 DEF MediumCurrent
<1>. QED
  BY <1>1, <1>2, CurrentStep, SettingsInvariant, PTL DEF Spec
=============================================================================
