----------------------------- MODULE Lag_proofs -----------------------------
(* The safety of LinkStatus and Lag for every number of ports, handlers,      *)
(* slots and groups.                                                          *)
(*                                                                            *)
(* LinkStatus: its invariants are not inductive.  That a handler is told each *)
(* change once needs that no function is in the table twice, and what the     *)
(* handlers behind the walk's place were told before the change.              *)
(*                                                                            *)
(* Lag: its steps are steps of LinkStatus, whose invariant carries over.      *)
(* That the hardware follows the notification needs the rest of it: between   *)
(* the commands and the walk, a member is behind or before the LAG handler.   *)
EXTENDS Lag, FiniteSetTheorems, WellFoundedInduction, TLAPS

USE LinkStatusAssumption

(* No function has two slots.                                                 *)
Injective(table) ==
    \A i, j \in 1..Slots : table[i] = table[j] /\ table[i] \in Handlers => i = j

(* The walk has not come to slot i yet, for the port that changed.            *)
ToTell(i) ==
    \/ walk.at = "slot" /\ walk.slot <= i
    \/ walk.at = "call" /\ walk.slot < i

(* What the handler in a slot was last told of a port: before the walk comes  *)
(* to it another link than the walk's, and else the one that is noted.        *)
ToldInv ==
    \A i \in 1..Slots, p \in Ports :
        linkchange_handlers[i] \in Handlers =>
            IF ToTell(i) /\ p = walk.port
            THEN told[linkchange_handlers[i]][p] # walk.link
            ELSE told[linkchange_handlers[i]][p] \in {"untold", linkchange_status[p]}

WalkLink == walk.at \in {"slot", "call"} => linkchange_status[walk.port] = walk.link

IInv ==
    /\ TypeOK /\ StatusAgrees
    /\ Injective(linkchange_handlers) /\ WalkLink /\ ToldInv

-----------------------------------------------------------------------------
(* Every table without a function in two slots is a start.                    *)
LEMMA InitInv ==
    ASSUME NEW table \in [1..Slots -> Handlers \cup {NULL}], Injective(table), InitWith(table)
    PROVE  IInv
<1>1. TypeOK
  BY DEF InitWith, TypeOK, Idle, Links, Ports
<1>2. StatusAgrees /\ Injective(linkchange_handlers) /\ WalkLink
  BY DEF InitWith, StatusAgrees, WalkLink, Idle
<1>3. ToldInv
  BY DEF InitWith, ToldInv, ToTell, Idle
<1>. QED
  BY <1>1, <1>2, <1>3 DEF IInv

(* What a scan leaves of the types.                                           *)
LEMMA ScanType ==
    ASSUME TypeOK,
           NEW st \in [Ports -> Links], NEW lb \in [Ports -> BOOLEAN],
           NEW bl \in [Ports -> BOOLEAN], NEW answers \in Answers,
           ScanFrom(st, lb, bl, answers)
    PROVE  /\ status' \in [Ports -> Links] /\ link' \in [Ports -> Links]
           /\ blind' \in [Ports -> BOOLEAN]
<1>1. PICK A \in SUBSET Ports : answers \in [A -> Links]
  BY DEF Answers
<1>2. \A p \in Ports : p \in DOMAIN answers => answers[p] \in Links
  BY <1>1
<1>3. status' \in [Ports -> Links]
  BY <1>2 DEF ScanFrom, Handled, Links
<1>4. link' \in [Ports -> Links]
  BY <1>2 DEF ScanFrom, TypeOK
<1>5. blind' \in [Ports -> BOOLEAN]
  BY DEF ScanFrom
<1>. QED
  BY <1>3, <1>4, <1>5

(* bcm5607x_linkscan_task keeps the two copies of a link together if they     *)
(* were together, or marked, when it started.                                 *)
LEMMA ScanAgrees ==
    ASSUME TypeOK,
           NEW st \in [Ports -> Links], NEW lb \in [Ports -> BOOLEAN],
           NEW bl \in [Ports -> BOOLEAN], NEW answers \in Answers,
           ScanFrom(st, lb, bl, answers), loopback' = lb,
           \A p \in Ports : ~lb[p] /\ ~bl[p] => st[p] = link[p]
    PROVE  StatusAgrees'
<1>. SUFFICES ASSUME NEW p \in Ports, ~lb[p], ~blind'[p]
              PROVE  status'[p] = link'[p]
  BY DEF StatusAgrees
<1>1. PICK A \in SUBSET Ports : answers \in [A -> Links]
  BY DEF Answers
<1>2. CASE p \in DOMAIN answers /\ answers[p] # link[p]
  BY <1>1, <1>2 DEF ScanFrom, Handled, Links
<1>3. CASE p \in DOMAIN answers /\ answers[p] = link[p]
  <2>1. link'[p] = link[p] /\ status'[p] = st[p]
    BY <1>3 DEF ScanFrom, Handled
  <2>2. ~bl[p]
    BY <2>1 DEF ScanFrom
  <2>. QED
    BY <2>1, <2>2
<1>4. CASE p \notin DOMAIN answers
  <2>1. link'[p] = link[p] /\ status'[p] = st[p]
    BY <1>4 DEF ScanFrom
  <2>2. ~bl[p]
    BY <2>1 DEF ScanFrom
  <2>. QED
    BY <2>1, <2>2
<1>. QED
  BY <1>2, <1>3, <1>4

-----------------------------------------------------------------------------
(* A step that scans and leaves the notification alone keeps the invariant if *)
(* the copies of each link agreed, or were marked, before it scanned.         *)
LEMMA ScanStep ==
    ASSUME IInv,
           NEW st \in [Ports -> Links], NEW lb \in [Ports -> BOOLEAN],
           NEW bl \in [Ports -> BOOLEAN], NEW answers \in Answers,
           ScanFrom(st, lb, bl, answers), loopback' = lb,
           \A p \in Ports : ~lb[p] /\ ~bl[p] => st[p] = link[p],
           UNCHANGED <<linkchange_status, linkchange_handlers, told, walk>>
    PROVE  IInv'
<1>1. TypeOK'
  <2>1. /\ status' \in [Ports -> Links] /\ link' \in [Ports -> Links]
        /\ blind' \in [Ports -> BOOLEAN]
    BY ScanType DEF IInv
  <2>. QED
    BY <2>1 DEF IInv, TypeOK
<1>2. StatusAgrees'
  BY ScanAgrees DEF IInv
<1>3. Injective(linkchange_handlers)'
  BY DEF IInv, Injective
<1>4. WalkLink' /\ ToldInv'
  BY DEF IInv, WalkLink, ToldInv, ToTell
<1>. QED
  BY <1>1, <1>2, <1>3, <1>4 DEF IInv

LEMMA LinkscanStep ==
    ASSUME IInv, NEW answers \in Answers, Linkscan(answers)
    PROVE  IInv'
<1>1. \A p \in Ports : ~loopback[p] /\ ~blind[p] => status[p] = link[p]
  BY DEF IInv, StatusAgrees
<1>2. /\ status \in [Ports -> Links] /\ loopback \in [Ports -> BOOLEAN]
      /\ blind \in [Ports -> BOOLEAN]
  BY DEF IInv, TypeOK
<1>. QED
  BY <1>1, <1>2, ScanStep DEF Linkscan

LEMMA LoopbackSetStep ==
    ASSUME IInv, NEW p \in Ports, NEW lb \in BOOLEAN, NEW outcome \in Outcomes,
           NEW l \in Links, NEW enable \in Links, NEW answers \in Answers,
           LoopbackSet(p, lb, outcome, l, enable, answers)
    PROVE  IInv'
<1>. DEFINE st == LoopStatus(p, lb, outcome, l, enable)
            bl == [blind EXCEPT ![p] = ~loopback'[p] /\ l # link[p]]
<1>1. PICK now \in {loopback[p], lb, FALSE} :
          /\ loopback' = [loopback EXCEPT ![p] = now]
          /\ outcome # "refused" => now = lb
  BY DEF LoopbackSet
<1>2. now \in BOOLEAN /\ loopback' \in [Ports -> BOOLEAN] /\ loopback'[p] = now
  BY <1>1 DEF IInv, TypeOK
<1>3. st \in [Ports -> Links]
  BY DEF LoopStatus, IInv, TypeOK
<1>4. bl \in [Ports -> BOOLEAN]
  BY DEF IInv, TypeOK
<1>5. ASSUME NEW q \in Ports, ~loopback'[q], ~bl[q]
      PROVE  st[q] = link[q]
  <2>1. CASE q = p
    <3>1. l = link[p]
      BY <1>2, <1>5, <2>1 DEF IInv, TypeOK
    <3>2. ~lb \/ outcome = "refused"
      BY <1>1, <1>2, <1>5, <2>1
    <3>. QED
      BY <2>1, <3>1, <3>2 DEF LoopStatus, IInv, TypeOK
  <2>2. CASE q # p
    BY <1>1, <1>5, <2>2 DEF LoopStatus, IInv, TypeOK, StatusAgrees
  <2>. QED
    BY <2>1, <2>2
<1>6. ScanFrom(st, loopback', bl, answers)
  BY DEF LoopbackSet
<1>7. UNCHANGED <<linkchange_status, linkchange_handlers, told, walk>>
  BY DEF LoopbackSet
<1>. HIDE DEF st, bl
<1>. QED
  BY <1>2, <1>3, <1>4, <1>5, <1>6, <1>7, ScanStep

LEMMA EnableSetStep ==
    ASSUME IInv, NEW p \in Ports, NEW enable \in Links, NEW answers \in Answers,
           EnableSet(p, enable, answers)
    PROVE  IInv'
<1>. DEFINE st == IF loopback[p] THEN [status EXCEPT ![p] = enable] ELSE status
<1>1. st \in [Ports -> Links]
  BY DEF IInv, TypeOK
<1>2. \A q \in Ports : ~loopback[q] /\ ~blind[q] => st[q] = link[q]
  BY DEF IInv, TypeOK, StatusAgrees
<1>3. loopback \in [Ports -> BOOLEAN] /\ blind \in [Ports -> BOOLEAN]
  BY DEF IInv, TypeOK
<1>4. ScanFrom(st, loopback, blind, answers)
  BY DEF EnableSet
<1>5. UNCHANGED <<loopback, linkchange_status, linkchange_handlers, told, walk>>
  BY DEF EnableSet
<1>. HIDE DEF st
<1>. QED
  BY <1>1, <1>2, <1>3, <1>4, <1>5, ScanStep

-----------------------------------------------------------------------------
(* Functions enter free slots and leave their own: none is in two.            *)
LEMMA FirstOfSlots ==
    ASSUME NEW S \in SUBSET (1..Slots), S # {}
    PROVE  FirstOf(S) \in S /\ \A j \in S : FirstOf(S) <= j
<1>. DEFINE R == OpToRel(<, Nat)
<1>1. \A i, j \in Nat : <<j, i>> \in R <=> j < i
  BY DEF OpToRel
<1>2. IsWellFoundedOn(R, Nat)
  BY NatLessThanWellFounded
<1>. HIDE DEF R
<1>3. PICK i \in S : \A j \in S : ~(<<j, i>> \in R)
  BY <1>2, WFMin, S \subseteq Nat
<1>4. \A j \in S : i <= j
  <2>. TAKE j \in S
  <2>1. i \in Nat /\ j \in Nat
    OBVIOUS
  <2>2. ~(<<j, i>> \in R)
    BY <1>3
  <2>3. ~(j < i)
    BY <1>1, <2>1, <2>2
  <2>. QED
    BY <2>1, <2>3
<1>. QED
  BY <1>4 DEF FirstOf

LEMMA RegisterStep ==
    ASSUME IInv, NEW h \in Handlers, Register(h)
    PROVE  IInv'
<1>. DEFINE k == FirstOf(Slot(NULL))
<1>1. k \in 1..Slots /\ linkchange_handlers[k] = NULL
  BY FirstOfSlots DEF Register, Slot
<1>2. /\ linkchange_handlers' = [linkchange_handlers EXCEPT ![k] = h]
      /\ told' = [told EXCEPT ![h] = [p \in Ports |-> IF walk.at = "call" /\ walk.port = p
                                                     THEN "untold" ELSE linkchange_status[p]]]
      /\ UNCHANGED <<loopback, status, link, blind, linkchange_status, walk>>
      /\ \A i \in 1..Slots : linkchange_handlers[i] # h
      /\ walk.at \in {"idle", "call"}
  BY DEF Register, Registered, Slot, Polling
<1>. HIDE DEF k
<1>3. TypeOK'
  BY <1>1, <1>2 DEF IInv, TypeOK, Links
<1>4. StatusAgrees' /\ WalkLink'
  BY <1>2 DEF IInv, StatusAgrees, WalkLink
<1>5. Injective(linkchange_handlers)'
  BY <1>1, <1>2 DEF IInv, TypeOK, Injective
<1>6. ToldInv'
  <2>. SUFFICES ASSUME NEW i \in 1..Slots, NEW p \in Ports, linkchange_handlers'[i] \in Handlers
                PROVE  IF ToTell(i)' /\ p = walk'.port
                       THEN told'[linkchange_handlers'[i]][p] # walk'.link
                       ELSE told'[linkchange_handlers'[i]][p] \in {"untold", linkchange_status'[p]}
    BY DEF ToldInv
  <2>1. CASE i = k
    <3>1. linkchange_handlers'[i] = h
      BY <1>1, <1>2, <2>1 DEF IInv, TypeOK
    <3>2. told'[h][p] = IF walk.at = "call" /\ walk.port = p THEN "untold" ELSE linkchange_status[p]
      BY <1>2 DEF IInv, TypeOK
    <3>3. walk.link # "untold"
      BY DEF IInv, TypeOK, Links
    <3>. QED
      BY <1>2, <3>1, <3>2, <3>3 DEF ToTell
  <2>2. CASE i # k
    <3>1. linkchange_handlers'[i] = linkchange_handlers[i] /\ linkchange_handlers[i] # h
      BY <1>1, <1>2, <2>2 DEF IInv, TypeOK
    <3>2. told'[linkchange_handlers[i]] = told[linkchange_handlers[i]]
      BY <1>2, <3>1 DEF IInv, TypeOK
    <3>. QED
      BY <1>2, <3>1, <3>2 DEF IInv, ToldInv, ToTell
  <2>. QED
    BY <2>1, <2>2
<1>. QED
  BY <1>3, <1>4, <1>5, <1>6 DEF IInv

LEMMA UnregisterStep ==
    ASSUME IInv, NEW h \in Handlers, Unregister(h)
    PROVE  IInv'
<1>. DEFINE k == FirstOf(Slot(h))
<1>1. k \in 1..Slots
  BY FirstOfSlots DEF Unregister, Registered, Slot
<1>2. /\ linkchange_handlers' = [linkchange_handlers EXCEPT ![k] = NULL]
      /\ UNCHANGED <<loopback, status, link, blind, linkchange_status, told, walk>>
  BY DEF Unregister
<1>. HIDE DEF k
<1>3. TypeOK'
  BY <1>1, <1>2 DEF IInv, TypeOK
<1>4. StatusAgrees' /\ WalkLink'
  BY <1>2 DEF IInv, StatusAgrees, WalkLink
<1>5. Injective(linkchange_handlers)'
  BY <1>1, <1>2 DEF IInv, TypeOK, Injective
<1>6. ToldInv'
  BY <1>1, <1>2 DEF IInv, TypeOK, ToldInv, ToTell
<1>. QED
  BY <1>3, <1>4, <1>5, <1>6 DEF IInv

-----------------------------------------------------------------------------
(* The types once a step leaves the links and the table alone.                *)
WalkType ==
    /\ walk.at \in {"slot", "call"} => walk.port \in Ports /\ walk.slot \in 1..Slots
    /\ walk \in [at : {"idle", "port", "slot", "call"}, port : 0..(NumPorts + 1),
                slot : 0..Slots, link : Links]

LEMMA WalkFields ==
    ASSUME TypeOK
    PROVE  /\ walk.at \in {"idle", "port", "slot", "call"} /\ walk.port \in 0..(NumPorts + 1)
           /\ walk.slot \in 0..Slots /\ walk.link \in Links
           /\ walk = [at |-> walk.at, port |-> walk.port, slot |-> walk.slot, link |-> walk.link]
<1>. DEFINE W == [at : {"idle", "port", "slot", "call"}, port : 0..(NumPorts + 1),
                  slot : 0..Slots, link : Links]
<1>1. walk \in W
  BY DEF TypeOK
<1>. QED
  BY <1>1

LEMMA WalkIs ==
    ASSUME NEW a \in {"idle", "port", "slot", "call"}, NEW q \in 0..(NumPorts + 1),
           NEW s \in 0..Slots, NEW l \in Links,
           walk' = [at |-> a, port |-> q, slot |-> s, link |-> l],
           a \in {"slot", "call"} => q \in Ports /\ s \in 1..Slots
    PROVE  WalkType'
<1>1. walk' \in [at : {"idle", "port", "slot", "call"}, port : 0..(NumPorts + 1),
                slot : 0..Slots, link : Links]
  OBVIOUS
<1>2. walk'.at = a /\ walk'.port = q /\ walk'.slot = s
  OBVIOUS
<1>. QED
  BY <1>1, <1>2 DEF WalkType

LEMMA WalkTypeOK ==
    ASSUME IInv, WalkType', linkchange_status' \in [Ports -> Links],
           told' \in [Handlers -> [Ports -> Links \cup {"untold"}]],
           UNCHANGED <<loopback, status, link, blind, linkchange_handlers>>
    PROVE  TypeOK'
  BY DEF IInv, TypeOK, WalkType

(* sys_linkchange_timer between the handlers.                                 *)
LEMMA BetweenStep ==
    ASSUME IInv, TimerFires \/ TimerReturns
    PROVE  IInv'
<1>1. /\ UNCHANGED <<loopback, status, link, blind, linkchange_status, linkchange_handlers, told>>
      /\ walk.at \in {"idle", "port"}
      /\ \/ walk' = [at |-> "port", port |-> 1, slot |-> 0, link |-> "down"]
         \/ walk' = [at |-> "idle", port |-> 0, slot |-> 0, link |-> "down"]
  <2>1. CASE TimerFires
    BY <2>1 DEF TimerFires, Idle
  <2>2. CASE TimerReturns
    BY <2>2 DEF TimerReturns, Idle
  <2>. QED
    BY <2>1, <2>2
<1>2. WalkType' /\ walk'.at \in {"port", "idle"}
  BY <1>1 DEF WalkType, Links
<1>3. TypeOK'
  BY <1>1, <1>2, WalkTypeOK DEF IInv, TypeOK
<1>4. StatusAgrees' /\ WalkLink'
  BY <1>1, <1>2 DEF IInv, StatusAgrees, WalkLink
<1>5. Injective(linkchange_handlers)'
  BY <1>1 DEF IInv, Injective
<1>6. ToldInv'
  BY <1>1, <1>2 DEF IInv, ToldInv, ToTell
<1>. QED
  BY <1>3, <1>4, <1>5, <1>6 DEF IInv

LEMMA CheckPortStep ==
    ASSUME IInv, CheckPort
    PROVE  IInv'
<1>1. CASE Unchanged(walk.port)
  <2>1. /\ walk' = [walk EXCEPT !.port = walk.port + 1] /\ walk.at = "port" /\ walk.port \in Ports
        /\ UNCHANGED <<loopback, status, link, blind, linkchange_status, linkchange_handlers, told>>
    BY <1>1 DEF CheckPort
  <2>2. TypeOK'
    <3>. DEFINE q == walk.port + 1
    <3>1. q \in 0..(NumPorts + 1)
      BY <2>1 DEF Ports
    <3>. HIDE DEF q
    <3>2. walk' = [at |-> "port", port |-> q, slot |-> walk.slot, link |-> walk.link]
      BY <2>1, WalkFields DEF IInv, q
    <3>3. WalkType'
      BY <3>1, <3>2, WalkIs, WalkFields DEF IInv
    <3>. QED
      BY <2>1, <3>3, WalkTypeOK DEF IInv, TypeOK
  <2>3. StatusAgrees' /\ WalkLink' /\ Injective(linkchange_handlers)'
    BY <2>1 DEF IInv, TypeOK, StatusAgrees, WalkLink
  <2>4. ToldInv'
    BY <2>1 DEF IInv, TypeOK, ToldInv, ToTell
  <2>. QED
    BY <2>2, <2>3, <2>4 DEF IInv
<1>2. CASE ~Unchanged(walk.port)
  <2>. DEFINE p == walk.port
  <2>1. /\ walk.at = "port" /\ p \in Ports
        /\ walk' = [walk EXCEPT !.at = "slot", !.slot = 1, !.link = status[p]]
        /\ linkchange_status' = [linkchange_status EXCEPT ![p] = status[p]]
        /\ linkchange_status[p] # status[p]
        /\ UNCHANGED <<loopback, status, link, blind, linkchange_handlers, told>>
    BY <1>2 DEF CheckPort, Unchanged
  <2>2. TypeOK'
    <3>1. status[p] \in Links /\ linkchange_status' \in [Ports -> Links]
      BY <2>1 DEF IInv, TypeOK
    <3>2. p \in 0..(NumPorts + 1) /\ 1 \in 0..Slots /\ 1 \in 1..Slots
      BY <2>1 DEF Ports
    <3>3. walk' = [at |-> "slot", port |-> p, slot |-> 1, link |-> status[p]]
      BY <2>1, WalkFields DEF IInv
    <3>4. WalkType'
      BY <2>1, <3>1, <3>2, <3>3, WalkIs
    <3>. QED
      BY <2>1, <3>1, <3>4, WalkTypeOK DEF IInv, TypeOK
  <2>3. /\ walk'.at = "slot" /\ walk'.port = p /\ walk'.slot = 1 /\ walk'.link = status[p]
    BY <2>1 DEF IInv, TypeOK
  <2>4. StatusAgrees' /\ WalkLink' /\ Injective(linkchange_handlers)'
    BY <2>1, <2>3 DEF IInv, TypeOK, StatusAgrees, WalkLink
  <2>5. ToldInv'
    <3>. SUFFICES ASSUME NEW i \in 1..Slots, NEW q \in Ports, linkchange_handlers[i] \in Handlers
                  PROVE  IF q = p
                         THEN told[linkchange_handlers[i]][q] # status[p]
                         ELSE told[linkchange_handlers[i]][q] \in {"untold", linkchange_status'[q]}
      BY <2>1, <2>3 DEF ToldInv, ToTell
    <3>1. told[linkchange_handlers[i]][q] \in {"untold", linkchange_status[q]}
      BY <2>1 DEF IInv, ToldInv, ToTell
    <3>2. status[p] # "untold"
      BY <2>1 DEF IInv, TypeOK, Links
    <3>. QED
      BY <2>1, <3>1, <3>2 DEF IInv, TypeOK
  <2>. QED
    BY <2>2, <2>4, <2>5 DEF IInv
<1>. QED
  BY <1>1, <1>2

(* The walk leaves a slot that is free, or whose handler returned.            *)
LEMMA LeaveSlotStep ==
    ASSUME IInv, NextSlot \/ Return
    PROVE  IInv'
<1>. DEFINE i == walk.slot
<1>1. /\ walk.at \in {"slot", "call"} /\ i \in 1..Slots /\ walk.port \in Ports
      /\ walk.at = "slot" => linkchange_handlers[i] = NULL
      /\ walk' = IF i < Slots THEN [walk EXCEPT !.at = "slot", !.slot = i + 1]
                 ELSE [Idle EXCEPT !.at = "port", !.port = walk.port + 1]
      /\ UNCHANGED <<loopback, status, link, blind, linkchange_status, linkchange_handlers, told>>
  <2>1. CASE NextSlot
    BY <2>1 DEF NextSlot, LastSlot, IInv, TypeOK
  <2>2. CASE Return
    BY <2>2 DEF Return, LastSlot, IInv, TypeOK
  <2>. QED
    BY <2>1, <2>2
<1>2. TypeOK'
  <2>1. CASE i < Slots
    <3>. DEFINE j == i + 1
    <3>1. j \in 0..Slots /\ j \in 1..Slots
      BY <1>1, <2>1
    <3>. HIDE DEF j
    <3>2. walk' = [at |-> "slot", port |-> walk.port, slot |-> j, link |-> walk.link]
      BY <1>1, <2>1, WalkFields DEF IInv, j
    <3>3. WalkType'
      BY <1>1, <3>1, <3>2, WalkIs, WalkFields DEF IInv
    <3>. QED
      BY <1>1, <3>3, WalkTypeOK DEF IInv, TypeOK
  <2>2. CASE ~(i < Slots)
    <3>1. walk' = [at |-> "port", port |-> walk.port + 1, slot |-> 0, link |-> "down"]
      BY <1>1, <2>2 DEF Idle
    <3>2. /\ walk.port + 1 \in 0..(NumPorts + 1) /\ 0 \in 0..Slots
          /\ "down" \in Links
      BY <1>1 DEF Links, Ports
    <3>3. WalkType'
      BY <3>1, <3>2, WalkIs
    <3>. QED
      BY <1>1, <3>3, WalkTypeOK DEF IInv, TypeOK
  <2>. QED
    BY <2>1, <2>2
<1>3. StatusAgrees' /\ WalkLink' /\ Injective(linkchange_handlers)'
  BY <1>1 DEF IInv, TypeOK, StatusAgrees, WalkLink, Idle
<1>4. ToldInv'
  <2>. SUFFICES ASSUME NEW j \in 1..Slots, NEW p \in Ports, linkchange_handlers[j] \in Handlers
                PROVE  IF ToTell(j)' /\ p = walk'.port
                       THEN told[linkchange_handlers[j]][p] # walk'.link
                       ELSE told[linkchange_handlers[j]][p] \in {"untold", linkchange_status[p]}
    BY <1>1 DEF ToldInv
  <2>1. CASE i < Slots
    <3>1. walk'.at = "slot" /\ walk'.slot = i + 1 /\ walk'.port = walk.port /\ walk'.link = walk.link
      BY <1>1, <2>1 DEF IInv, TypeOK
    <3>2. ToTell(j)' <=> i + 1 <= j
      BY <3>1 DEF ToTell
    <3>3. ToTell(j) <=> i + 1 <= j
      BY <1>1 DEF ToTell
    <3>. QED
      BY <3>1, <3>2, <3>3 DEF IInv, ToldInv
  <2>2. CASE ~(i < Slots)
    <3>1. ~ToTell(j)'
      BY <1>1, <2>2 DEF ToTell, Idle
    <3>2. ~ToTell(j)
      BY <1>1, <2>2 DEF ToTell
    <3>. QED
      BY <3>1, <3>2 DEF IInv, ToldInv
  <2>. QED
    BY <2>1, <2>2
<1>. QED
  BY <1>2, <1>3, <1>4 DEF IInv

LEMMA CallStep ==
    ASSUME IInv, NEW h \in Handlers, Call(h)
    PROVE  IInv'
<1>. DEFINE i == walk.slot
<1>1. /\ walk.at = "slot" /\ i \in 1..Slots /\ linkchange_handlers[i] = h /\ walk.port \in Ports
      /\ told' = [told EXCEPT ![h][walk.port] = walk.link]
      /\ walk' = [walk EXCEPT !.at = "call"]
      /\ UNCHANGED <<loopback, status, link, blind, linkchange_status, linkchange_handlers>>
  BY DEF Call, LastSlot, IInv, TypeOK
<1>2. /\ walk'.at = "call" /\ walk'.slot = i /\ walk'.port = walk.port /\ walk'.link = walk.link
  BY <1>1 DEF IInv, TypeOK
<1>3. TypeOK'
  BY <1>1, <1>2 DEF IInv, TypeOK
<1>4. StatusAgrees' /\ WalkLink' /\ Injective(linkchange_handlers)'
  BY <1>1, <1>2 DEF IInv, StatusAgrees, WalkLink
<1>5. ToldInv'
  <2>. SUFFICES ASSUME NEW j \in 1..Slots, NEW p \in Ports, linkchange_handlers[j] \in Handlers
                PROVE  IF i < j /\ p = walk.port
                       THEN told'[linkchange_handlers[j]][p] # walk.link
                       ELSE told'[linkchange_handlers[j]][p] \in {"untold", linkchange_status[p]}
    BY <1>1, <1>2 DEF ToldInv, ToTell
  <2>1. CASE j = i /\ p = walk.port
    <3>1. told'[h][p] = walk.link
      BY <1>1, <2>1 DEF IInv, TypeOK
    <3>2. walk.link = linkchange_status[p]
      BY <1>1, <2>1 DEF IInv, WalkLink
    <3>. QED
      BY <1>1, <2>1, <3>1, <3>2
  <2>2. CASE j = i /\ p # walk.port
    <3>1. told'[h][p] = told[h][p]
      BY <1>1, <2>2 DEF IInv, TypeOK
    <3>. QED
      BY <1>1, <2>2, <3>1 DEF IInv, ToldInv
  <2>3. CASE j # i
    <3>1. linkchange_handlers[j] # h
      BY <1>1, <2>3 DEF IInv, Injective
    <3>2. told'[linkchange_handlers[j]] = told[linkchange_handlers[j]]
      BY <1>1, <3>1 DEF IInv, TypeOK
    <3>3. ToTell(j) <=> i < j
      BY <1>1, <2>3 DEF ToTell
    <3>. QED
      BY <3>2, <3>3 DEF IInv, ToldInv
  <2>. QED
    BY <2>1, <2>2, <2>3
<1>. QED
  BY <1>3, <1>4, <1>5 DEF IInv

-----------------------------------------------------------------------------
LEMMA NextInv ==
    ASSUME IInv, [Next]_vars
    PROVE  IInv'
<1>1. CASE UNCHANGED vars
  BY <1>1 DEF vars, IInv, TypeOK, StatusAgrees, Injective, WalkLink, ToldInv, ToTell
<1>2. CASE Commands
  BY <1>2, LinkscanStep, EnableSetStep, LoopbackSetStep DEF Commands
<1>3. CASE Registration
  BY <1>3, RegisterStep, UnregisterStep DEF Registration
<1>4. CASE Notification
  BY <1>4, BetweenStep, CheckPortStep, LeaveSlotStep DEF Notification
<1>5. CASE \E h \in Handlers : Call(h)
  BY <1>5, CallStep
<1>. QED
  BY <1>1, <1>2, <1>3, <1>4, <1>5 DEF Next

(* What a reader sees of the invariant.                                       *)
LEMMA ToldFromInv ==
    ASSUME IInv
    PROVE  ToldCurrent /\ NeverToldTwice
<1>1. ASSUME NEW h \in Handlers, NEW p \in Ports, Registered(h),
             ~(walk.at \in {"slot", "call"} /\ walk.port = p /\ walk.slot <= FirstOf(Slot(h)))
      PROVE  told[h][p] \in {"untold", linkchange_status[p]}
  <2>. DEFINE i == FirstOf(Slot(h))
  <2>1. i \in 1..Slots /\ linkchange_handlers[i] = h
    BY <1>1, FirstOfSlots DEF Registered, Slot
  <2>2. ~(ToTell(i) /\ p = walk.port)
    BY <1>1, <2>1 DEF ToTell, IInv, TypeOK
  <2>. QED
    BY <2>1, <2>2 DEF IInv, ToldInv
<1>2. ASSUME NEW h \in Handlers, walk.at = "slot", linkchange_handlers[walk.slot] = h
      PROVE  told[h][walk.port] # walk.link
  BY <1>2 DEF IInv, TypeOK, ToldInv, ToTell
<1>. QED
  BY <1>1, <1>2 DEF ToldCurrent, NeverToldTwice

LEMMA Invariant == Spec => []IInv
<1>1. Init => IInv
  BY InitInv DEF Init, Injective
<1>2. IInv /\ [Next]_vars => IInv'
  BY NextInv
<1>. QED
  BY <1>1, <1>2, PTL DEF Spec

(* Types: no walk leaves the ports or the table.                              *)
THEOREM TypeCorrect == Spec => []TypeOK
  BY Invariant, PTL DEF IInv

(* fllinkscan.c and pcm_phyctrl_hounds.c: the reported status is the scanned  *)
(* link, whatever the PHYs answer and the commands fail at.                   *)
THEOREM StatusAgreesCorrect == Spec => []StatusAgrees
  BY Invariant, PTL DEF IInv

(* sys_linkchange_timer: behind the walk every handler knows the noted link.  *)
THEOREM ToldCurrentCorrect == Spec => []ToldCurrent
<1>1. IInv => ToldCurrent
  BY ToldFromInv
<1>. QED
  BY <1>1, Invariant, PTL

(* sys_linkchange_timer: no handler is told a link twice.                     *)
THEOREM NeverToldTwiceCorrect == Spec => []NeverToldTwice
<1>1. IInv => NeverToldTwice
  BY ToldFromInv
<1>. QED
  BY <1>1, Invariant, PTL

-----------------------------------------------------------------------------
(* Link aggregation on top of the notification.                               *)
USE LagAssumption

LagTypes ==
    /\ lag_enable \in BOOLEAN
    /\ lag_group \in [Lags -> [enable : BOOLEAN, lpbmp : MemberSets]]
    /\ hw_lpbmp \in [Lags -> SUBSET Ports] /\ split \in [Lags -> SUBSET Ports]

LagSlot == linkchange_handlers[1] = LagHandler

(* The walk has changed port p and not told the LAG handler yet.              *)
Untold(p) == ToTell(1) /\ p = walk.port

FollowsInv ==
    \A g \in Lags, p \in Ports :
        lag_enable /\ Follows(g, p) /\ p \notin split[g] /\ ~Untold(p)
            => (p \in hw_lpbmp[g] <=> linkchange_status[p] = "up")

LagIInv == IInv /\ LagTypes /\ HwWithinConfig /\ LagSlot /\ FollowsInv

-----------------------------------------------------------------------------
LEMMA LagInitInv == LagInit => LagIInv
<1>. SUFFICES ASSUME LagInit PROVE LagIInv
  OBVIOUS
<1>. DEFINE table == [i \in 1..Slots |-> IF i = 1 THEN LagHandler ELSE NULL]
<1>1. table \in [1..Slots -> Handlers \cup {NULL}] /\ Injective(table)
  BY DEF Injective
<1>2. InitWith(table)
  BY DEF LagInit
<1>3. IInv
  <2>. HIDE DEF table
  <2>. QED
    BY <1>1, <1>2, InitInv
<1>4. LagSlot
  BY <1>2 DEF InitWith, LagSlot
<1>5. {} \in MemberSets
  <2>1. Cardinality({}) = 0
    BY FS_EmptySet
  <2>. QED
    BY <2>1 DEF MemberSets
<1>6. LagTypes
  BY <1>5 DEF LagInit, LagTypes
<1>7. HwWithinConfig /\ FollowsInv
  BY DEF LagInit, HwWithinConfig, FollowsInv
<1>. QED
  BY <1>3, <1>4, <1>6, <1>7 DEF LagIInv

-----------------------------------------------------------------------------
(* The handler keeps its slot: others take free slots and leave their own.    *)
LEMMA SlotKept ==
    ASSUME IInv, LagSlot, LinkNext
    PROVE  LagSlot'
<1>1. 1 \in 1..Slots /\ LagHandler # NULL
  OBVIOUS
<1>2. CASE Commands
  BY <1>2 DEF Commands, Linkscan, EnableSet, LoopbackSet, LagSlot
<1>3. CASE Notification
  BY <1>3 DEF Notification, TimerFires, CheckPort, TimerReturns, NextSlot, Return, LagSlot
<1>4. ASSUME NEW h \in Handlers \ {LagHandler}, Register(h)
      PROVE  LagSlot'
  <2>. DEFINE k == FirstOf(Slot(NULL))
  <2>1. k \in 1..Slots /\ linkchange_handlers[k] = NULL
    BY <1>4, FirstOfSlots DEF Register, Slot
  <2>2. linkchange_handlers' = [linkchange_handlers EXCEPT ![k] = h]
    BY <1>4 DEF Register
  <2>. HIDE DEF k
  <2>. QED
    BY <1>1, <2>1, <2>2 DEF LagSlot, IInv, TypeOK
<1>5. ASSUME NEW h \in Handlers \ {LagHandler}, Unregister(h)
      PROVE  LagSlot'
  <2>. DEFINE k == FirstOf(Slot(h))
  <2>1. k \in 1..Slots /\ linkchange_handlers[k] = h
    BY <1>5, FirstOfSlots DEF Unregister, Registered, Slot
  <2>2. linkchange_handlers' = [linkchange_handlers EXCEPT ![k] = NULL]
    BY <1>5 DEF Unregister
  <2>. HIDE DEF k
  <2>. QED
    BY <1>1, <2>1, <2>2 DEF LagSlot, IInv, TypeOK
<1>6. ASSUME NEW h \in Handlers, Call(h)
      PROVE  LagSlot'
  BY <1>6 DEF Call, LagSlot
<1>. QED
  BY <1>2, <1>3, <1>4, <1>5, <1>6 DEF LinkNext

(* No step but the call of the LAG handler takes a port past its slot, and no *)
(* port that is past it changes.                                              *)
LEMMA PastTheSlot ==
    ASSUME IInv, LagSlot, LinkNext, NEW p \in Ports, ~Untold(p)'
    PROVE  ~Untold(p) /\ linkchange_status'[p] = linkchange_status[p]
<1>1. CASE Commands
  <2>1. UNCHANGED <<linkchange_status, walk>>
    BY <1>1 DEF Commands, Linkscan, EnableSet, LoopbackSet
  <2>. QED
    BY <2>1 DEF Untold, ToTell
<1>2. CASE TimerFires \/ TimerReturns
  BY <1>2 DEF TimerFires, TimerReturns, Untold, ToTell
<1>3. CASE CheckPort
  <2>1. ~Untold(p)
    BY <1>3 DEF CheckPort, Untold, ToTell
  <2>2. CASE Unchanged(walk.port)
    BY <1>3, <2>1, <2>2 DEF CheckPort
  <2>3. CASE ~Unchanged(walk.port)
    <3>1. walk'.at = "slot" /\ walk'.slot = 1 /\ walk'.port = walk.port
      BY <1>3, <2>3, WalkFields DEF CheckPort, IInv
    <3>2. p # walk.port
      BY <3>1 DEF Untold, ToTell
    <3>. QED
      BY <1>3, <2>1, <2>3, <3>2 DEF CheckPort, IInv, TypeOK
  <2>. QED
    BY <2>2, <2>3
<1>4. CASE NextSlot \/ Return
  <2>1. /\ walk.at \in {"slot", "call"} /\ walk.slot \in 1..Slots
        /\ linkchange_status' = linkchange_status
    BY <1>4 DEF NextSlot, Return, IInv, TypeOK
  <2>2. walk.at = "slot" => walk.slot # 1
    BY <1>4, <2>1 DEF NextSlot, Return, LastSlot, LagSlot
  <2>. QED
    BY <2>1, <2>2 DEF Untold, ToTell
<1>5. ASSUME NEW h \in Handlers \ {LagHandler}, Register(h) \/ Unregister(h)
      PROVE  ~Untold(p) /\ linkchange_status'[p] = linkchange_status[p]
  BY <1>5 DEF Register, Unregister, Untold, ToTell
<1>6. ASSUME NEW h \in Handlers \ {LagHandler}, Call(h)
      PROVE  ~Untold(p) /\ linkchange_status'[p] = linkchange_status[p]
  <2>1. /\ walk.at = "slot" /\ walk.slot \in 1..Slots /\ walk.slot # 1
        /\ linkchange_status' = linkchange_status
    BY <1>6 DEF Call, LastSlot, LagSlot
  <2>. QED
    BY <2>1 DEF Untold, ToTell
<1>. QED
  BY <1>1, <1>2, <1>3, <1>4, <1>5, <1>6 DEF LinkNext, Notification

LEMMA LinkNextStep ==
    ASSUME LagIInv, LinkNext, UNCHANGED lagVars
    PROVE  LagIInv'
<1>1. IInv'
  BY NextInv DEF LagIInv, LinkNext, Next, Registration
<1>2. LagTypes' /\ HwWithinConfig'
  BY DEF LagIInv, lagVars, LagTypes, HwWithinConfig
<1>3. LagSlot'
  BY SlotKept DEF LagIInv
<1>4. FollowsInv'
  <2>. SUFFICES ASSUME NEW g \in Lags, NEW p \in Ports,
                       lag_enable, Follows(g, p), p \notin split[g], ~Untold(p)'
                PROVE  p \in hw_lpbmp[g] <=> linkchange_status'[p] = "up"
    BY DEF FollowsInv, lagVars, Follows
  <2>1. ~Untold(p) /\ linkchange_status'[p] = linkchange_status[p]
    BY PastTheSlot DEF LagIInv
  <2>. QED
    BY <2>1 DEF LagIInv, FollowsInv
<1>. QED
  BY <1>1, <1>2, <1>3, <1>4 DEF LagIInv

-----------------------------------------------------------------------------
(* The commands leave the notification alone.                                 *)
LEMMA CommandLeaves ==
    ASSUME IInv, LagSlot, UNCHANGED vars
    PROVE  IInv' /\ LagSlot'
<1>1. IInv'
  BY NextInv
<1>. QED
  BY <1>1 DEF vars, LagSlot

LEMMA LagSetStep ==
    ASSUME LagIInv, NEW enable \in BOOLEAN, LagSet(enable)
    PROVE  LagIInv'
<1>1. IInv' /\ LagSlot'
  BY CommandLeaves DEF LagSet, LagIInv
<1>2. /\ hw_lpbmp' = [g \in Lags |-> IF enable THEN UpMembers(lag_group[g].lpbmp) ELSE {}]
      /\ split' = [g \in Lags |-> IF enable THEN SplitMembers(lag_group[g].lpbmp) ELSE {}]
      /\ lag_enable' = enable /\ lag_group' = lag_group
      /\ linkchange_status' = linkchange_status
  BY DEF LagSet, vars
<1>3. \A g \in Lags : lag_group[g].lpbmp \in SUBSET Ports
  BY DEF LagIInv, LagTypes, MemberSets
<1>4. LagTypes'
  BY <1>2, <1>3 DEF LagIInv, LagTypes, UpMembers, SplitMembers
<1>5. HwWithinConfig'
  BY <1>2 DEF HwWithinConfig, UpMembers
<1>6. FollowsInv'
  BY <1>2 DEF FollowsInv, Follows, UpMembers, SplitMembers
<1>. QED
  BY <1>1, <1>4, <1>5, <1>6 DEF LagIInv

LEMMA LagGroupSetStep ==
    ASSUME LagIInv, NEW g \in Lags, NEW enable \in BOOLEAN, NEW lpbmp \in MemberSets,
           LagGroupSet(g, enable, lpbmp)
    PROVE  LagIInv'
<1>. DEFINE on == enable /\ lag_enable
            hw == IF on THEN UpMembers(lpbmp) ELSE {}
            sp == IF on THEN SplitMembers(lpbmp) ELSE {}
            group == [enable |-> enable, lpbmp |-> lpbmp]
<1>1. IInv' /\ LagSlot'
  BY CommandLeaves DEF LagGroupSet, LagIInv
<1>2. /\ lag_group' = [lag_group EXCEPT ![g] = group]
      /\ hw_lpbmp' = [hw_lpbmp EXCEPT ![g] = hw] /\ split' = [split EXCEPT ![g] = sp]
      /\ lag_enable' = lag_enable
      /\ UNCHANGED <<linkchange_status, walk>>
  BY DEF LagGroupSet, vars
<1>3. group \in [enable : BOOLEAN, lpbmp : MemberSets] /\ lpbmp \in SUBSET Ports
  BY DEF MemberSets
<1>4. hw \in SUBSET lpbmp /\ sp \in SUBSET lpbmp /\ (~lag_enable => hw = {})
  BY DEF UpMembers, SplitMembers
<1>5. LagTypes'
  <2>. HIDE DEF hw, sp, group
  <2>. QED
    BY <1>2, <1>3, <1>4 DEF LagIInv, LagTypes
<1>6. \A f \in Lags : /\ lag_group'[f] = IF f = g THEN group ELSE lag_group[f]
                      /\ hw_lpbmp'[f] = IF f = g THEN hw ELSE hw_lpbmp[f]
                      /\ split'[f] = IF f = g THEN sp ELSE split[f]
  <2>. HIDE DEF hw, sp, group
  <2>. QED
    BY <1>2 DEF LagIInv, LagTypes
<1>7. HwWithinConfig'
  BY <1>2, <1>4, <1>6 DEF LagIInv, HwWithinConfig
<1>8. FollowsInv'
  <2>. SUFFICES ASSUME NEW f \in Lags, NEW p \in Ports,
                       lag_enable, Follows(f, p)', p \notin split'[f], ~Untold(p)
                PROVE  p \in hw_lpbmp'[f] <=> linkchange_status[p] = "up"
    BY <1>2 DEF FollowsInv, Untold, ToTell
  <2>1. CASE f = g
    <3>1. enable /\ p \in lpbmp /\ hw_lpbmp'[f] = hw /\ split'[f] = sp
      BY <1>6, <2>1 DEF Follows
    <3>2. hw = UpMembers(lpbmp) /\ sp = SplitMembers(lpbmp)
      BY <3>1
    <3>. QED
      BY <3>1, <3>2 DEF UpMembers, SplitMembers
  <2>2. CASE f # g
    BY <1>6, <2>2 DEF LagIInv, FollowsInv, Follows
  <2>. QED
    BY <2>1, <2>2
<1>. QED
  BY <1>1, <1>5, <1>7, <1>8 DEF LagIInv

(* The call of the LAG handler: it stands in slot 1, and what it does to the  *)
(* port that changed is what the notification noted.                          *)
LEMMA LagLinkchangeStep ==
    ASSUME LagIInv, LagLinkchange
    PROVE  LagIInv'
<1>. DEFINE p == walk.port
            Changed(g) == lag_enable /\ Follows(g, p)
            hw(g) == IF ~Changed(g) THEN hw_lpbmp[g]
                     ELSE IF walk.link = "up" THEN hw_lpbmp[g] \cup {p} ELSE hw_lpbmp[g] \ {p}
            sp(g) == IF Changed(g) THEN split[g] \ {p} ELSE split[g]
<1>1. /\ Call(LagHandler) /\ lag_enable' = lag_enable /\ lag_group' = lag_group
      /\ hw_lpbmp' = [g \in Lags |-> hw(g)] /\ split' = [g \in Lags |-> sp(g)]
  BY DEF LagLinkchange
<1>2. IInv'
  BY <1>1, CallStep DEF LagIInv
<1>3. /\ walk.at = "slot" /\ walk.slot = 1 /\ p \in Ports
      /\ walk'.at = "call" /\ walk'.slot = 1
      /\ linkchange_status[p] = walk.link
      /\ UNCHANGED <<linkchange_status, linkchange_handlers>>
  <2>1. /\ walk.at = "slot" /\ walk.slot \in 1..Slots /\ p \in Ports
        /\ linkchange_handlers[walk.slot] = LagHandler
        /\ walk' = [walk EXCEPT !.at = "call"]
        /\ UNCHANGED <<linkchange_status, linkchange_handlers>>
    BY <1>1 DEF Call, LastSlot, LagIInv, IInv, TypeOK
  <2>2. walk.slot = 1
    BY <2>1 DEF LagIInv, IInv, Injective, LagSlot
  <2>3. walk'.at = "call" /\ walk'.slot = walk.slot
    BY <2>1, WalkFields DEF LagIInv, IInv
  <2>. QED
    BY <2>1, <2>2, <2>3 DEF LagIInv, IInv, WalkLink
<1>4. \A g \in Lags : hw(g) \in SUBSET Ports /\ sp(g) \in SUBSET Ports
  BY <1>3 DEF LagIInv, LagTypes
<1>5. LagTypes'
  BY <1>1, <1>4 DEF LagIInv, LagTypes
<1>6. HwWithinConfig'
  BY <1>1 DEF LagIInv, HwWithinConfig, Follows
<1>7. LagSlot'
  BY <1>3 DEF LagIInv, LagSlot
<1>8. FollowsInv'
  <2>. SUFFICES ASSUME NEW g \in Lags, NEW q \in Ports,
                       lag_enable, Follows(g, q), q \notin sp(g)
                PROVE  q \in hw(g) <=> linkchange_status[q] = "up"
    BY <1>1, <1>3 DEF FollowsInv, Follows
  <2>1. CASE q = p
    BY <1>3, <2>1 DEF LagIInv, IInv, TypeOK, Links
  <2>2. CASE q # p
    <3>1. ~Untold(q)
      BY <2>2 DEF Untold
    <3>2. q \in hw_lpbmp[g] <=> linkchange_status[q] = "up"
      BY <2>2, <3>1 DEF LagIInv, FollowsInv
    <3>. QED
      BY <2>2, <3>2
  <2>. QED
    BY <2>1, <2>2
<1>. QED
  BY <1>2, <1>5, <1>6, <1>7, <1>8 DEF LagIInv

-----------------------------------------------------------------------------
LEMMA LagNextInv ==
    ASSUME LagIInv, [LagNext]_allVars
    PROVE  LagIInv'
<1>1. CASE UNCHANGED allVars
  <2>1. IInv' /\ LagSlot'
    BY <1>1, CommandLeaves DEF allVars, LagIInv
  <2>. QED
    BY <1>1, <2>1 DEF allVars, vars, lagVars, LagIInv, LagTypes, HwWithinConfig,
                      FollowsInv, Follows, Untold, ToTell
<1>2. CASE LagCommands
  BY <1>2, LagSetStep, LagGroupSetStep DEF LagCommands
<1>3. CASE LagLinkchange
  BY <1>3, LagLinkchangeStep
<1>4. CASE LinkNext /\ UNCHANGED lagVars
  BY <1>4, LinkNextStep
<1>. QED
  BY <1>1, <1>2, <1>3, <1>4 DEF LagNext

LEMMA LagInvariant == LagSpec => []LagIInv
<1>1. LagIInv /\ [LagNext]_allVars => LagIInv'
  BY LagNextInv
<1>. QED
  BY <1>1, LagInitInv, PTL DEF LagSpec

(* Types of the notification and of the LAG tables together.                  *)
THEOREM LagTypeCorrect == LagSpec => []LagTypeOK
<1>1. LagIInv => LagTypeOK
  BY DEF LagIInv, IInv, LagTypes, LagTypeOK
<1>. QED
  BY <1>1, LagInvariant, PTL

(* The link status under the LAG commands: what the board reports is what the *)
(* scan found, as for LinkStatus alone.                                       *)
THEOREM LagStatusAgrees == LagSpec => []StatusAgrees
<1>1. LagIInv => StatusAgrees
  BY DEF LagIInv, IInv
<1>. QED
  BY <1>1, LagInvariant, PTL

(* sys_linkchange_timer: behind the walk every handler knows the noted link,  *)
(* from a table that already holds the LAG handler.                           *)
THEOREM LagToldCurrent == LagSpec => []ToldCurrent
<1>1. LagIInv => ToldCurrent
  BY ToldFromInv DEF LagIInv
<1>. QED
  BY <1>1, LagInvariant, PTL

(* sys_linkchange_timer: no handler, the LAG handler included, is told twice. *)
THEOREM LagNeverToldTwice == LagSpec => []NeverToldTwice
<1>1. LagIInv => NeverToldTwice
  BY ToldFromInv DEF LagIInv
<1>. QED
  BY <1>1, LagInvariant, PTL

(* board_lag_set, board_lag_group_set, board_lag_linkchange: the hardware     *)
(* aggregates members only, and nothing while LAG is off.                     *)
THEOREM HwWithinConfigCorrect == LagSpec => []HwWithinConfig
<1>1. LagIInv => HwWithinConfig
  BY DEF LagIInv
<1>. QED
  BY <1>1, LagInvariant, PTL

(* board_lag_linkchange: between two walks the hardware holds the members     *)
(* that the notification has up, but for those the last command split.        *)
THEOREM LagFollowsCorrect == LagSpec => []LagFollows
<1>1. LagIInv => LagFollows
  BY DEF LagIInv, FollowsInv, LagFollows, Untold, ToTell
<1>. QED
  BY <1>1, LagInvariant, PTL
=============================================================================
