------------------------------ MODULE IgmpSnoop ------------------------------
(* IGMP snooping: appl/igmpsnoop over the list of multicast addresses that    *)
(* the board keeps (mlist of systems/bcm95607x/src/board.c).                  *)
(*                                                                            *)
(* Reports, leaves and queries arrive in any order, also in another one than  *)
(* they were sent, since each is relayed, which polls, before it is used.     *)
(* The timer of one second runs between them.  A message that cannot be       *)
(* relayed, or is not of IGMPsnoop_vid, is not used: it does not arrive here. *)
(* Several groups share a MAC address, which one entry, the pioneer, stands   *)
(* for.  The hardware's tables behind mlist are left out, and so are groups   *)
(* whose MAC address ends in zeroes, which free entries have too.             *)
EXTENDS Integers, Sequences, FiniteSets, SequencesExt

CONSTANTS
    Groups, Macs,
    Mac,            \* compose_mc_mac
    Ports,
    V2Ports,        \* where hosts of version 2 are, of version 1 they are anywhere
    RouterPorts,    \* where queries may come from
    NumGroups,      \* NUM_IGMPgrp_PER_SYSTEM
    MaxLeaves,      \* MAX_IGMPleave
    LeaveTimeout,   \* IGMP_LEAVE_TIMEOUT and IGMP_SpecQUERY_TIMEOUT
    MaxTimeout,     \* the largest uint8
    Membership,     \* IGMP_group_membership_interval
    RouterInterval, \* IGMPparm_router_port_interval
    MaxNodes,       \* the nodes of mlist that the heap has room for
    RxSlots,        \* the places in the table of receive handlers
    NOGROUP

ASSUME IgmpSnoopAssumption ==
    /\ Mac \in [Groups -> Macs] /\ V2Ports \subseteq Ports /\ RouterPorts \subseteq Ports
    /\ {NumGroups, MaxLeaves, Membership, MaxNodes, RxSlots} \subseteq Nat \ {0}
    /\ RouterInterval \in Nat \ {0, 1}
    /\ LeaveTimeout \in 1..MaxTimeout /\ MaxTimeout \in Nat
    /\ NOGROUP \notin Groups

VARIABLES
    IGMPsnoop_enable, handlers, timer,  \* registrations of igmpsnoop_rx, and the timer's
    igmpDB,             \* igmpDB and IPMCuplist
    igmpLV,             \* the queue of leaves that igmpLeaveQ starts
    dynamic_router,     \* of IGMPsnoop_vid
    igmpsnoop_tick, router_port_tick,
    mlist,
    drifted             \* the MAC addresses whose ports in mlist may be off

service == <<IGMPsnoop_enable, handlers, timer>>
ticks == <<igmpsnoop_tick, router_port_tick>>
tables == <<igmpDB, mlist, drifted>>
igmpVars == <<service, igmpDB, igmpLV, dynamic_router, ticks, mlist, drifted>>

Entries == 1..NumGroups
InOrder == [i \in Entries |-> i]
Free == [gda |-> NOGROUP, pioneer |-> FALSE, age |-> {}, uplist |-> {}]
FirstOf(S) == CHOOSE i \in S : \A j \in S : i <= j

IgmpInit ==
    /\ IGMPsnoop_enable = FALSE /\ handlers = 0 /\ timer = FALSE
    /\ igmpDB = [i \in Entries |-> Free]
    /\ igmpLV = <<>>
    /\ dynamic_router = [age |-> {}, uplist |-> {}]
    /\ igmpsnoop_tick = Membership /\ router_port_tick = RouterInterval
    /\ mlist = <<>> /\ drifted = {}

-----------------------------------------------------------------------------
(* board_mcast_*: the first node of an address counts, and addr_add does not   *)
(* look for one.  addr_remove removes the head or else every node of it.       *)
Nodes(list, m) == {n \in DOMAIN list : list[n].mac = m}
NodeSet(list, m, ports) ==
    IF Nodes(list, m) = {} THEN list ELSE [list EXCEPT ![FirstOf(Nodes(list, m))].ports = ports]
Forwarded(list, m) == IF Nodes(list, m) = {} THEN {} ELSE list[FirstOf(Nodes(list, m))].ports
AddrAdd(list, m, ports) == <<[mac |-> m, ports |-> ports]>> \o list
AddrRemove(list, m) ==
    IF list # <<>> /\ Head(list).mac = m THEN Tail(list)
    ELSE FoldLeft(LAMBDA l, n : IF n.mac = m THEN l ELSE Append(l, n), <<>>, list)

(* The tables that the handlers change: igmpDB as db, mlist and drifted.       *)
Tables == [db |-> igmpDB, list |-> mlist, drift |-> drifted]
SetTables(T) == igmpDB' = T.db /\ mlist' = T.list /\ drifted' = T.drift

Found(db, g) == {i \in Entries : db[i].gda = g}
MacOf(db, i) == Mac[db[i].gda]
Sharing(db, m) == {i \in Entries : db[i].gda # NOGROUP /\ Mac[db[i].gda] = m}
Pals(db, i) == Sharing(db, MacOf(db, i)) \ {i}
Pioneers(db) == {i \in Entries : db[i].pioneer}
Members(db, S) == UNION {db[i].uplist : i \in S}
Reported(db, S) == UNION {db[i].age : i \in S}

(* igmpDB_update.  alloc: a new node of mlist is needed and there is memory.    *)
Join(i, g, p, pioneer) ==
    [igmpDB EXCEPT ![i] = [gda |-> g, pioneer |-> pioneer, age |-> @.age \cup {p},
                           uplist |-> @.uplist \cup {p}]]
Update(g, p, alloc) ==
    LET m == Mac[g]
        others == Sharing(igmpDB, m) # {}
    IN CASE Found(igmpDB, g) # {} ->
              LET i == FirstOf(Found(igmpDB, g)) IN
              SetTables([db |-> Join(i, g, p, igmpDB[i].pioneer),
                         list |-> NodeSet(mlist, m, Forwarded(mlist, m) \cup {p}),
                         drift |-> drifted])
         [] Found(igmpDB, g) = {} /\ Found(igmpDB, NOGROUP) # {} /\ alloc ->
              SetTables([db |-> Join(FirstOf(Found(igmpDB, NOGROUP)), g, p, ~others),
                         list |-> AddrAdd(mlist, m, {p} \cup dynamic_router.uplist),
                         drift |-> IF others THEN drifted \cup {m} ELSE drifted \ {m}])
         [] OTHER -> UNCHANGED tables

Queued(g, p) == {n \in DOMAIN igmpLV : igmpLV[n].gda = g /\ igmpLV[n].uport = p}

(* A report; igmpLeaveQ_delete comes with version 2.                           *)
Report(v, g, p, alloc) ==
    /\ IGMPsnoop_enable
    /\ alloc => Found(igmpDB, g) = {} /\ Len(mlist) < MaxNodes
    /\ igmpLV' = IF v = 2 /\ Queued(g, p) # {}
                 THEN RemoveAt(igmpLV, FirstOf(Queued(g, p))) ELSE igmpLV
    /\ Update(g, p, alloc)
    /\ UNCHANGED <<service, dynamic_router, ticks>>

(* A leave: igmpLeaveQ_insert.  A leave that is queued keeps the smaller       *)
(* timeout.                                                                    *)
Leave(g, p) ==
    /\ IGMPsnoop_enable /\ Found(igmpDB, g) # {}
    /\ IF Queued(g, p) # {}
       THEN igmpLV' = [igmpLV EXCEPT ![FirstOf(Queued(g, p))].timeout =
                           IF @ < LeaveTimeout THEN @ ELSE LeaveTimeout]
       ELSE /\ Len(igmpLV) < MaxLeaves
            /\ igmpLV' = <<[gda |-> g, uport |-> p, timeout |-> LeaveTimeout]>> \o igmpLV
    /\ UNCHANGED <<service, tables, dynamic_router, ticks>>

-----------------------------------------------------------------------------
(* L2MCportbmp_update of every pioneer with router_uplist_UPDATE.              *)
Recalculate(db, list, i, routers) ==
    IF i \notin Pioneers(db) THEN list
    ELSE NodeSet(list, MacOf(db, i), Members(db, Sharing(db, MacOf(db, i))) \cup routers)
CalculatedList(db, list, routers) ==
    FoldLeft(LAMBDA l, i : Recalculate(db, l, i, routers), list, InOrder)
Recalculated(T, routers) ==
    [T EXCEPT !.list = CalculatedList(T.db, @, routers), !.drift = {}]

(* A query on port p: igmpsnoop_router_port_add, and igmpLeaveQ_grant for the  *)
(* group it names, or NOGROUP.                                                 *)
Query(g, p) ==
    /\ IGMPsnoop_enable
    /\ dynamic_router' = [age |-> dynamic_router.age \cup {p}, uplist |-> dynamic_router.uplist \cup {p}]
    /\ SetTables(IF p \in dynamic_router.uplist THEN Tables
                 ELSE Recalculated(Tables, dynamic_router'.uplist))
    /\ igmpLV' = [n \in DOMAIN igmpLV |->
                     IF igmpLV[n].gda = g THEN [igmpLV[n] EXCEPT !.timeout = LeaveTimeout]
                     ELSE igmpLV[n]]
    /\ UNCHANGED <<service, ticks>>

-----------------------------------------------------------------------------
(* L2MCportbmp_CAST: the ports of an address are cut down to the summary.      *)
Cast(list, m, summary) == NodeSet(list, m, Forwarded(list, m) \cap summary)

\* Mutant of Aged: the ages are cleared first.
AgedToNothing(e) == [e EXCEPT !.uplist = {}, !.age = {}]
(* IPMCuplist_aging: the ports that were reported since the last one stay.     *)
Aged(e) == [e EXCEPT !.uplist = e.age, !.age = {}]
\* Mutant of TakeOver: the pioneer bit is not set.
TakeOverAsFollower(db, i, pal) == [db EXCEPT ![i] = db[pal], ![pal] = Free]
(* pal takes over from the pioneer i.                                          *)
TakeOver(db, i, pal) == [db EXCEPT ![i] = [db[pal] EXCEPT !.pioneer = TRUE], ![pal] = Free]
Removed(T, i) ==
    [T EXCEPT !.db[i] = Free,
              !.list = IF T.db[i].pioneer THEN AddrRemove(@, MacOf(T.db, i)) ELSE @]

(* igmpsnoop_IPMCentry_remove.                                                 *)
EntryRemove(T, i) ==
    LET pals == Pals(T.db, i)
    IN IF T.db[i].pioneer /\ pals # {}
       THEN [T EXCEPT !.list = Cast(@, MacOf(T.db, i), Members(T.db, pals) \cup dynamic_router.uplist),
                      !.db = TakeOver(@, i, FirstOf(pals))]
       ELSE Removed(T, i)

Without(e, port) == [e EXCEPT !.age = @ \ {port}, !.uplist = @ \ {port}]

(* A leave l of the entry i was not answered in time.  Another group of the    *)
(* address uses the port when it was reported for both since the last ageing.  *)
LeaveExpires(T, i, l) ==
    LET m == MacOf(T.db, i)
        pals == Pals(T.db, i)
        used == \E j \in pals : l.uport \in T.db[i].age \cap T.db[j].age
        left == [T EXCEPT !.db[i] = Without(@, l.uport),
                          !.list = IF used \/ l.uport \in dynamic_router.uplist THEN @
                                   ELSE Cast(@, m, Ports \ {l.uport}),
                          !.drift = IF pals = {} THEN @ ELSE @ \cup {m}]
    IN IF left.db[i].uplist = {} THEN EntryRemove(left, i) ELSE left

(* One leave of the queue.  A leave whose group is gone ends the walk if it is *)
(* the first one; else it is counted down once more, past zero.                *)
LeaveStep(W, l) ==
    LET i == Found(W.T.db, l.gda)
        t == IF l.timeout = 0 THEN MaxTimeout ELSE l.timeout - 1
        keep(timeout) == Append(W.queue, [l EXCEPT !.timeout = timeout])
    IN CASE W.ended              -> [W EXCEPT !.queue = Append(@, l)]
         [] ~W.ended /\ t # 0    -> [W EXCEPT !.queue = keep(t), !.first = FALSE]
         [] ~W.ended /\ t = 0 /\ i = {} ->
              IF W.first THEN [W EXCEPT !.queue = keep(0), !.ended = TRUE]
              ELSE [W EXCEPT !.queue = keep(MaxTimeout)]
         [] OTHER -> [W EXCEPT !.T = LeaveExpires(@, FirstOf(i), l), !.first = FALSE]
Leaves ==
    FoldLeft(LeaveStep, [T |-> Tables, queue |-> <<>>, first |-> TRUE, ended |-> FALSE], igmpLV)

(* IPMCuplist_summ_*: the entries before i are aged already.                   *)
Earlier(db, i) == {j \in Pals(db, i) : j < i}
Summary(db, i, routers) ==
    Members(db, Earlier(db, i)) \cup Reported(db, (Pals(db, i) \ Earlier(db, i)) \cup {i})
    \cup routers

(* The ageing of one entry, in the order of the table.                         *)
AgeEntry(T, i, routers) ==
    LET e == T.db[i]
        pals == Pals(T.db, i)
        m == MacOf(T.db, i)
        cast == IF e.pioneer THEN [T EXCEPT !.list = Cast(@, m, Summary(T.db, i, routers))] ELSE T
    IN CASE e.gda = NOGROUP -> T
         [] e.gda # NOGROUP /\ e.age # {} -> [cast EXCEPT !.db[i] = Aged(@)]
         [] e.gda # NOGROUP /\ e.age = {} /\ e.pioneer /\ pals # {} ->
              LET taken == TakeOver(T.db, i, FirstOf(pals)) IN
              [cast EXCEPT !.db = [taken EXCEPT ![i] = Aged(@)],
                           !.drift = IF Earlier(T.db, i) = {} THEN @ ELSE @ \cup {m}]
         [] OTHER -> Removed(cast, i)

AgeTables(T, routers) == FoldLeft(LAMBDA U, i : AgeEntry(U, i, routers), T, InOrder)

\* Mutant of RoutersAged: the ports are not aged.
RoutersKept(r) == [age |-> {}, uplist |-> r.uplist]
RoutersAged(r) == [age |-> {}, uplist |-> r.age]

(* igmpsnoop_one_sec_timer.                                                    *)
Down(tick, interval) == IF tick = 1 THEN interval ELSE tick - 1
Second ==
    /\ timer /\ IGMPsnoop_enable
    /\ router_port_tick' = Down(router_port_tick, RouterInterval)
OneSec ==
    /\ Second
    /\ igmpsnoop_tick' = Down(igmpsnoop_tick, Membership)
    /\ dynamic_router' = IF router_port_tick = 1 THEN RoutersAged(dynamic_router) ELSE dynamic_router
    /\ LET walk == Leaves
           routed == IF router_port_tick = 1
                     THEN Recalculated(walk.T, dynamic_router'.uplist) ELSE walk.T
       IN /\ igmpLV' = walk.queue
          /\ SetTables(IF igmpsnoop_tick = 1
                       THEN AgeTables(routed, dynamic_router'.uplist) ELSE routed)
    /\ UNCHANGED service

-----------------------------------------------------------------------------
(* igmpsnoop_database_init.                                                    *)
Emptied(db, list) ==
    FoldLeft(LAMBDA l, i : IF i \in Pioneers(db) THEN AddrRemove(l, MacOf(db, i)) ELSE l,
             list, InOrder)
DatabaseInit ==
    /\ igmpDB' = [i \in Entries |-> Free] /\ igmpLV' = <<>>
    /\ dynamic_router' = [age |-> {}, uplist |-> {}]
    /\ mlist' = Emptied(igmpDB, mlist)
    /\ drifted' = {}

\* Mutant of Succeeded: the timer may be missing.
SucceededWithoutTimer(rx, add, board) == rx /\ board
(* igmpsnoop_enable_set(TRUE).  rx, add and board: the calls succeed.  When    *)
(* snooping is on it changes nothing here.                                     *)
Succeeded(rx, add, board) == rx /\ add /\ board
Enable(rx, add, board) ==
    /\ ~IGMPsnoop_enable
    /\ rx => handlers < RxSlots
    /\ handlers' = IF rx THEN handlers + 1 ELSE handlers
    /\ timer' = (timer \/ (rx /\ add))
    /\ IF rx /\ add
       THEN igmpsnoop_tick' = Membership /\ router_port_tick' = RouterInterval
       ELSE UNCHANGED ticks
    /\ IGMPsnoop_enable' = Succeeded(rx, add, board)
    /\ UNCHANGED <<igmpLV, dynamic_router, tables>>

(* igmpsnoop_enable_set(FALSE).                                                *)
Disable ==
    /\ IGMPsnoop_enable' = FALSE /\ timer' = FALSE
    /\ handlers' = IF handlers = 0 THEN 0 ELSE handlers - 1
    /\ DatabaseInit
    /\ UNCHANGED ticks

(* igmpsnoop_vid_set and brdimpl_vlan_type_set.                                *)
ChangeVlan == DatabaseInit /\ UNCHANGED <<service, ticks>>

IgmpNext ==
    \/ \E g \in Groups, alloc \in BOOLEAN :
          \/ \E p \in Ports : Report(1, g, p, alloc)
          \/ \E p \in V2Ports : Report(2, g, p, alloc)
    \/ \E g \in Groups, p \in V2Ports : Leave(g, p)
    \/ \E g \in Groups \cup {NOGROUP}, p \in RouterPorts : Query(g, p)
    \/ OneSec
    \/ \E rx, add, board \in BOOLEAN : Enable(rx, add, board)
    \/ Disable \/ ChangeVlan

IgmpSpec == IgmpInit /\ [][IgmpNext]_igmpVars

(* KeepsRunning of Timer: a registered timer is called again and again.  The   *)
(* steps that count the router's interval down are those of OneSec.            *)
IgmpFairSpec == IgmpSpec /\ WF_router_port_tick(Second)

-----------------------------------------------------------------------------
(* Every variable holds a value of its type; no group has two entries, no port *)
(* two leaves for a group.                                                     *)
IgmpTypeOK ==
    /\ IGMPsnoop_enable \in BOOLEAN /\ handlers \in 0..RxSlots /\ timer \in BOOLEAN
    /\ \A i \in Entries : igmpDB[i] \in [gda : Groups \cup {NOGROUP}, pioneer : BOOLEAN,
                                         age : SUBSET Ports, uplist : SUBSET Ports]
    /\ \A g \in Groups : Cardinality(Found(igmpDB, g)) <= 1
    /\ Len(igmpLV) <= MaxLeaves
    /\ \A n \in DOMAIN igmpLV :
          igmpLV[n] \in [gda : Groups, uport : Ports, timeout : 0..MaxTimeout]
    /\ \A g \in Groups, p \in Ports : Cardinality(Queued(g, p)) <= 1
    /\ dynamic_router \in [age : SUBSET RouterPorts, uplist : SUBSET RouterPorts]
    /\ igmpsnoop_tick \in 1..Membership /\ router_port_tick \in 1..RouterInterval
    /\ Len(mlist) <= MaxNodes
    /\ \A n \in DOMAIN mlist : mlist[n] \in [mac : Macs, ports : SUBSET Ports]
    /\ drifted \subseteq Macs

(* igmpDB: of the groups that share a MAC address exactly one is the pioneer,  *)
(* through joins, leaves, ageing and take-overs, and its address is in mlist.  *)
OnePioneer ==
    /\ IgmpTypeOK
    /\ \A m \in Macs : Sharing(igmpDB, m) # {} =>
        /\ Cardinality(Sharing(igmpDB, m) \cap Pioneers(igmpDB)) = 1
        /\ Nodes(mlist, m) # {}

(* L2MCportbmp_*: the multicast goes to the ports of the members and of the    *)
(* routers, to all of them and to no others.  drifted has the addresses for    *)
(* which that need not hold until the next calculation of all ports: a second  *)
(* group joined, a leave expired while groups share the address, or a group    *)
(* that was aged already took over from the pioneer.                           *)
ForwardsMembers ==
    \A m \in Macs \ drifted : Sharing(igmpDB, m) # {} =>
        Forwarded(mlist, m) = Members(igmpDB, Sharing(igmpDB, m)) \cup dynamic_router.uplist

(* igmpsnoop_one_sec: a port that is not reported and not queried any more      *)
(* stops to get the multicast, whatever happened to its groups in between.     *)
AgesOut ==
    \A m \in Macs, p \in Ports :
        /\ <>[](p \notin Reported(igmpDB, Sharing(igmpDB, m)))
        /\ <>[](p \notin dynamic_router.age)
        => <>[](Sharing(igmpDB, m) = {} \/ p \notin Forwarded(mlist, m))

(* igmpsnoop_enable_set: snooping that is on has its handler and its timer,    *)
(* and off it has no members, also after attempts that failed halfway.         *)
Served ==
    /\ IGMPsnoop_enable => handlers # 0 /\ timer
    /\ ~IGMPsnoop_enable => Found(igmpDB, NOGROUP) = Entries /\ igmpLV = <<>>
=============================================================================
