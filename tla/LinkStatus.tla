----------------------------- MODULE LinkStatus -----------------------------
(* The link status of the switch ports: the software linkscan                 *)
(* (driver/soc/bcm5607x/fllinkscan.c), the port commands that write the same  *)
(* status (driver/pcm/pcm_phyctrl_hounds.c) and the notification of link      *)
(* changes (kernel/link.c).                                                   *)
(*                                                                            *)
(* Three copies of a port's link exist.  link is the scan's own, status is    *)
(* SOC_PORT_LINK_STATUS, which the board reports, and linkchange_status is    *)
(* what the handlers were told.  linkscan and the notification are timers,    *)
(* 100 ms and 600 ms; commands run in the main loop.  Handlers may poll, so   *)
(* that linkscan runs inside them, and register or unregister themselves.     *)
(* What a PHY answers, whether it answers, whether its port is enabled and    *)
(* whether the scan is switched off are inputs of each step.                  *)
EXTENDS Integers, FiniteSets

CONSTANTS
    NumPorts,       \* the user ports are 1..NumPorts
    LoopPorts,      \* ports whose loopback is commanded
    Handlers,       \* the functions that may be registered
    Slots,          \* CFG_MAX_REGISTERED_LINKCHANGE
    NULL

ASSUME LinkStatusAssumption ==
    /\ NumPorts \in Nat /\ LoopPorts \subseteq 1..NumPorts
    /\ Slots \in Nat \ {0} /\ NULL \notin Handlers

VARIABLES
    loopback,           \* the port loops back: pcm_port_loopback_get # NONE
    status,             \* SOC_PORT_LINK_STATUS
    link,               \* fl_sw_info.link
    blind,              \* a command set status to another link than the scan has
    linkchange_status,
    linkchange_handlers,
    told,               \* what each function was last told of each port
    walk                \* sys_linkchange_timer

vars == <<loopback, status, link, blind, linkchange_status, linkchange_handlers, told, walk>>

Ports == 1..NumPorts
Links == {"up", "down"}

(* Where sys_linkchange_timer is: between two ports, between two slots of a    *)
(* port that changed, or in a handler.                                         *)
Idle == [at |-> "idle", port |-> 0, slot |-> 0, link |-> "down"]

MainLoop == walk.at = "idle"
Polling == walk.at \in {"idle", "call"}

InitWith(table) ==
    /\ loopback = [p \in Ports |-> FALSE]
    /\ status = [p \in Ports |-> "down"] /\ link = status
    /\ blind = [p \in Ports |-> FALSE]
    /\ linkchange_status = [p \in Ports |-> "down"]
    /\ linkchange_handlers = table
    /\ told = [h \in Handlers |-> linkchange_status]
    /\ walk = Idle
Init == InitWith([i \in 1..Slots |-> NULL])

-----------------------------------------------------------------------------
(* bcm5607x_handle_link_up and _down: what one port's status becomes when the  *)
(* scan reads l and its own state says old.                                    *)
Handled(old, cur, looped, l) ==
    IF l = old \/ (looped /\ l = "down") THEN cur ELSE l

(* bcm5607x_linkscan_task over the ports that answer, from statuses st and     *)
(* loopbacks lb.  A change outside loopback brings both copies together.       *)
ScanFrom(st, lb, bl, answers) ==
    /\ status' = [p \in Ports |-> IF p \in DOMAIN answers
                                  THEN Handled(link[p], st[p], lb[p], answers[p]) ELSE st[p]]
    /\ link' = [p \in Ports |-> IF p \in DOMAIN answers THEN answers[p] ELSE link[p]]
    /\ blind' = [p \in Ports |-> bl[p] /\ link'[p] = link[p]]

Answers == UNION {[A -> Links] : A \in SUBSET Ports}

Linkscan(answers) ==
    /\ Polling
    /\ ScanFrom(status, loopback, blind, answers)
    /\ UNCHANGED <<loopback, linkchange_status, linkchange_handlers, told, walk>>

(* pcm_phyctrl_port_loopback_set.  l is the link read at its start, "down"     *)
(* when it cannot be read; it ends with a linkscan, whose readings may differ. *)
(* When the MAC or PHY refuses, loopback is left as it was, set or half set;   *)
(* when only the MAC's enabling fails, status is left.                         *)
Outcomes == {"set", "refused", "not enabled"}
LoopStatus(p, lb, outcome, l, enable) ==
    IF ~lb \/ outcome = "refused" THEN [status EXCEPT ![p] = l]
    ELSE IF outcome = "set" THEN [status EXCEPT ![p] = enable] ELSE status
\* Mutant of LoopbackSet: it does not note the link that it read.
LoopbackSetReadOnly(p, lb, outcome, l, enable, answers) ==
    /\ MainLoop /\ p \in LoopPorts
    /\ loopback' = [loopback EXCEPT ![p] = lb]
    /\ ScanFrom(status, loopback', blind, answers)
    /\ UNCHANGED <<linkchange_status, linkchange_handlers, told, walk>>
LoopbackSet(p, lb, outcome, l, enable, answers) ==
    /\ MainLoop /\ p \in LoopPorts
    /\ \E now \in IF outcome = "refused" THEN {loopback[p], lb, FALSE} ELSE {lb} :
           loopback' = [loopback EXCEPT ![p] = now]
    /\ ScanFrom(LoopStatus(p, lb, outcome, l, enable), loopback',
                [blind EXCEPT ![p] = ~loopback'[p] /\ l # link[p]], answers)
    /\ UNCHANGED <<linkchange_status, linkchange_handlers, told, walk>>

(* pcm_phyctrl_port_enable_set: in loopback the status is the enable state.    *)
(* When the PHY's link cannot be read it returns before it changes anything.   *)
EnableSet(p, enable, answers) ==
    /\ MainLoop /\ p \in LoopPorts
    /\ ScanFrom(IF loopback[p] THEN [status EXCEPT ![p] = enable] ELSE status,
                loopback, blind, answers)
    /\ UNCHANGED <<loopback, linkchange_status, linkchange_handlers, told, walk>>

-----------------------------------------------------------------------------
Slot(h) == {i \in 1..Slots : linkchange_handlers[i] = h}
FirstOf(S) == CHOOSE i \in S : \A j \in S : i <= j
Registered(h) == Slot(h) # {}

(* sys_register_linkchange, by a function that is not registered: the LAG      *)
(* handler once, the LED command and the LED test under a flag of their own.   *)
(* It is told of changes from here on, told holds what they are changes from.  *)
Register(h) ==
    /\ Polling /\ ~Registered(h) /\ Slot(NULL) # {}
    /\ linkchange_handlers' = [linkchange_handlers EXCEPT ![FirstOf(Slot(NULL))] = h]
    /\ told' = [told EXCEPT ![h] = [p \in Ports |-> IF walk.at = "call" /\ walk.port = p
                                                   THEN "untold" ELSE linkchange_status[p]]]
    /\ UNCHANGED <<loopback, status, link, blind, linkchange_status, walk>>

Unregister(h) ==
    /\ Polling /\ Registered(h)
    /\ linkchange_handlers' = [linkchange_handlers EXCEPT ![FirstOf(Slot(h))] = NULL]
    /\ UNCHANGED <<loopback, status, link, blind, linkchange_status, told, walk>>

(* sys_linkchange_timer.  While it runs it is not entered again (Timer).       *)
TimerFires ==
    /\ walk.at = "idle"
    /\ walk' = [Idle EXCEPT !.at = "port", !.port = 1]
    /\ UNCHANGED <<loopback, status, link, blind, linkchange_status, linkchange_handlers, told>>

\* Mutant of Unchanged: a status that the scan has not confirmed waits.
UnchangedUnlessAgreed(p) == linkchange_status[p] = status[p] \/ status[p] # link[p]
\* Mutant of Unchanged: every walk tells every port.
UnchangedNever(p) == FALSE
Unchanged(p) == linkchange_status[p] = status[p]
CheckPort ==
    /\ walk.at = "port" /\ walk.port \in Ports
    /\ IF Unchanged(walk.port)
       THEN walk' = [walk EXCEPT !.port = @ + 1] /\ UNCHANGED linkchange_status
       ELSE /\ walk' = [walk EXCEPT !.at = "slot", !.slot = 1, !.link = status[walk.port]]
            /\ linkchange_status' = [linkchange_status EXCEPT ![walk.port] = status[walk.port]]
    /\ UNCHANGED <<loopback, status, link, blind, linkchange_handlers, told>>

TimerReturns ==
    /\ walk.at = "port" /\ walk.port \notin Ports
    /\ walk' = Idle
    /\ UNCHANGED <<loopback, status, link, blind, linkchange_status, linkchange_handlers, told>>

\* Mutant of LastSlot: the loop ends a slot early.
LastSlotEarly == Slots - 1
LastSlot == Slots

NextSlot ==
    /\ walk.at = "slot"
    /\ walk.slot \in 1..LastSlot => linkchange_handlers[walk.slot] = NULL
    /\ walk' = IF walk.slot < LastSlot THEN [walk EXCEPT !.slot = @ + 1]
               ELSE [Idle EXCEPT !.at = "port", !.port = walk.port + 1]
    /\ UNCHANGED <<loopback, status, link, blind, linkchange_status, linkchange_handlers, told>>

Call(h) ==
    /\ walk.at = "slot" /\ walk.slot \in 1..LastSlot /\ linkchange_handlers[walk.slot] = h
    /\ told' = [told EXCEPT ![h][walk.port] = walk.link]
    /\ walk' = [walk EXCEPT !.at = "call"]
    /\ UNCHANGED <<loopback, status, link, blind, linkchange_status, linkchange_handlers>>

Return ==
    /\ walk.at = "call"
    /\ walk' = IF walk.slot < LastSlot THEN [walk EXCEPT !.at = "slot", !.slot = @ + 1]
               ELSE [Idle EXCEPT !.at = "port", !.port = walk.port + 1]
    /\ UNCHANGED <<loopback, status, link, blind, linkchange_status, linkchange_handlers, told>>

-----------------------------------------------------------------------------
(* Every step of the module but the calls to handlers.                         *)
Commands ==
    \/ \E answers \in Answers : Linkscan(answers)
    \/ \E p \in Ports, l, enable \in Links, answers \in Answers :
          \/ EnableSet(p, enable, answers)
          \/ \E lb \in BOOLEAN, outcome \in Outcomes : LoopbackSet(p, lb, outcome, l, enable, answers)
Registration == \E h \in Handlers : Register(h) \/ Unregister(h)
Notification == TimerFires \/ CheckPort \/ TimerReturns \/ NextSlot \/ Return

Next == Commands \/ Registration \/ Notification \/ \E h \in Handlers : Call(h)

Spec == Init /\ [][Next]_vars

-----------------------------------------------------------------------------
(* Every variable holds a value of its type; a walk is at a port, or at a slot  *)
(* of the table for a port.                                                     *)
TypeOK ==
    /\ loopback \in [Ports -> BOOLEAN] /\ blind \in [Ports -> BOOLEAN]
    /\ status \in [Ports -> Links] /\ link \in [Ports -> Links]
    /\ linkchange_status \in [Ports -> Links]
    /\ linkchange_handlers \in [1..Slots -> Handlers \cup {NULL}]
    /\ told \in [Handlers -> [Ports -> Links \cup {"untold"}]]
    /\ walk \in [at : {"idle", "port", "slot", "call"}, port : 0..(NumPorts + 1),
                 slot : 0..Slots, link : Links]
    /\ walk.at \in {"slot", "call"} => walk.port \in Ports /\ walk.slot \in 1..Slots

(* fllinkscan.c and pcm_phyctrl_hounds.c: outside loopback the status that the  *)
(* board reports is the one the scan found, unless the command that left the    *)
(* loopback read another link than the scan did and no change has come since.   *)
StatusAgrees == \A p \in Ports : ~loopback[p] /\ ~blind[p] => status[p] = link[p]

(* sys_linkchange_timer: what a registered handler was last told of a port is   *)
(* what the table of told links says, but for the port that is being walked,    *)
(* whose later slots are still to be told.                                      *)
ToldCurrent ==
    \A h \in Handlers, p \in Ports :
        \/ ~Registered(h) \/ told[h][p] \in {"untold", linkchange_status[p]}
        \/ walk.at \in {"slot", "call"} /\ walk.port = p /\ walk.slot <= FirstOf(Slot(h))

(* sys_linkchange_timer: a handler is told of changes, never of the link it was *)
(* told before, also when it is registered or removed during a walk.            *)
NeverToldTwice ==
    \A h \in Handlers : walk.at = "slot" /\ linkchange_handlers[walk.slot] = h
        => told[h][walk.port] # walk.link

(* A port that keeps its status is noted, and every handler that stays          *)
(* registered is told or had nothing to be told.                                *)
EventuallyTold ==
    \A p \in Ports, x \in Links :
        /\ <>[](status[p] = x) => <>[](linkchange_status[p] = x)
        /\ \A h \in Handlers : <>[](status[p] = x /\ Registered(h))
                             => <>[](told[h][p] \in {"untold", x})
=============================================================================
