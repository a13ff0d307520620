-------------------------------- MODULE Lag --------------------------------
(* Link aggregation over the link status: board_lag_set, board_lag_group_set  *)
(* and the link-change handler board_lag_linkchange of                        *)
(* systems/bcm95607x/src/board.c.  The hardware group holds the members whose *)
(* link is up.  Commands take the link from the linkscan, the handler from    *)
(* the notification, which comes later; split marks the members whose two     *)
(* links disagreed at the last command.                                       *)
(* The configurations without LAG have LinkStatus alone.  Register writes     *)
(* succeed.                                                                   *)
EXTENDS LinkStatus

CONSTANTS
    NumLags,    \* BOARD_MAX_NUM_OF_LAG
    MaxMembers, \* BOARD_MAX_PORT_PER_LAG
    LagHandler  \* board_lag_linkchange, one of Handlers

ASSUME LagAssumption ==
    NumLags \in Nat \ {0} /\ MaxMembers \in Nat \ {0} /\ LagHandler \in Handlers

VARIABLES
    lag_enable,
    lag_group,  \* enable and lpbmp of each group
    hw_lpbmp,   \* the hardware's groups
    split

lagVars == <<lag_enable, lag_group, hw_lpbmp, split>>
allVars == <<vars, lagVars>>

Lags == 1..NumLags
MemberSets == {S \in SUBSET Ports : Cardinality(S) # 1 /\ Cardinality(S) <= MaxMembers}

(* board_init registers the handler before any other.                          *)
LagInit ==
    /\ InitWith([i \in 1..Slots |-> IF i = 1 THEN LagHandler ELSE NULL])
    /\ lag_enable = FALSE
    /\ lag_group = [g \in Lags |-> [enable |-> FALSE, lpbmp |-> {}]]
    /\ hw_lpbmp = [g \in Lags |-> {}] /\ split = [g \in Lags |-> {}]

-----------------------------------------------------------------------------
\* Mutant of UpMembers: members are added whatever their link.
UpMembersAll(lpbmp) == lpbmp
(* The members whose link is up by linkscan, and those that the notification   *)
(* still has otherwise.                                                        *)
UpMembers(lpbmp) == {p \in lpbmp : link[p] = "up"}
SplitMembers(lpbmp) == {p \in lpbmp : link[p] # linkchange_status[p]}

(* board_lag_set writes every group, whatever the group's own enable.          *)
LagSet(enable) ==
    /\ MainLoop /\ lag_enable # enable
    /\ hw_lpbmp' = [g \in Lags |-> IF enable THEN UpMembers(lag_group[g].lpbmp) ELSE {}]
    /\ split' = [g \in Lags |-> IF enable THEN SplitMembers(lag_group[g].lpbmp) ELSE {}]
    /\ lag_enable' = enable
    /\ UNCHANGED <<vars, lag_group>>

\* Mutant of LagGroupSet: the hardware keeps the group that is disabled.
LagGroupSetKeepHw(g, enable, lpbmp) ==
    /\ MainLoop
    /\ lag_group' = [lag_group EXCEPT ![g] = [enable |-> enable, lpbmp |-> lpbmp]]
    /\ IF enable /\ lag_enable
       THEN /\ hw_lpbmp' = [hw_lpbmp EXCEPT ![g] = UpMembers(lpbmp)]
            /\ split' = [split EXCEPT ![g] = SplitMembers(lpbmp)]
       ELSE UNCHANGED <<hw_lpbmp, split>>
    /\ UNCHANGED <<vars, lag_enable>>
(* board_lag_group_set.                                                        *)
LagGroupSet(g, enable, lpbmp) ==
    /\ MainLoop
    /\ lag_group' = [lag_group EXCEPT ![g] = [enable |-> enable, lpbmp |-> lpbmp]]
    /\ IF enable /\ lag_enable
       THEN /\ hw_lpbmp' = [hw_lpbmp EXCEPT ![g] = UpMembers(lpbmp)]
            /\ split' = [split EXCEPT ![g] = SplitMembers(lpbmp)]
       ELSE /\ hw_lpbmp' = [hw_lpbmp EXCEPT ![g] = {}]
            /\ split' = [split EXCEPT ![g] = {}]
    /\ UNCHANGED <<vars, lag_enable>>

(* board_lag_linkchange, the call of this handler.                             *)
Follows(g, p) == lag_group[g].enable /\ p \in lag_group[g].lpbmp
LagLinkchange ==
    /\ Call(LagHandler)
    /\ LET p == walk.port
           Changed(g) == lag_enable /\ Follows(g, p)
       IN /\ hw_lpbmp' = [g \in Lags |->
                 IF ~Changed(g) THEN hw_lpbmp[g]
                 ELSE IF walk.link = "up" THEN hw_lpbmp[g] \cup {p} ELSE hw_lpbmp[g] \ {p}]
          /\ split' = [g \in Lags |-> IF Changed(g) THEN split[g] \ {p} ELSE split[g]]
    /\ UNCHANGED <<lag_enable, lag_group>>

LagCommands ==
    \/ \E enable \in BOOLEAN : LagSet(enable)
    \/ \E g \in Lags, enable \in BOOLEAN, lpbmp \in MemberSets : LagGroupSet(g, enable, lpbmp)

(* The LAG handler stays registered.                                           *)
LinkNext ==
    \/ Commands \/ Notification
    \/ \E h \in Handlers \ {LagHandler} : Register(h) \/ Unregister(h) \/ Call(h)

LagNext == LagCommands \/ LagLinkchange \/ (LinkNext /\ UNCHANGED lagVars)

LagSpec == LagInit /\ [][LagNext]_allVars

(* The timer runs again and again (KeepsRunning of Timer), loops over ports and *)
(* slots without waiting, and handlers return.  Nothing makes linkscan or the   *)
(* commands run.                                                                *)
LagFairness ==
    WF_allVars(\/ LagLinkchange
               \/ (Notification \/ \E h \in Handlers \ {LagHandler} : Call(h)) /\ UNCHANGED lagVars)
LagFairSpec == LagSpec /\ LagFairness

-----------------------------------------------------------------------------
(* Every variable holds a value of its type.                                    *)
LagTypeOK ==
    /\ TypeOK
    /\ lag_enable \in BOOLEAN
    /\ lag_group \in [Lags -> [enable : BOOLEAN, lpbmp : MemberSets]]
    /\ hw_lpbmp \in [Lags -> SUBSET Ports] /\ split \in [Lags -> SUBSET Ports]

(* board_lag_set and board_lag_group_set: the hardware never aggregates a port  *)
(* that is not a member of the group, or aggregates at all while LAG is off.    *)
HwWithinConfig ==
    \A g \in Lags : /\ hw_lpbmp[g] \subseteq lag_group[g].lpbmp
                    /\ ~lag_enable => hw_lpbmp[g] = {}

(* board_lag_linkchange: between two walks the hardware group of an enabled     *)
(* group holds the members that were last told up, but for those whose link the *)
(* last command read differently from the notification.                        *)
LagFollows ==
    \A g \in Lags, p \in Ports :
        lag_enable /\ Follows(g, p) /\ p \notin split[g] /\ walk.at = "idle"
            => (p \in hw_lpbmp[g] <=> linkchange_status[p] = "up")
=============================================================================
