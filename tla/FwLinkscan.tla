------------------------------ MODULE FwLinkscan ------------------------------
(***************************************************************************)
(* Firmware linkscan: the host driver (driver/lm/hmi/cmicx/                *)
(* cmicx_fw_linkscan.c), called by lm_hw_config (driver/lm/main/lm_drv.c), *)
(* the M0's software interrupt (driver/m0ssq/hmi/cmicx_m0ssq.c) and the    *)
(* linkscan firmware, which is a binary: what it does is taken from how    *)
(* the driver uses it, and marked external.                                *)
(*                                                                         *)
(* Each direction of the mailbox is a queue here; M0ssqMbox shows that it  *)
(* behaves like one and that a synchronous send returns the answer to its  *)
(* own message or times out.  The host's main loop waits for an answer     *)
(* without polling; interrupts come at any time.  A send and a receive     *)
(* call of the mailbox each allocate memory for a message and fail         *)
(* without it; old and lapse keep what such failures left undone.          *)
(***************************************************************************)
EXTENDS Integers, Sequences, SequencesExt

CONSTANTS
    Ports,
    Configs,        \* the port sets lm_hw_config is called with
    MayTimeout,     \* whether answers may come later than MBOX_TX_TIMEOUT_CNT polls
    MaxInbox,       \* bound: link messages in the mailbox
    MaxOutbox,      \* bound: requests in the mailbox
    MaxChanges      \* bound: link changes

ASSUME FwLinkscanAssumption ==
    /\ Configs \subseteq SUBSET Ports /\ MayTimeout \in BOOLEAN
    /\ MaxInbox \in Nat \ {0} /\ MaxOutbox \in Nat \ {0} /\ MaxChanges \in Nat

VARIABLES
    link,           \* the actual link state, and how often it changed
    changes,
    fwPause, fwPorts, fwLast, fwRaise,  \* the firmware; fwLast: what it last reported
    outbox, inbox,  \* requests to the firmware, link messages from it
    pending,        \* the M0's interrupt to the host
    isr,            \* the host is in m0ssq_mbox_process_recv_msgs, interrupted
    swintr,         \* uc_swintr_enable[0]
    hpc, cfg,       \* lm_hw_config: what it waits for, the ports it was given
    answer,         \* the response to the request it waits for
    link_stat,      \* fw_drv->link_stat
    old,            \* history: messages of inbox that a purge should have taken
    lapse           \* history, since the last configuration: "call": the last
                    \* receive call took nothing; "cache": link_stat is an old
                    \* message; "continue": LS_CONTINUE was not sent

chip == <<link, changes>>
fw   == <<fwPause, fwPorts, fwLast, fwRaise>>
host == <<isr, swintr, hpc, cfg, answer, link_stat>>
history == <<old, lapse>>
vars == <<chip, fw, outbox, inbox, pending, host, history>>

Request(m, ports) == [msg |-> m, ports |-> ports]
None == [valid |-> FALSE, ports |-> {}]

\* After cmicx_fw_linkscan_init: the firmware runs and is paused.
Init ==
    /\ link = {} /\ changes = 0
    /\ fwPause = TRUE /\ fwPorts = {} /\ fwLast = {} /\ fwRaise = FALSE
    /\ outbox = << >> /\ inbox = << >> /\ pending = FALSE
    /\ isr = FALSE /\ swintr = FALSE /\ hpc = "idle" /\ cfg = {} /\ answer = None
    /\ link_stat = {} /\ old = 0 /\ lapse = {}

-----------------------------------------------------------------------------
(* External: the ports and the firmware *)

LinkChange(p) ==
    /\ changes < MaxChanges
    /\ link' = IF p \in link THEN link \ {p} ELSE link \cup {p}
    /\ changes' = changes + 1
    /\ UNCHANGED <<fw, outbox, inbox, pending, host, history>>

\* A scan that finds a change sends it, and then interrupts the host.
FwScan ==
    /\ ~fwPause /\ ~fwRaise
    /\ link \cap fwPorts # fwLast /\ Len(inbox) < MaxInbox
    /\ fwLast' = link \cap fwPorts
    /\ inbox' = Append(inbox, fwLast')
    /\ fwRaise' = TRUE
    /\ UNCHANGED <<chip, fwPause, fwPorts, outbox, pending, host, history>>

FwInterrupt ==
    /\ fwRaise
    /\ fwRaise' = FALSE /\ pending' = TRUE
    /\ UNCHANGED <<chip, fwPause, fwPorts, fwLast, outbox, inbox, host, history>>

\* LS_PAUSE, LS_CONTINUE, LS_HW_CONFIG.  The answer to a configuration is the
\* link state of the ports.  Only the last request has somebody waiting for it.
FwServe ==
    /\ outbox # << >> /\ ~fwRaise
    /\ outbox' = Tail(outbox)
    /\ LET r == Head(outbox) IN
       /\ fwPause' = IF r.msg = "config" THEN fwPause ELSE r.msg = "pause"
       /\ IF r.msg = "config" THEN fwPorts' = r.ports /\ fwLast' = link \cap r.ports
                              ELSE UNCHANGED <<fwPorts, fwLast>>
       /\ answer' = IF hpc = r.msg /\ Len(outbox) = 1
                    THEN [valid |-> TRUE, ports |-> fwLast'] ELSE answer
    /\ UNCHANGED <<chip, fwRaise, inbox, pending, isr, swintr, hpc, cfg, link_stat, history>>

-----------------------------------------------------------------------------
(* The interrupt *)

\* cmicx_m0ssq_uc_swintr_isr: the interrupt is cleared first; while linkscan's
\* interrupt is disabled that is all ("Unhandled M0 software interrupt").
\* m0ssq_mbox_process_recv_msgs without memory returns before the first message.
IsrBegin ==
    /\ pending /\ ~isr
    /\ pending' = FALSE
    /\ \/ ~swintr /\ isr' = FALSE /\ UNCHANGED lapse
       \/ swintr /\ isr' = TRUE /\ lapse' = lapse \ {"call"}
       \/ swintr /\ isr' = FALSE /\ lapse' = lapse \cup {"call"}
    /\ UNCHANGED <<chip, fw, outbox, inbox, swintr, hpc, cfg, answer, link_stat, old>>

\* Whether the cache is now an old message, after one was taken.
TakeOld ==
    /\ old' = IF old = 0 THEN 0 ELSE old - 1
    /\ lapse' = IF old = 0 THEN lapse \ {"cache"} ELSE lapse \cup {"cache"}

\* Mutant of IsrMsg: one message for each interrupt.
IsrMsgOnce ==
    /\ isr
    /\ IF inbox = << >> THEN UNCHANGED <<inbox, link_stat, history>>
       ELSE link_stat' = Head(inbox) /\ inbox' = Tail(inbox) /\ TakeOld
    /\ isr' = FALSE
    /\ UNCHANGED <<chip, fw, outbox, pending, swintr, hpc, cfg, answer>>

\* m0ssq_mbox_process_recv_msgs with cmicx_fw_linkscan_msg_handler, one message
IsrMsg ==
    /\ isr
    /\ IF inbox = << >> THEN isr' = FALSE /\ UNCHANGED <<inbox, link_stat, history>>
       ELSE link_stat' = Head(inbox) /\ inbox' = Tail(inbox) /\ TakeOld /\ UNCHANGED isr
    /\ UNCHANGED <<chip, fw, outbox, pending, swintr, hpc, cfg, answer>>

-----------------------------------------------------------------------------
(* lm_hw_config, in the main loop: not while the interrupt runs *)

\* m0ssq_mbox_msg_send; with a full mailbox or without memory for the message
\* it fails, and lm_hw_config with it.
Send(m, ports) ==
    /\ answer' = None
    /\ \/ /\ Len(outbox) < MaxOutbox
          /\ outbox' = Append(outbox, Request(m, ports)) /\ hpc' = m
       \/ hpc' = "idle" /\ UNCHANGED outbox

\* cmicx_fw_linkscan_stop: the interrupt is disabled, LS_PAUSE is sent.
ConfigBegin(ports) ==
    /\ hpc = "idle" /\ ~isr
    /\ cfg' = ports /\ swintr' = FALSE
    /\ Send("pause", {})
    /\ UNCHANGED <<chip, fw, inbox, pending, isr, link_stat, history>>

\* Mutant of Paused: the mailbox is not purged.
PausedNoPurge ==
    /\ hpc = "pause" /\ answer.valid /\ ~isr
    /\ UNCHANGED <<inbox, link_stat, old>>
    /\ Send("config", cfg)
    /\ UNCHANGED <<chip, fw, pending, isr, swintr, cfg, lapse>>

\* "Purge the mailbox."  The result is ignored: without memory the purge takes
\* nothing.  Then cmicx_fw_linkscan_config sends LS_HW_CONFIG.
Paused ==
    /\ hpc = "pause" /\ answer.valid /\ ~isr
    /\ \/ /\ link_stat' = IF inbox = << >> THEN link_stat ELSE Last(inbox)
          /\ inbox' = << >> /\ old' = 0
       \/ old' = Len(inbox) /\ UNCHANGED <<inbox, link_stat>>
    /\ Send("config", cfg)
    /\ UNCHANGED <<chip, fw, pending, isr, swintr, cfg, lapse>>

\* Mutant of Configured: the link state in the response is not copied.
ConfiguredNoCopy ==
    /\ hpc = "config" /\ answer.valid /\ ~isr
    /\ IF cfg = {}
       THEN hpc' = "idle" /\ answer' = None /\ UNCHANGED <<swintr, outbox>> /\ lapse' = {}
       ELSE /\ swintr' = TRUE /\ Send("continue", {})
            /\ lapse' = IF hpc' = "idle" THEN {"continue"} ELSE {}
    /\ UNCHANGED <<chip, fw, inbox, pending, isr, cfg, link_stat, old>>

\* "Copy the response (link status) to cached link status."  With ports to
\* scan cmicx_fw_linkscan_start enables the interrupt and sends LS_CONTINUE.
Configured ==
    /\ hpc = "config" /\ answer.valid /\ ~isr
    /\ link_stat' = answer.ports
    /\ IF cfg = {}
       THEN hpc' = "idle" /\ answer' = None /\ UNCHANGED <<swintr, outbox>> /\ lapse' = {}
       ELSE /\ swintr' = TRUE /\ Send("continue", {})
            /\ lapse' = IF hpc' = "idle" THEN {"continue"} ELSE {}
    /\ UNCHANGED <<chip, fw, inbox, pending, isr, cfg, old>>

Started ==
    /\ hpc = "continue" /\ answer.valid /\ ~isr
    /\ hpc' = "idle" /\ answer' = None
    /\ UNCHANGED <<chip, fw, outbox, inbox, pending, isr, swintr, cfg, link_stat, history>>

\* Any of the sends times out: lm_hw_config returns there and then.
Timeout ==
    /\ MayTimeout
    /\ hpc # "idle" /\ ~answer.valid /\ ~isr
    /\ hpc' = "idle"
    /\ UNCHANGED <<chip, fw, outbox, inbox, pending, isr, swintr, cfg, answer, link_stat, history>>

-----------------------------------------------------------------------------
Firmware == FwScan \/ FwInterrupt \/ FwServe
Interrupt == IsrBegin \/ IsrMsg
Waiting == Paused \/ Configured \/ Started

Next ==
    \/ \E p \in Ports : LinkChange(p)
    \/ Firmware \/ Interrupt \/ Waiting \/ Timeout
    \/ \E ports \in Configs : ConfigBegin(ports)

Spec == Init /\ [][Next]_vars

\* The firmware scans and serves, pending interrupts are taken, waits end.
Fairness ==
    /\ WF_vars(FwScan) /\ WF_vars(FwInterrupt) /\ WF_vars(FwServe)
    /\ WF_vars(Interrupt) /\ WF_vars(Waiting)
FairSpec == Spec /\ Fairness

-----------------------------------------------------------------------------
TypeOK ==
    /\ link \subseteq Ports /\ changes \in 0 .. MaxChanges
    /\ fwPause \in BOOLEAN /\ fwPorts \subseteq Ports /\ fwLast \subseteq Ports
    /\ fwRaise \in BOOLEAN
    /\ outbox \in Seq([msg : {"pause", "config", "continue"}, ports : SUBSET Ports])
    /\ Len(outbox) <= MaxOutbox
    /\ inbox \in Seq(SUBSET Ports) /\ Len(inbox) <= MaxInbox
    /\ pending \in BOOLEAN /\ isr \in BOOLEAN /\ swintr \in BOOLEAN
    /\ hpc \in {"idle", "pause", "config", "continue"} /\ cfg \subseteq Ports
    /\ answer \in [valid : BOOLEAN, ports : SUBSET Ports]
    /\ link_stat \subseteq Ports
    /\ old \in 0 .. Len(inbox) /\ lapse \subseteq {"call", "cache", "continue"}

\* The cached link state is what the firmware last reported once every message
\* is taken: no message from before a reconfiguration is applied after it.
\* The firmware reports a change once, so a cache that is behind stays behind.
\* Only a message that a purge without memory left may be in the cache, until
\* the next report.
CacheCurrent ==
    /\ hpc = "idle" /\ swintr /\ inbox = << >> /\ ~isr /\ outbox = << >>
    /\ "cache" \notin lapse
    => link_stat = fwLast

\* While scanning is on, the cache shows links of the configured ports only,
\* unless it is a message that a failed purge left; neither mailbox is overrun.
OwnPorts ==
    /\ TypeOK
    /\ swintr /\ hpc # "config" /\ "cache" \notin lapse => link_stat \subseteq cfg

\* Once nobody reconfigures, the links are stable and the calls that lacked
\* memory were made up for, lm_hw_link_get returns the links of the configured
\* ports; no interrupt is lost on the way.  A mailbox full of messages that
\* failed purges left is excepted: there the firmware finds no room for the
\* message whose interrupt would have them taken.
EventuallyCurrent ==
    <>[](hpc = "idle" /\ swintr /\ outbox = << >> /\ lapse = {} /\ old < MaxInbox)
        => <>[](link_stat = link \cap cfg)
=============================================================================
