-------------------------------- MODULE Tx --------------------------------
(* Packet transmission: sys_tx (kernel/tx.c), brdimpl_tx and its callback     *)
(* (board/brd_rxtx.c), bcm5607x_tx and the transmit half of rxtx_task         *)
(* (driver/soc/bcm5607x/flrxtx.c).  One packet is in DMA at a time, the       *)
(* others wait in tx_pkts_list.  A sender without a callback spins in POLL(), *)
(* from which background() calls rxtx_task again, and rxtx_task may run a     *)
(* receive handler that sends: the C stack of these nested calls is "stack".  *)
EXTENDS Integers, Sequences, FiniteSets, SequencesExt

CONSTANTS
    Sync,       \* sys_pkt_t's that their owners send with no callback
    Async,      \* sys_pkt_t's that their owners send with a callback
    MaxSpkts    \* how many soc_tx_packet_t's sal_malloc gives at most

ASSUME PktsAssumption == Sync \cap Async = {}
ASSUME MaxSpktsAssumption == MaxSpkts \in Nat \ {0}

Pkts == Sync \cup Async
Spkts == 1..MaxSpkts

VARIABLES
    pool,       \* tx_pkt_list of brd_rxtx.c: the spkts free for use, top first
    allocated,  \* how many spkts were allocated so far
    cookie,     \* the sys_pkt_t that each spkt carries
    queue,      \* tx_pkts_list of flrxtx.c, head first
    dma,        \* tx_pkt_in_dma, 0 for NULL
    channel,    \* the DMA channel: "idle", "busy", "done" or "error"
    late,       \* TX_TIMER_EXPIRED for the packet in DMA
    internal0,  \* pkt->internal0: 1 is "waiting", else the status
    stack,      \* the nested calls, outermost first
    outcome     \* history: what became of the last transmission of each packet

vars == <<pool, allocated, cookie, queue, dma, channel, late, internal0, stack, outcome>>

Status == {"ok", "timeout"}
Frame == [kind : {"sync"}, pkt : Sync] \cup [kind : {"rx"}, handled : BOOLEAN]
Waiting == {stack[i].pkt : i \in {j \in DOMAIN stack : stack[j].kind = "sync"}}
Receiving == \E i \in DOMAIN stack : stack[i].kind = "rx"
Top == stack[Len(stack)]

TypeOK ==
    /\ pool \in Seq(Spkts) /\ IsInjective(pool)
    /\ allocated \in 0..MaxSpkts
    /\ cookie \in [Spkts -> Pkts \cup {"none"}]
    /\ queue \in Seq(Spkts) /\ IsInjective(queue)
    /\ dma \in 0..MaxSpkts
    /\ channel \in {"idle", "busy", "done", "error"}
    /\ late \in BOOLEAN
    /\ internal0 \in [Sync -> {"none", "waiting"} \cup Status]
    /\ stack \in Seq(Frame)
    /\ outcome \in [Pkts -> {"none", "out"} \cup Status]

Init ==
    /\ pool = <<>> /\ allocated = 0 /\ queue = <<>> /\ dma = 0
    /\ cookie = [s \in Spkts |-> "none"]
    /\ channel = "idle" /\ late = FALSE
    /\ internal0 = [p \in Sync |-> "none"]
    /\ stack = <<>>
    /\ outcome = [p \in Pkts |-> "none"]

-----------------------------------------------------------------------------
(* The transmit state that the functions below read and return, so that a      *)
(* callback that sends again runs on what rxtx_task left.                       *)
Tx == [pool |-> pool, allocated |-> allocated, cookie |-> cookie, queue |-> queue,
       dma |-> dma, channel |-> channel, late |-> late]

(* bcm5607x_tx_internal: program the channel and note the time.                *)
TxInternal(t, s) == [t EXCEPT !.dma = s, !.channel = "busy", !.late = FALSE]

(* bcm5607x_tx: start the packet, or put it at the head of tx_pkts_list.       *)
SocTxUnlinked(t, s) ==
    IF t.dma = 0 THEN TxInternal(t, s) ELSE [t EXCEPT !.queue = <<s>>]
SocTx(t, s) ==
    IF t.dma = 0 THEN TxInternal(t, s) ELSE [t EXCEPT !.queue = <<s>> \o @]

(* brdimpl_tx takes an spkt from the pool or allocates one.  sal_malloc may    *)
(* fail at any time: brdimpl_tx then returns SYS_ERR_OUT_OF_RESOURCE and       *)
(* nothing changes.                                                            *)
CanSend(t) == t.pool # <<>> \/ t.allocated < MaxSpkts
CannotSend(t) == t.pool = <<>>

BoardTx(t, p) ==
    LET s == IF t.pool # <<>> THEN Head(t.pool) ELSE t.allocated + 1
    IN  SocTx([t EXCEPT !.pool = IF @ # <<>> THEN Tail(@) ELSE @,
                        !.allocated = IF t.pool = <<>> THEN @ + 1 ELSE @,
                        !.cookie[s] = p], s)

SetTx(t) ==
    /\ pool' = t.pool /\ allocated' = t.allocated /\ cookie' = t.cookie
    /\ queue' = t.queue /\ dma' = t.dma /\ channel' = t.channel /\ late' = t.late

-----------------------------------------------------------------------------
(* Code that may run now: background() called from the main loop or from the   *)
(* POLL() of a sender that still waits.                                        *)
Polling == stack # <<>> => (Top.kind = "sync" /\ internal0[Top.pkt] = "waiting")

(* Code that may send now: a task or a timer callback, or a receive handler    *)
(* (which sends one packet at most).                                           *)
Caller == stack # <<>> => (Polling \/ (Top.kind = "rx" /\ ~Top.handled))

(* The stack once the handler at its top, if it is one, has sent.              *)
Sent == IF stack # <<>> /\ Top.kind = "rx"
        THEN [stack EXCEPT ![Len(stack)].handled = TRUE] ELSE stack

(* sys_tx(pkt, cbk): the owner sends again only once its callback was called.  *)
SendAsync(p) ==
    /\ Caller /\ outcome[p] # "out" /\ CanSend(Tx)
    /\ SetTx(BoardTx(Tx, p))
    /\ outcome' = [outcome EXCEPT ![p] = "out"]
    /\ stack' = Sent
    /\ UNCHANGED internal0

(* sys_tx(pkt, NULL): mark the packet as being processed, transmit, poll.      *)
SendSync(p) ==
    /\ Caller /\ p \notin Waiting
    /\ internal0' = [internal0 EXCEPT ![p] = "waiting"]
    /\ \/ /\ CanSend(Tx)
          /\ SetTx(BoardTx(Tx, p))
          /\ outcome' = [outcome EXCEPT ![p] = "out"]
          /\ stack' = Append(Sent, [kind |-> "sync", pkt |-> p])
       \/ /\ CannotSend(Tx)
          /\ stack' = Sent
          /\ UNCHANGED <<pool, allocated, cookie, queue, dma, channel, late, outcome>>

(* The loop of sys_tx ends when sys_tx_sync_cbk has written a status.          *)
SyncReturn ==
    /\ stack # <<>> /\ Top.kind = "sync" /\ internal0[Top.pkt] # "waiting"
    /\ stack' = Front(stack)
    /\ UNCHANGED <<pool, allocated, cookie, queue, dma, channel, late, internal0, outcome>>

-----------------------------------------------------------------------------
(* rxtx_task for a packet whose DMA ended: the next one of tx_pkts_list goes   *)
(* to the channel, then brdimpl_tx_cbk puts the spkt back in the pool and      *)
(* calls the owner: sys_tx_sync_cbk stores the status, another callback may    *)
(* send its packet again (cli_switch_tx_async_cbk does).                       *)
SendNextForgotten(t) == t
SendNext(t) ==
    IF t.queue = <<>> THEN t ELSE TxInternal([t EXCEPT !.queue = Tail(@)], Head(t.queue))

(* "Return pkt to pool" of brdimpl_tx_cbk.                                     *)
FreeSpktDropped(t, s) == t
FreeSpkt(t, s) == [t EXCEPT !.pool = <<s>> \o @]

(* The spkt whose owner rxtx_task notifies once the next one was started: the  *)
(* one it saved before it cleared tx_pkt_in_dma.                               *)
CompletedInDma(next) == IF next.dma # 0 THEN next.dma ELSE dma
Completed(next) == dma

Complete(status, ended) ==
    LET next == SendNext([Tx EXCEPT !.dma = 0, !.channel = ended, !.late = FALSE])
        s    == Completed(next)
        p    == cookie[s]
        freed == FreeSpkt(next, s)
    IN  \/ /\ p \in Sync
           /\ SetTx(freed)
           /\ internal0' = [internal0 EXCEPT ![p] = status]
           /\ outcome' = [outcome EXCEPT ![cookie[dma]] = status]
        \/ /\ p \in Async
           /\ UNCHANGED internal0
           /\ \/ /\ SetTx(freed)
                 /\ outcome' = [outcome EXCEPT ![cookie[dma]] = status]
              \/ /\ SetTx(BoardTx(freed, p))
                 /\ outcome' = [outcome EXCEPT ![cookie[dma]] = "out"]

(* The transmit half of rxtx_task.  soc_dma_desc_done says that the packet is  *)
(* done; an address decode error makes it abort the channel and say that it is *)
(* not, so that the packet still waits for its timeout.                        *)
TxHalf ==
    \/ /\ dma # 0 /\ channel = "done"
       /\ Complete("ok", "idle")
    \/ /\ dma # 0 /\ channel # "done" /\ late
       /\ Complete("timeout", "idle")
    \/ /\ dma # 0 /\ channel # "done" /\ ~late
       /\ channel' = IF channel = "error" THEN "idle" ELSE channel
       /\ UNCHANGED <<pool, allocated, cookie, queue, dma, late, internal0, outcome>>
    \/ /\ dma = 0
       /\ UNCHANGED <<pool, allocated, cookie, queue, dma, channel, late, internal0, outcome>>

(* background() runs rxtx_task: with no packet received ...                    *)
RxtxTask == Polling /\ TxHalf /\ UNCHANGED stack

(* ... or with one, whose handler runs first.  There is one receive buffer, so *)
(* no other packet is received until this handler returned.                    *)
RxDirect ==
    /\ Polling /\ ~Receiving
    /\ stack' = Append(stack, [kind |-> "rx", handled |-> FALSE])
    /\ UNCHANGED <<pool, allocated, cookie, queue, dma, channel, late, internal0, outcome>>

RxReturn ==
    /\ stack # <<>> /\ Top.kind = "rx"
    /\ stack' = Front(stack)
    /\ TxHalf

(* The hardware ends the transfer, or fails on it; time passes.                *)
DmaEnds(result) ==
    /\ channel = "busy"
    /\ channel' = result
    /\ UNCHANGED <<pool, allocated, cookie, queue, dma, late, internal0, stack, outcome>>

Expire ==
    /\ dma # 0 /\ ~late
    /\ late' = TRUE
    /\ UNCHANGED <<pool, allocated, cookie, queue, dma, channel, internal0, stack, outcome>>

Next ==
    \/ \E p \in Async : SendAsync(p)
    \/ \E p \in Sync : SendSync(p)
    \/ SyncReturn
    \/ RxtxTask
    \/ RxDirect
    \/ RxReturn
    \/ \E result \in {"done", "error"} : DmaEnds(result)
    \/ Expire

Spec == Init /\ [][Next]_vars

(* The program keeps running and time keeps passing; the hardware need not     *)
(* answer.                                                                     *)
FairSpec ==
    Spec /\ WF_vars(RxtxTask \/ RxReturn \/ SyncReturn) /\ WF_vars(Expire)

-----------------------------------------------------------------------------
Carriers == ToSet(queue) \cup ({dma} \ {0})

(* No soc_tx_packet_t is lost or used twice: each one allocated is in exactly  *)
(* one place, the pool of brd_rxtx.c, the list of flrxtx.c or the DMA channel, *)
(* whatever the nesting of the calls that moved it.                            *)
SpktsAccounted ==
    /\ TypeOK
    /\ ToSet(pool) \cap ToSet(queue) = {} /\ dma \notin ToSet(pool) \cup ToSet(queue)
    /\ ToSet(pool) \cup Carriers = 1..allocated

(* A packet that was accepted and not yet reported to its owner is carried by  *)
(* exactly one soc_tx_packet_t, and by none otherwise: no sender of sys_tx     *)
(* polls for a packet that nothing will complete, and no callback runs twice.  *)
CarriedOnce ==
    /\ {cookie[s] : s \in Carriers} = {p \in Pkts : outcome[p] = "out"}
    /\ \A s1, s2 \in Carriers : cookie[s1] = cookie[s2] => s1 = s2

(* The status a polling sender reads in internal0 is what became of its own    *)
(* packet, although the packet was completed by a call nested in its POLL()    *)
(* and other packets were sent and completed in between.                       *)
OwnStatus ==
    \A p \in Waiting :
        internal0[p] = IF outcome[p] = "out" THEN "waiting" ELSE outcome[p]

(* A sender that polls gets an answer, even from hardware that never ends a    *)
(* transfer: "We rely on BOARD-layer tx to timeout if it takes too long".  It  *)
(* may be overtaken while an owner goes on sending from its callback, since    *)
(* tx_pkts_list is taken from last in, first out; once the asynchronous        *)
(* senders have stopped it returns.                                            *)
SyncReturnsAlone ==
    (\A p \in Async : <>[](outcome[p] # "out"))
        => \A p \in Sync : (p \in Waiting) ~> (p \notin Waiting)
=============================================================================
