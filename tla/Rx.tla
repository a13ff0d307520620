-------------------------------- MODULE Rx --------------------------------
(* Packet reception: the handlers and the buffer pool of kernel/rx.c, the     *)
(* packet lists of board/brd_rxtx.c and the receive half of rxtx_task         *)
(* (driver/soc/bcm5607x/flrxtx.c), which posts one buffer to the DMA channel. *)
(* Handlers are registered and unregistered by commands, in the main loop; a  *)
(* buffer comes back when a handler returns or when its owner frees it.       *)
(* A packet carries no error flags: bcm5607x_rx_retrieve clears them all.     *)
EXTENDS Integers, Sequences, FiniteSets, SequencesExt

CONSTANTS
    Callbacks,
    Priority,   \* Callbacks -> Nat
    Owners,     \* Callbacks that may return SYS_RX_HANDLED_AND_OWNED
    Slots,      \* CFG_MAX_REGISTERED_RX_CBKS
    Bufs        \* the buffers that the kernel adds, DEFAULT_RX_BUFFER_COUNT of them

ASSUME RxAssumption ==
    /\ Priority \in [Callbacks -> Nat] /\ Owners \subseteq Callbacks
    /\ Slots \in Nat \ {0} /\ IsFiniteSet(Bufs)

VARIABLES
    rx_cbk_list,    \* the handlers in the order they are called
    rx_pkt_pool,    \* buffers kept while there is no handler, top first
    rx_syspkt_list, \* buffers handed to the driver, top first
    rx_pkt_list,    \* how many soc_rx_packet_t's the board has for further use
    rx_pkt_valid,   \* rx_pkt_valid[0]: the driver holds its one buffer
    rx_pkt_in_dma,  \* rx_pkt_in_dma # NULL
    rx_channel,     \* the DMA channel: "idle", "busy", "done" or "error"
    walks,          \* the sys_rx_handler calls: [pkt, rest], rest still to be called
    owned,          \* buffers that handlers own
    freed           \* buffers that were given to sal_free

engineVars == <<rx_syspkt_list, rx_pkt_list, rx_pkt_valid, rx_pkt_in_dma, rx_channel, freed>>
rxVars == <<rx_cbk_list, rx_pkt_pool, engineVars, walks, owned>>

RxInit ==
    /\ rx_cbk_list = <<>> /\ rx_syspkt_list = <<>> /\ rx_pkt_list = 0
    /\ rx_pkt_pool \in SetToSeqs(Bufs)
    /\ rx_pkt_valid = FALSE /\ rx_pkt_in_dma = FALSE /\ rx_channel = "idle"
    /\ walks = <<>> /\ owned = {} /\ freed = {}

-----------------------------------------------------------------------------
(* What filling a buffer reads and changes; mem: the buffers for which          *)
(* sal_malloc has a soc_rx_packet_t.                                           *)
Engine(mem) == [list |-> rx_syspkt_list, pkts |-> rx_pkt_list, mem |-> mem,
                valid |-> rx_pkt_valid, dma |-> rx_pkt_in_dma, channel |-> rx_channel,
                freed |-> freed]

SetEngine(e) ==
    /\ rx_syspkt_list' = e.list /\ rx_pkt_list' = e.pkts /\ rx_pkt_valid' = e.valid
    /\ rx_pkt_in_dma' = e.dma /\ rx_channel' = e.channel /\ freed' = e.freed

(* brdimpl_rx_fill_buffer needs a soc_rx_packet_t, from its list or a new one. *)
(* It puts the buffer in its list whatever the driver says.                    *)
(* bcm5607x_rx_fill_buffer posts it, or returns SYS_ERR_FULL.                  *)
OutOfResource(e, b) == e.pkts = 0 /\ b \notin e.mem
Post(e, b) ==
    IF e.valid
    THEN [e EXCEPT !.list = <<b>> \o @]
    ELSE [e EXCEPT !.list = <<b>> \o @, !.valid = TRUE, !.dma = TRUE,
                   !.channel = IF e.dma THEN @ ELSE "busy"]
Fill(e, b) ==
    IF OutOfResource(e, b) THEN e
    ELSE Post([e EXCEPT !.pkts = IF @ = 0 THEN 0 ELSE @ - 1], b)
Refused(e, b) == OutOfResource(e, b) \/ e.valid

(* sys_rx_refill: to the engine while there is a handler, else to the pool.    *)
(* Its callers here ignore the result.                                         *)
RefillNoElse(b) ==
    /\ rx_pkt_pool' = <<b>> \o rx_pkt_pool
    /\ IF rx_cbk_list # <<>>
       THEN \E mem \in SUBSET {b} : SetEngine(Fill(Engine(mem), b))
       ELSE UNCHANGED engineVars
Refill(b) ==
    IF rx_cbk_list # <<>>
    THEN (\E mem \in SUBSET {b} : SetEngine(Fill(Engine(mem), b))) /\ UNCHANGED rx_pkt_pool
    ELSE /\ rx_pkt_pool' = <<b>> \o rx_pkt_pool
         /\ UNCHANGED engineVars

(* sys_rx_register drains the pool; a buffer the engine refuses is freed.      *)
DrainOne(e, b) ==
    IF Refused(e, b) THEN [Fill(e, b) EXCEPT !.freed = @ \cup {b}] ELSE Fill(e, b)
Drain(e) == FoldLeft(DrainOne, e, rx_pkt_pool)

-----------------------------------------------------------------------------
(* The list position of a new handler: before the first one that has the same  *)
(* or a higher priority number.                                                *)
PlaceLast(c) == Len(rx_cbk_list) + 1
Place(c) ==
    IF \E i \in DOMAIN rx_cbk_list : Priority[rx_cbk_list[i]] >= Priority[c]
    THEN CHOOSE i \in DOMAIN rx_cbk_list :
             /\ Priority[rx_cbk_list[i]] >= Priority[c]
             /\ \A j \in 1..(i - 1) : Priority[rx_cbk_list[j]] < Priority[c]
    ELSE Len(rx_cbk_list) + 1

FreeSlot == Len(rx_cbk_list) < Slots

(* Commands run in the main loop, so that no sys_rx_handler is on the stack.   *)
RegisterNoDrain(c) ==
    /\ walks = <<>> /\ FreeSlot
    /\ rx_cbk_list' = InsertAt(rx_cbk_list, Place(c), c)
    /\ UNCHANGED <<rx_pkt_pool, engineVars, walks, owned>>
Register(c) ==
    /\ walks = <<>> /\ FreeSlot
    /\ rx_cbk_list' = InsertAt(rx_cbk_list, Place(c), c)
    /\ IF rx_cbk_list = <<>>
       THEN /\ \E mem \in SUBSET ToSet(rx_pkt_pool) : SetEngine(Drain(Engine(mem)))
            /\ rx_pkt_pool' = <<>>
       ELSE UNCHANGED <<rx_pkt_pool, engineVars>>
    /\ UNCHANGED <<walks, owned>>

(* sys_rx_unregister: the first entry of this function.  A buffer that is in   *)
(* DMA stays there.                                                            *)
Unregister(c) ==
    /\ walks = <<>>
    /\ c \in ToSet(rx_cbk_list)
    /\ rx_cbk_list' = RemoveFirst(rx_cbk_list, c)
    /\ UNCHANGED <<rx_pkt_pool, engineVars, walks, owned>>

-----------------------------------------------------------------------------
(* The receive half of rxtx_task, called by the main loop or by POLL() in a    *)
(* handler.  A packet: bcm5607x_rx_direct releases the buffer and calls        *)
(* brdimpl_rx_handler, which takes the top of its list for it, keeps the       *)
(* soc_rx_packet_t and calls sys_rx_handler; with an empty list it drops both. *)
Receive ==
    /\ rx_pkt_in_dma /\ rx_channel = "done"
    /\ rx_channel' = "idle" /\ rx_pkt_valid' = FALSE /\ rx_pkt_in_dma' = FALSE
    /\ IF rx_syspkt_list = <<>> THEN UNCHANGED <<rx_syspkt_list, rx_pkt_list, walks>>
       ELSE /\ rx_syspkt_list' = Tail(rx_syspkt_list)
            /\ rx_pkt_list' = rx_pkt_list + 1
            /\ walks' = Append(walks, [pkt |-> Head(rx_syspkt_list), rest |-> rx_cbk_list])
    /\ UNCHANGED <<rx_cbk_list, rx_pkt_pool, owned, freed>>

(* An address decode error: the channel is aborted, the packet is "not done".  *)
ReceiveError ==
    /\ rx_pkt_in_dma /\ rx_channel = "error"
    /\ rx_channel' = "idle"
    /\ UNCHANGED <<rx_cbk_list, rx_pkt_pool, rx_syspkt_list, rx_pkt_list, rx_pkt_valid,
                   rx_pkt_in_dma, walks, owned, freed>>

Walk == walks[Len(walks)]

NotHandled ==
    /\ walks # <<>> /\ Walk.rest # <<>>
    /\ walks' = [walks EXCEPT ![Len(walks)].rest = Tail(@)]
    /\ UNCHANGED <<rx_cbk_list, rx_pkt_pool, engineVars, owned>>

(* SYS_RX_HANDLED, and a packet that no handler took.                          *)
Handled ==
    /\ walks # <<>>
    /\ walks' = Front(walks)
    /\ Refill(Walk.pkt)
    /\ UNCHANGED <<rx_cbk_list, owned>>

HandledAndOwned ==
    /\ walks # <<>> /\ Walk.rest # <<>> /\ Head(Walk.rest) \in Owners
    /\ walks' = Front(walks)
    /\ owned' = owned \cup {Walk.pkt}
    /\ UNCHANGED <<rx_cbk_list, rx_pkt_pool, engineVars>>

(* sys_rx_free_packet, called by the owner.                                    *)
FreePacket(b) ==
    /\ b \in owned
    /\ owned' = owned \ {b}
    /\ Refill(b)
    /\ UNCHANGED <<rx_cbk_list, walks>>

RxDmaEnds(result) ==
    /\ rx_channel = "busy"
    /\ rx_channel' = result
    /\ UNCHANGED <<rx_cbk_list, rx_pkt_pool, rx_syspkt_list, rx_pkt_list, rx_pkt_valid,
                   rx_pkt_in_dma, walks, owned, freed>>

RxNext ==
    \/ \E c \in Callbacks : Register(c) \/ Unregister(c)
    \/ Receive \/ ReceiveError
    \/ NotHandled \/ Handled \/ HandledAndOwned
    \/ \E b \in Bufs : FreePacket(b)
    \/ \E result \in {"done", "error"} : RxDmaEnds(result)

RxSpec == RxInit /\ [][RxNext]_rxVars

(* The main loop runs rxtx_task, and handlers return.                          *)
RxFairSpec ==
    /\ RxSpec
    /\ WF_rxVars(Receive \/ ReceiveError \/ NotHandled \/ Handled \/ HandledAndOwned)

-----------------------------------------------------------------------------
RxTypeOK ==
    /\ rx_cbk_list \in Seq(Callbacks) /\ Len(rx_cbk_list) <= Slots
    /\ rx_pkt_pool \in Seq(Bufs) /\ rx_syspkt_list \in Seq(Bufs) /\ rx_pkt_list \in Nat
    /\ rx_pkt_valid \in BOOLEAN /\ rx_pkt_in_dma \in BOOLEAN
    /\ rx_channel \in {"idle", "busy", "done", "error"}
    /\ walks \in Seq([pkt : Bufs, rest : Seq(Callbacks)])
    /\ owned \subseteq Bufs /\ freed \subseteq Bufs

(* No buffer is lost, used twice or freed under a list that still holds it:    *)
(* through all lists of the kernel, the board and the driver each buffer is    *)
(* referred to from exactly one place.  The board interface says "You can fill *)
(* more than one buffers until it returns SYS_ERR_FULL" (boardapi/rxtx.h:34).  *)
(* A buffer is given up only when the first fill of all finds no memory: then  *)
(* the board never had a soc_rx_packet_t.                                      *)
Places(b) ==
    Cardinality({i \in DOMAIN rx_pkt_pool : rx_pkt_pool[i] = b})
    + Cardinality({i \in DOMAIN rx_syspkt_list : rx_syspkt_list[i] = b})
    + Cardinality({i \in DOMAIN walks : walks[i].pkt = b})
    + (IF b \in owned THEN 1 ELSE 0) + (IF b \in freed THEN 1 ELSE 0)
BuffersKept ==
    /\ RxTypeOK /\ \A b \in Bufs : Places(b) = 1
    /\ freed # {} => rx_pkt_list = 0 /\ ~rx_pkt_valid

(* A packet is offered to the handlers in the order of their priorities,       *)
(* however handlers were registered and unregistered before.                   *)
InPriorityOrder ==
    \A i, j \in DOMAIN rx_cbk_list :
        i < j => Priority[rx_cbk_list[i]] <= Priority[rx_cbk_list[j]]

(* Reception goes on as long as no transfer fails: while handlers are          *)
(* registered and none of them owns the buffer, it is posted to a running      *)
(* channel again and again, through every registration, refill and drain.      *)
(* After an address decode error nothing starts the channel again, and after a *)
(* first fill without memory, which frees the buffer, nothing ever starts it.  *)
KeepsReceiving ==
    [](rx_channel # "error" /\ freed = {})
        => []<>(rx_channel = "busy" \/ rx_cbk_list = <<>> \/ owned # {})
=============================================================================
