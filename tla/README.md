# Verification of OpenUM

OpenUM is the firmware of an unmanaged or lightly managed switch: here release
3.8.0 for the BCM5607X on the BCM95607X board. One ARM core runs everything in
a cooperative main loop, without threads; Cortex-M0 cores inside the chip run
a second firmware. This directory holds TLA+ models of the parts of the
program where order, interleaving and failure matter, the TLC runs that check
them on small instances, and proofs, checked by TLAPS, of what holds for every
instance. Paths below are relative to `src/src/src/` unless they start with
`src/`.

- [The system](#the-system)
- [The modules](#the-modules)
- [The runs](#the-runs)
- [What the runs found](#what-the-runs-found)
- [The proofs](#the-proofs)
- [Not modelled, and the plan](#not-modelled-and-the-plan)
- [Running it](#running-it)

## The system

`kernel/main.c` initialises everything and then calls `background()` and the
console for ever. Nothing preempts the main loop but interrupts, which are
polled in this configuration (`POLLED_IRQ()` in the loop). Concurrency comes
from five places:

1. `POLL()` inside a callback, which is `background()` again: tasks, timers and
   packet handlers nest on the C stack, and tables change under a loop that is
   walking them;
2. the packet DMA, which ends or fails at any time;
3. the Cortex-M0s, which share memory with the host without any lock;
4. the flash, in whose contents a reset between two writes leaves its traces;
5. calls that fail halfway.

| component | state | operations | talks to | what is hard | correct if |
|---|---|---|---|---|---|
| background tasks, `kernel/background.c` | `bg_tasklist`, `bg_args`, `bg_task_flag` | add, suspend, resume, remove, `background` | everything, through `POLL()` | removal inside nested walks | exactly the suspended tasks are held back; every other task keeps running |
| timers, `kernel/timer.c` | `timer[]`, `previous_tick` | `timer_add`, `timer_remove`, `sys_timer_task` | callbacks of most components | the table moves during nested walks | not reentered, not early, not forgotten |
| transmission, `kernel/tx.c`, `board/brd_rxtx.c`, `driver/soc/bcm5607x/flrxtx.c` | descriptor pool, list, `tx_pkt_in_dma`, `internal0` of each packet | `sys_tx`, `rxtx_task`, callbacks | timers, tasks, receive handlers | polling senders that nest, time-outs | each packet reported once, with its own status, and senders return |
| reception, `kernel/rx.c`, same board and driver files | handler list, three buffer lists | register, unregister, deliver, refill, free | IGMP snooping, commands | buffers that travel through three layers, errors | no buffer lost or used twice; priorities; reception goes on |
| M0SSQ FIFO, `driver/m0ssq/main/m0ssq_fifo.c` | pointer words and ring in SRAM | write, peek, read, positioned access | the other core | no lock at all | a queue |
| M0SSQ mailbox, `driver/m0ssq/main/m0ssq_mbox.c` | FIFOs, handlers, `inuse` | send, receive, respond | FIFO, interrupt | responses written into the ring, late ones | the answer is that to the message; every message is handled once |
| firmware life, `driver/m0ssq/hmi/cmicx_m0ssq_fw.c`, `driver/m0ssq/main/m0ssq.c` | usage bitmap, core state, interrupt switch | init and cleanup per feature | LED, linkscan | shared by two drivers, partial failure | nobody loses the firmware under his feet |
| LED driver, `driver/led/hmi/cmicx_led.c` | `cmicx_led_devs`, `enable` | init, start/stop, cleanup | mailbox, firmware | as above | as above |
| firmware linkscan, `driver/lm/` | `link_stat`, `fw_init` | configure (stop, configure, start), link get, handler | mailbox, interrupt, M0 firmware | stale reports, lost interrupts, time-outs | the cache is the link state of the configured ports |
| software linkscan, `driver/soc/bcm5607x/fllinkscan.c`, and the port commands of `driver/pcm/pcm_phyctrl_hounds.c` | link states, status, loopback | scan, loopback, enable | PHYs, timers | two copies of each link, written by scan and commands | the reported status is the scanned link |
| link-change notification, `kernel/link.c` | table of handlers, links they were told | register, unregister, `sys_linkchange_timer` | linkscan, LAG, LED commands | handlers poll and change the table | every handler hears each change, once |
| link aggregation, LAG functions of `src/systems/bcm95607x/src/board.c`, `fllag.c` | `lag_enable`, `lag_group`, hardware groups | set, set group, link-change handler | linkscan by commands, notification by the handler | the two links differ for up to 600 ms | hardware groups hold the configured members whose link is up |
| switch interrupts, `flintr.c` | saved enables | enable, disable, save/restore | polled service routine | nothing: polled by the main loop | nothing stays masked |
| IGMP snooping, `appl/igmpsnoop/` | `igmpDB`, `IPMCuplist`, `igmpLV`, `dynamic_router`, the board's `mlist` | report, leave, query, one-second timer, enable, change of VLAN | rx, timers, board | groups share a MAC address; ageing, leaves and take-overs in one walk | the forwarding list follows the members; members age out |
| persistence, `appl/persistence/`, `driver/flash/` | items in memory, items and header in flash | save all, save by name, validate, load, restore defaults | serializers, flash, boot | resets between writes, other images, failing allocations | a boot finds the last complete save or the defaults |
| ticks and memory, `sal/arm/` | tick and remainder counters, free list | tick, alloc, free | all | wrap | monotonic time; no overlap |
| board, switch, MAC, PHY, PCM drivers, command lines | mostly hardware registers | register sequences; commands parse, call the others and print | chip | volume | outside of the models |

`PROJECT.json` lists the same components with their sources and whether they
are modelled, and under `hazards` the lines of code where something may go
wrong that a test would hardly reach, with the properties that cover them.

## The modules

State variables carry the names of the C variables where they have one. Each
module says in its header what it takes from the code. Operators whose name
extends the name of another (`ForwardLateWrap`, `ResponseFlagsFirst`, ...)
and whose comment begins with "Mutant of" are the plausible bugs each property
has been tried against; no specification uses them.

**M0ssqFifoOps, M0ssqFifo, M0ssqFifoQueue.** `M0ssqFifoOps` is the pointer
arithmetic of the ring. `M0ssqFifo` runs a writer (`WriteBegin`, one
`WriteWord` for each word, `WriteForward`) and a reader (`ReadBegin`,
`ReadWord`, `ReadForward`) with an interleaving at each word, because
`m0ssq_fifo_lock` is empty. A pointer word and its check are read in one step: each
pointer has one writer, and the other side's movement only makes a check more
favourable. `M0ssqFifoQueue` is the abstract specification: a bounded queue of
words to which a whole message is appended, or from which one is taken, at once.
`M0ssqFifo!QueueSpec` is the refinement with the words between the pointers as the queue.

**M0ssqMbox.** One channel of a mailbox on top of that ring: a sender
(`Send`, `PollWord`, `PollReady`, `PollNotReady`) and a receiver (`RecvCall`
for the interrupt, `RecvPeek`, `RecvHandle`, `RespondWord`, `RespondFlag`,
`RecvForward`). The write of a message is one step, as the refinement above
justifies; the response and the sender's polls, which the FIFO's pointers do
not protect, are word by word. `PollNotReady` may give up after any poll:
`MBOX_TX_TIMEOUT_CNT` polls take as long as the receiver happens to be slow.
`RecvCall` may find no memory for its message (`m0ssq_mbox.c:412`), with the
interrupt cleared already; a `Send` that finds none has changed nothing, like
one that finds the ring full.

**M0ssqFirmware.** The firmware that LED and linkscan share: `LedInit`,
`LedStartSet`, `LedCleanup`, `LinkscanInit`, `LinkscanSwitch`,
`LinkscanCleanup`. Each takes as parameter where it fails; everything before
that point has happened. The module has no constants. `fwLed` is the LED state
inside the image: a started image has the LEDs off, and an executed
`LED_MSG_ENABLE` sets it, whether or not its answer comes in time. `lost` is
history: the host knows that it does not know. `LedStartSet` and `LedCleanup` are
called while the LED driver is allocated, the contract of their callers.

**FwLinkscan.** `lm_hw_config` with its three requests (`ConfigBegin`,
`Paused`, `Configured`, `Started`), the interrupt (`IsrBegin`, `IsrMsg`) and
`Timeout`. `FwScan`, `FwInterrupt` and `FwServe` are the M0's firmware, of which the repository
has only the binary: they do what the driver expects and
are marked external, as are the link changes. The response to the
configuration updates the cache without calling the change handler
(`cmicx_fw_linkscan.c:259-261`); the handler is not part of the model. Every
send may fail for want of memory as for a full mailbox, the service
routine may take nothing, and so may the purge, whose result the code ignores
(`cmicx_fw_linkscan.c:333`). `old` and `lapse` are history: the messages of the
mailbox that a purge should have taken, and what a failure has left undone
since the last configuration (a call that took nothing, an old message in the
cache, an `LS_CONTINUE` that was not sent).

**Background.** The task list and the suspend flags, with `background()` as a
stack of walks (`BgEnter`, `Step`, `TaskReturns`, `BgLeave`), one frame for each nested
call. Commands suspend and resume; tasks and commands add and remove. `displaced` is
history: the tasks that a removal moved to a slot with another flag, or that
were added to a slot left flagged, until they are suspended, resumed or removed.

**Timer.** The table as the prefix of used entries, walked by a stack of
`sys_timer_task` calls (`Enter`, `Call`, `Skip`, `Return`, `Leave`). `Tick`
may come at any time. A tick count is represented by its age, saturating at the bound
`MaxAge`, which is no less than any interval; subtraction modulo 2^32 makes ages exact as long as no
interval exceeds 2^32 ticks, so that the wrap is not modelled. No callback in
the tree calls `timer_add`, and `TimerAdd` happens only in the main loop.
`Removes` says which timers may be removed while which callback runs, by it or by a task
that runs while it polls; `stranded` is history, the running timers whose entry such
a removal moved.

**Tx.** The functions on the transmit state (`TxInternal`, `SocTx`, `BoardTx`,
`SendNext`, `Complete`) are composed into actions as the calls are:
`SendAsync`, `SendSync`, `RxtxTask`, `SyncReturn`, and `RxDirect`/`RxReturn`
for a receive handler that runs in `rxtx_task` and may send. `stack` is the C
stack of senders and handlers. An asynchronous owner does not send a packet
again before its callback, the contract `appl/cli/ui_tx.c` keeps. The error
return of `bcm5607x_tx_internal` cannot be reached: the loop over
`BCM5607X_LPORT_MAX` never exceeds the `BCM5607X_PORT_MAX` it is compared with.

**Rx.** The handler list and the three buffer lists. A packet is delivered by
`Receive` and then `NotHandled`, `Handled` or `HandledAndOwned` for each handler.
`ReceiveError` is the decode error of `soc_dma_desc_done`. The
`soc_rx_packet_t` wrappers are a count: filling a buffer takes one from the board's list
or allocates one, which may fail (`mem` is the set of buffers for which it would succeed).
A buffer that `sys_rx_register` cannot hand on is freed; the assertion in
front of it is off in this build (`CFG_ASSERTION_ENABLED`). Error flags are left out,
since `bcm5607x_rx_retrieve` clears them. Handlers are registered and removed by
commands in the main loop, outside of any delivery.

**LinkStatus.** Each port's link exists three times: `link` in linkscan,
`status` (`SOC_PORT_LINK_STATUS`) that the board reports, and
`linkchange_status` that the handlers were told. `Linkscan` may find any link
on any port, and may fail to read any; `LoopbackSet` and `EnableSet` are the
commands that write `status` too and end with a scan. The notification walks
in steps (`TimerFires`, `CheckPort`, `NextSlot`, `Call`, `Return`,
`TimerReturns`), because a handler may poll: while `walk.at` is "call" linkscan
may run and handlers may register and unregister. The handlers in this tree
do not poll; their type (`REENTRANT`) and registration allow it. `blind` and `told` are
history variables: `blind` marks a port whose loopback command read another link
than linkscan last had, `told` is what each handler last heard.

**Lag.** `LagSet`, `LagGroupSet` and `LagLinkchange` on top of `LinkStatus`
(EXTENDS, with `UNCHANGED` for the other's variables): the commands read
`link`, the handler is told from `linkchange_status`. `split` is history, the
members for which these differed at the last command. The hardware's tables
are one set per group; register writes are taken to succeed. LAG is compiled
in with `CFG_SWITCH_LAG_INCLUDED`.

**Settings, SavedMedium.** A save is `SaveAll` or `SaveName`, which build the
list of items in memory, then `Erase`, `ProgramItem` for each item,
`ProgramHeader`; `Reset` may come before any of them and may start another
image, whose serializers have other versions. `Boot` validates, loads, or
restores the defaults and saves them. The parameter `a` of the saves is the first
serializer from which allocations succeed again. `kept`, `last` and `clean` are
history. An item's data are one value and `STUB`, the item without data that
a save by name writes for others. `SavedMedium` is the abstract specification of
the medium, which `MediumSpec` refines with "what a valid header covers" as
its contents. Flash operations succeed or are cut short by a reset, and a
checksum is taken to identify what it was computed from.

**IgmpSnoop.** `Report`, `Leave`, `Query`, `OneSec`, `Enable`, `Disable` and
`ChangeVlan`. One second of the timer is one step: expired leaves, ageing of
router ports and ageing of members run in a fixed order without a poll in
between, each a fold over its table (`Leaves`, `RoutersAged`, `AgeTables`)
that keeps the order in which the C loops visit entries, since they change
what later iterations see. Reports may come in any order: the handler relays a
frame, which polls, before it uses it. `mlist` keeps duplicates of an address as the
board does. `drifted` is history: the addresses whose forwarded ports may differ from
their members until the next calculation. Multicast is compiled in with
`CFG_SWITCH_MCAST_INCLUDED`.

The `MC*` modules extend these with the values of the constants.

## The runs

A passing run explores the whole state space of its instance.

| run | instance | asks | shows |
|---|---|---|---|
| `m0ssq_fifo` | ring of 5 words, messages of 1 or 2 words over 2 values | `TypeOK`, `SecondCheckHolds`, `NoOverwrite`, `QueueSpec` | no lock is needed between one reader and one writer |
| `m0ssq_mbox` | ring of 10 words, messages with 0 and 2 words of data, answers of 1; any receive call may lack memory | `HandledInOrder`, `SyncResult`, `OwnWords`, `EventuallyHandled` | in-place responses, also late ones, damage nothing, and only a call without memory leaves a message |
| `m0ssq_firmware` | no constants | `MarkedRuns`, `LinkscanOwnsMbox`, `LedStateKnown` | half-failed initialisations leave consistent state; linkscan coming and going never costs the LED state |
| `m0ssq_firmware_use` | the same | `LinkscanKeepsFirmware` | violated, see below |
| `fw_linkscan` | 2 ports; both, one or none configured; 4 link changes; mailboxes of 2; every allocation may fail | `CacheCurrent`, `OwnPorts`, `EventuallyCurrent` | time-outs never leave a stale cache, and failing allocations only as named |
| `timer` | 4 timers for 3 slots, intervals 0, 1, 2; walks nested 3 deep; in any of them callbacks remove themselves, and those that poll the sending timer | `NoReentrance`, `MarkIsRunning`, `NeverEarly`, `KeepsRunning` | nesting and removal hurt nobody but the running timers whose entry moves |
| `background` | 4 tasks for 3 slots, nested 3 deep; any task removed at any time | `SuspendFollowsTask`, `TasksKeepRunning` | suspension works but for displaced tasks, and a task skipped by a removal runs in the next walk |
| `tx` | 2 synchronous and 1 asynchronous packet, 3 descriptors | `OwnStatus`, `CarriedOnce`, `SpktsAccounted`, `SyncReturnsAlone` | nesting and errors never mix up packets; every sender returns once the asynchronous one stops |
| `rx` | 3 handlers, 1 buffer, decode errors, failing allocations | `BuffersKept`, `InPriorityOrder`, `KeepsReceiving` | the buffer is never doubled, and lost only by a first fill without memory; without that and decode errors reception never stalls |
| `lag` | 2 ports, one with loopback; 2 handlers for 2 slots; 1 group | `StatusAgrees`, `ToldCurrent`, `NeverToldTwice`, `HwWithinConfig`, `LagFollows`, `EventuallyTold` | scans, commands and walks whose handlers change the table keep the three links, and the hardware groups, together |
| `settings` | 3 serializers with one bit each, two images that differ in one version | `MediumCurrent`, `BootRestores`, `MediumSpec` | no reset leaves half a save, and no save by name loses another's settings |
| `igmp_snoop` | 3 groups on 2 addresses, 2 entries, 2 leaves, 2 nodes; 2 ports, one with a router | `OnePioneer`, `ForwardsMembers`, `Served`, `AgesOut` | take-overs keep one pioneer; forwarding follows the members where the code calculates it; nothing is forwarded for ever |

Where the types are proved for every instance and no invariant of a run has them as
a conjunct (`M0ssqFirmware`, `Lag`) no run repeats them; elsewhere it is checked with the invariant that needs it most, as
its first conjunct.

*Bounds.* Rings: five words make a two-word message wrap at every place and
leave the ring empty, partly full and full; eight usable words hold two
headers with data and refuse a third message. Two tasks or timers are enough for an
entry that moves and one that takes its place; a third fills the table, and
a fourth is refused. `MaxDepth` and `MaxNesting` 3 allow a walk that nests while another
nested one is suspended. Three packets put two into the driver's list, where
their order matters, behind the one in DMA; `sal_malloc` may fail whenever the
pool is empty. `MaxInbox`, `MaxOutbox` and `MaxChanges` bound the
linkscan run: two requests make a time-out meet a new reconfiguration, and a
full mailbox. `MaxRxMsgs` is 2 where the code
has 200: a full ring in the instance holds at most two messages, as 4088 bytes
hold at most 200 messages that carry data (header-only messages, of which 204
would fit, are sent by no client).

`lag`: two ports make a walk pass one port while another changes, two slots a handler that
comes and one that goes before or behind the place of the walk; one group suffices,
since groups do not touch each other. `settings`: the item of another
version is the middle one of three, so that a list that ends or an item that is
replaced has items on both sides. `igmp_snoop`: `a` and `b` share an address,
so that two entries are a pioneer and a follower or two pioneers; two nodes of
`mlist` are a duplicate or two addresses; the third group finds the table
full. The port whose hosts are of version 2 and the one with a router differ.
The intervals 3 (members), 2 (routers) and 1 (leaves) meet in every
phase, and a timeout that wraps at 2 instead of 255 expires again within the
run. With three nodes the same properties hold (785,412 states, five minutes).

*Fairness.* `M0ssqMbox`: both cores run, and a pending interrupt is taken.
`FwLinkscan`: the firmware scans and serves its mailbox, the interrupt is
taken, and a wait that has its answer ends. `Timer` and `Background`: the main
loop calls `background()` for ever, a walk proceeds, and a callback returns
(strong fairness for each, since nested walks interrupt it). `Tx`:
`rxtx_task`, handlers and senders proceed and time passes; nothing is assumed
of the DMA. `Rx`: `rxtx_task` runs and handlers return; not even that a packet
arrives. `Lag`: a walk proceeds, handlers return and the timer fires again
(`Timer!KeepsRunning`); links need not settle and linkscan need not run.
`IgmpSnoop`: the timer, while it is registered, is called again, as `KeepsRunning` of
`Timer` says. `Settings` has no liveness: nothing promises that
the power stays on. No fairness makes an allocation succeed.

Two passing runs turn the deadlock check off. In `m0ssq_firmware` no call is
possible once both mailboxes are taken by failed initialisations. In
`m0ssq_mbox` a full ring whose last interrupt was lost for want of memory
accepts no message that could interrupt the receiver again.

## What the runs found

- `cmicx_m0ssq_fw_linkscan_init` marks the LED's bit
  (`cmicx_m0ssq_fw.c:117`), so that `cmicx_led_cleanup` stops the firmware
  that linkscan uses (`m0ssq_firmware_use`).

Other behaviours of the code, met while modelling. Where a constant switches
them on, the property named fails with it; the others are in the models, and the
properties are stated around them, or are outside of the models, as said.

Kernel and drivers:

- `timer_remove` moves the entries behind the removed one, also those of timers
  whose callbacks are running. The check at `timer.c:63` then looks at another
  timer, or at none: `inprogress` is never cleared, and the timer is never called again
  until it is removed itself. `rxtx_task` can do this while a callback polls, when the
  last packet of the `tx` command was sent (`ui_tx.c:325`). Such timers are
  `stranded`; `MarkIsRunning` and `KeepsRunning` say that they are the only ones.
- `task_remove` moves the functions and leaves the suspend flags
  (`background.c:178-183`), so that another task is held back, or a suspended
  one runs. Such tasks are `displaced`; `SuspendFollowsTask` says that they are
  the only ones. In this tree one caller suspends (`appl/snaketest/snaketest.c:348`)
  and one removes (`appl/spimgmt/spi_mgmt.c:145`).
- Without memory `m0ssq_mbox_process_recv_msgs` returns before the first
  message (`m0ssq_mbox.c:412`), while the interrupt is cleared already. The messages stay
  until another one interrupts; if the ring is full, nothing can come any more.
  `EventuallyHandled` ends at such a call.
- In linkscan the same failure has three effects. A purge that took nothing
  lets a report from before the reconfiguration into the cache
  (`cmicx_fw_linkscan.c:333`): `CacheCurrent` and `OwnPorts` except it until the next
  report. An interrupt whose call took nothing leaves the cache behind until
  the next one; in a mailbox that such purges have left full, the firmware has no
  room for a report that would bring it. An `LS_CONTINUE` that was not sent
  (`m0ssq_mbox.c:579`) leaves the firmware paused, although the interrupt is
  enabled and the configuration answered. `EventuallyCurrent` is stated for the others.
- When there is no memory for the first `soc_rx_packet_t`, `sys_rx_register`
  frees the only buffer (`brd_rxtx.c:121`, `rx.c:97-99`), reports success, and nothing is
  ever received. `KeepsReceiving` excepts it. `BuffersKept` says that it can only be the first
  fill: later ones reuse the packet.
- `tx_pkts_list` is a stack (`flrxtx.c:629`): a packet in it is overtaken while
  others keep sending. `SyncReturnsAlone` is stated for asynchronous senders
  that stop at some time.
- After an address decode error on the receive channel nothing restarts it
  (`flrxtx.c:516-522`). `Rx` has the error; `KeepsReceiving` is stated for
  behaviours without one.
- A second receive buffer, which the board interface invites
  (`boardapi/rxtx.h:34`), is freed while the board's list still holds it
  (`brd_rxtx.c:133`, `rx.c:97-99`). With `Bufs = {b1, b2}` in `MCRx.cfg`
  `BuffersKept` fails in a few steps. The boards of this tree add one.

Links:

- The loopback command reads the link and writes it into the status
  (`pcm_phyctrl_hounds.c:942`); linkscan then compares with its own state
  and corrects the status only at a change (`fllinkscan.c:112-120`). When the
  two readings differ the status stays wrong until the link changes: `blind`.
- A LAG command adds the members whose link is up by linkscan (`board.c:1128`).
  A member whose link flaps before the next notification walk is never reported as changed, and
  stays in or out of the hardware group: `split`.
- `board_lag_set` writes every group, also one that is disabled
  (`board.c:1032`), and the handler passes over disabled groups: their
  members stay when their links go down. `LagFollows` is about enabled groups.

Settings:

- A save by name on an empty medium writes items without data for the others
  (`serialize.c:751`); a later save of all finds them in this version and has no
  room in them (`flash_medium.c:433`). Boots then fall back to the defaults.
- When an item of another version is replaced and its buffer cannot be
  allocated, the list of items ends there (`flash_medium.c:307-321`).
- A failing allocation at boot makes the medium look invalid, and the defaults
  overwrite it (`main.c:292`). The three are excluded by `clean`.
- A reset between the erasure and the header loses the configuration
  (`flash_medium.c:206`); `SavedMedium` therefore has `GiveUp`.
- Not modelled: a read error frees the data buffer twice
  (`flash_medium.c:147` and 57); results of erasing and programming are ignored
  (`flash_medium.c:226-259`); a serializer that fails leaves a partial item
  (`flash_medium.c:279-281`); forty items and the buffer's length are not
  checked (`flash_medium.c:297`, 329).

IGMP snooping:

- The entry of a second group of an address adds the address to `mlist` again,
  with its own port alone (`igmpsnoop.c:367`, `board.c:2586`): the members of
  the first group lose the traffic until the ports are calculated again.
- An expired leave keeps a port if both groups have its age bit
  (`IPMCuplist_mob`), not if the other group has it as member; a port that another group uses may be
  removed. These and the next are where `drifted` grows.
- A follower that was aged in this walk and takes over is aged once more
  (`igmpsnoop_cbk.c:383`), and its members are dropped.
- A leave whose group is gone is skipped with the old `next`
  (`igmpsnoop_cbk.c:256`): the walk ends, or comes back to the leave and wraps its
  timeout to 255.
- Not modelled: `are_pals` does not ask whether an entry is in use, so that
  groups whose address ends in zeroes pair with free entries
  (`igmpsnoop.c:381`); `board_mcast_addr_remove` clears the index of the previous node and
  reads the freed one (`board.c:2709-2735`); the `vid` of an untagged frame is not
  initialised when VLANs are 802.1Q (`igmpsnoop_cbk.c:97`); `irrigate` keeps its buffers on errors.

## The proofs

`M0ssqFifo_proofs` holds for every `MemSize` with room for a word, every set
`Words` and every `MaxLen`, from the assumptions named in the modules
(`MemSizeAssumption`, `WordsAssumption`, `MaxLenAssumption`):

- `TypeCorrect`, `SecondCheck`: from the inductive invariant `IInv`
  (`Invariant`). `TypeOK` is not inductive: that a pointer stays in the ring
  needs that a message in progress fits, that is `SecondCheckHolds`, and this in turn
  that the other core only ever makes room or adds data. `IInv` also says that the words
  already copied are in the ring in front of the write
  pointer, and that the words already read are still at the read pointer.
- `NoOverwriteCorrect`: the words between the pointers do not change while
  they are there, since the word a writer copies next lies outside of them.
- `ImplementsQueue`: `Spec => QueueSpec`. Each step maps to a step of the
  queue or to a stutter; `WriteForward` appends the message (`ForwardWritesQueue`), `ReadForward`
  takes it (`ForwardReadsQueue`).

The argument rests on `Step(p, n)` of `M0ssqFifoOps_proofs`, a pointer moved n
entries around the ring:
`ForwardIsStep` and `CellAtIsStep` say that the code's two computations, in
bytes and with two different treatments of the end, are this one operation,
and `StepStep` and `StepInjective` are all the later proofs need of it.

The second part of `FwLinkscan_proofs` is about `M0ssqFirmware`: it proves the
types, `MarkedRuns`, `LinkscanOwnsMbox` and `LedStateKnown`. The last is not inductive: that
nothing but the LED driver stops or reloads the image needs that the LED's mark
stands as long as the driver is allocated (no step of linkscan takes a mark
away). `FwInitKeeps` and `FwCleanupKeeps` are
the two halves of the reference counting that all six handlers share.

`M0ssqMbox_proofs` uses the same lemmas and holds for every ring, all lengths of
messages and answers (`MboxAssumption`) and any number of messages in the ring. It
proves `HandledInOrder` (with the types), `OwnWords` and `SyncResult`. The invariant says
where messages lie (`Laid`): there are offsets from the read pointer, the first
0 or the length of the message that is being answered, each the one before
plus the length of its message, the last at the write pointer, and at each the
words of the message that was accepted. `SendContent` appends an offset,
`RecvHandleStep` drops the first, `RecvForwardStep` moves the read pointer under them;
an answer is written below the first (`ResponseFacts`: it is not longer than
its message) and leaves the rest alone (`ContentKept`). `SyncResult` needs a
second invariant, `SyncInv`: a sender's message waits as the last one, is being
answered, or is answered, at the same words throughout, and never goes back
(`Moves`); and what the sender has read is part of the final answer as soon as
the first word it read is not the message's own (`ReadInv`), because the
flags are written last and read first.

`FwLinkscan_proofs` proves `CacheCurrent` and `OwnPorts` (with the types) for
every number of ports, every set of configurations and mailboxes of any size,
time-outs and failing allocations included (`FwLinkscanAssumption`). Neither is inductive. `ScanInv` is
what holds while the interrupt is on: no request that stops or configures is
left in the mailbox, the messages on their way show configured ports only, and
the last of them is what the firmware compares with. That it holds again
after a reconfiguration rests on `ConfigInv` (the firmware is paused and its
older messages are purged, or counted in `old`, before the cache is set) and on `WaitInv` (the
request that is awaited is the last in the mailbox, so that its answer also answers
those that timed out before it).

`MainLoop_proofs` has `Timer` and `Background`. The first part proves the types, `NoReentrance`,
`NeverEarly` and `MarkIsRunning` for every table,
any intervals, nesting to any depth and callbacks that remove any others
(`TimerAssumption`). `Marked`
(the entry of a running function is marked) is what keeps a second call out; `Ages`
compares the table, and each running walk's copy of `start`, with the history
`since`; `GivenBack` says that each mark stands where its walk will look
for it, or that its timer is stranded, and `Stranded` that a stranded timer
stays marked, before the place where its walk will look.

The second part proves the types of `Background` and `SuspendFollowsTask`, for
every removal at any time: a task that is not displaced has the flag that the
commands gave it, whichever slots are flagged (`Flagged`).

`Lag_proofs` has both `LinkStatus` and `Lag`. The first part holds for every
number of ports, handlers and slots (`LinkStatusAssumption`) and proves `TypeOK`, `StatusAgrees`, `ToldCurrent`
and `NeverToldTwice`. The last two are not inductive: that a handler is called
once needs that no function is in the table twice (`Injective`), kept because
`Register` is for functions that are not registered and a removal clears one
slot; and that it is told of a change needs what the handlers that the walk has not come
to were told before it (`ToldInv`, slot by slot). `ScanStep` is the half that the three
actions ending in a scan share, and `InitInv` starts from any table without a
function in two slots, so that `Lag` can use it. `FirstOfSlots`, that the first
of a set of slots exists, rests on the well-foundedness of `<`.

The second part (with `LagAssumption`, for every number of groups and members)
proves the same for `LagSpec`, and `LagTypeOK`, `HwWithinConfig` and
`LagFollows`. A LAG command is a stutter of `LinkStatus` and every
other step is one of its steps, so that `IInv` carries over. `LagFollows` speaks of the
time between two walks and is not inductive; `FollowsInv` says the same of
every moment, but for the port whose change the LAG handler has still to be
told (`Untold`). `SlotKept` (the handler keeps slot 1, since others take free
slots) and `PastTheSlot` (no step but its own call takes a port past that slot) are
what the proof rests on.

`RxTx_proofs` has `Rx` and `Tx`, for every number of handlers, packets,
senders and slots (`RxAssumption`, `PktsAssumption`, `MaxSpktsAssumption`) and
calls nested to any depth.

- `InPriorityOrderCorrect` needs nothing but the types of the list. The place
  that `Place` chooses is behind every handler of the same or a higher priority and before
  every other one.
- `BuffersKeptCorrect` assumes that there is one buffer (`OneBuffer`), which is what
  `DEFAULT_RX_BUFFER_COUNT` is (`src/systems/bcm95607x/include/board.h:64`) and what the property
  needs: with two it is false. `RxInv` says that it is in one of five places (the kernel's pool,
  the board's list, a walk over the handlers, an owner, the heap), that the driver has it exactly
  while the board's list does, and that a packet was kept for a buffer that was received
  (`PacketKept`), so that no refill can be refused.
- `SpktsAccountedCorrect`, `CarriedOnceCorrect` and `OwnStatusCorrect` are proved
  from one invariant, `TxInv`. Within an action a descriptor is in the hand of the
  code, in none of the three places: `Accounted(T, H)` is the invariant with a
  set `H` of such descriptors, kept by each of the functions that the actions
  compose (`TxInternal`, `SocTx`, `SendNext`, `FreeSpkt`, ...), each of which
  has its own lemma. `OwnStatus` is not inductive: that the status in `internal0` is the
  packet's own needs that a synchronous packet that is out has its one sender on the
  C stack (`SyncOut`), so that nobody else resets it.

`Appl_proofs` has the two applications whose work is a walk over a table. What it
says of `Settings` holds for every number of serializers, values, versions and images
(`SettingsAssumption`; that `NONE`, which stands for an invalid header, is no list of
items is part of it).

- `BootRestoresCorrect` is an action property and rests on `FlashIsKept`: the medium holds
  what the last completed save wrote, or is not valid if it is gone, and while a save is under way the
  medium is not valid and its body is a prefix of the save's items.
- `MediumSpecCorrect`: `Spec => MediumSpec`. A save is `Begin`, its erasure
  `GiveUp`, an item programmed a stutter, the header `Commit`, and a reset or a failure
  before it `Abandon`.
- `MediumCurrentCorrect` needs `Current`, which says for the list that is being
  written what `MediumCurrent` says of the medium when the save is complete. The
  list is built by a fold over the serializers; `SavedSteps` unfolds
  it into its steps (the least number at which the step would be missing
  gives a contradiction, since induction theorems cannot be instantiated by the
  provers), and `SavedItems` carries through them which items stay, are replaced, or are
  appended. The attempt showed that two arms of the case distinction in `ItemSaved`
  overlapped, so that TLC's choice of the first hid an outcome that the
  definition left open; the arms are disjoint now, as the code's branches are.

What `Appl_proofs` says of `IgmpSnoop` holds for every mapping of groups to addresses,
all ports, intervals and sizes of the tables, the queue and the heap
(`IgmpSnoopAssumption`).

- `OnePioneerCorrect`, `ForwardsMembersCorrect` and `ServedCorrect` are proved
  from one invariant, `IgmpInv`. It says of the tables together (`TableSet`)
  that no group has two entries, no address two pioneers, that free entries are
  no pioneers and have no members, that a port with an age bit is a member,
  and that an address in use has its pioneer and a node in `mlist`; of the ports, that
  they are exact outside of `drifted` (`AllExact`); of the queue, that no
  port has two leaves for a group; of snooping that is off, that it holds nothing.
- `ForwardsMembers` is false in the middle of an ageing walk, so the walk has an invariant
  of its own, which moves with it: `HalfAged(T, k, ...)`. As long as
  the walk has not reached the pioneer of an address, at least the ports of all members are in
  its node; from then on exactly those of the members up to entry `k` and
  the ones reported for the entries behind `k`, which is what `IPMCuplist_summ_uplist` and
  `IPMCuplist_summ_age` add up. `PioneerAged` is the step in which a follower takes over: unless
  the follower was aged already, which is the drift, the sum does not change.
- The walks are folds. `FoldExists` gives, for a step that keeps within a set,
  the function that the fold chooses; `AgeStepsExist`, `CalcStepsExist`,
  `EmptyStepsExist` and `LeaveStepsExist` unfold the four walks into their
  steps with it, and `FoldStays` carries an invariant along them. So the model names
  the walks and their steps (`Recalculate`, `CalculatedList`, `Summary`, `Emptied`).

Only model-checked: every liveness property (`EventuallyHandled`, `EventuallyTold`,
`EventuallyCurrent`, `SyncReturnsAlone`, `KeepsRunning`, `TasksKeepRunning`,
`KeepsReceiving`, `AgesOut`), since fairness and ENABLED are outside of the prover's
reach. Every invariant and every action property of the passing runs is a theorem.

## Not modelled, and the plan

Not modelled: the register sequences of the switch, MAC, PHY and port-control
drivers, for which a property would need a model of the chip; the command
lines, which parse, call the functions above and print (but the command `M` of
`appl/cli/ui_igmpsnoop.c:63-85` writes the board's list of multicast addresses
itself: `IgmpSnoop` knows no writer of `mlist` other than snooping); vendored SDK
headers; `flintr.c`, whose interrupts this configuration polls.
`m0ssq_mbox_cleanup` and `bcm5607x_rxtx_stop` have no caller.

What could follow, in this order:

1. The NVRAM medium as a second implementation of `SavedMedium`, and the
   hardware's multicast tables (`L2MC`) under `mlist`.
2. `SalTimer` (accumulation of CPU counts modulo 2^32) and `SalAlloc` (free
   list).
3. Proofs: the safety part of the liveness properties, that is what each step
   brings nearer (a walk's position, a message's place in the ring).

## Running it

    tlc -workers 2 -config MCM0ssqFifo.cfg MCM0ssqFifo
    tlapm M0ssqFifo_proofs.tla

and likewise for the other configurations and proofs. Each takes at most
about two minutes, the proofs of `Appl_proofs` eight. The violation ends with TLC's counterexample.
