-------------------------- MODULE FwLinkscan_proofs --------------------------
(* Firmware linkscan and the life of the firmware that it shares with the     *)
(* LED driver.                                                                *)
(*                                                                            *)
(* The safety of FwLinkscan for every number of ports, every set of           *)
(* configurations and mailboxes of every size, with and without time-outs,    *)
(* whichever calls of the mailbox lack memory.  Both invariants rest on what  *)
(* the requests in the mailbox may still do to the firmware, and on the order *)
(* in which the driver stops it and purges; the messages that a purge could   *)
(* not take are the first old ones of the mailbox.                            *)
EXTENDS FwLinkscan, M0ssqFirmware, SequenceTheorems, TLAPS

USE FwLinkscanAssumption

Msgs == {"pause", "config", "continue"}
Requests == [msg : Msgs, ports : SUBSET Ports]

(* The request that lm_hw_config waits for is the last one in the mailbox,    *)
(* until it is answered; then the mailbox is empty.                           *)
WaitInv ==
    hpc # "idle" =>
        IF answer.valid THEN outbox = << >>
        ELSE /\ outbox # << >>
             /\ outbox[Len(outbox)] = Request(hpc, IF hpc = "config" THEN cfg ELSE {})

(* While the driver configures, the firmware is paused and its messages from  *)
(* before are gone or counted in old; the answer is what it will report       *)
(* changes against.                                                           *)
ConfigInv ==
    /\ hpc = "pause" /\ answer.valid => fwPause
    /\ hpc = "config" =>
          /\ fwPause /\ old = Len(inbox)
          /\ IF answer.valid THEN answer.ports = fwLast /\ fwPorts = cfg
             ELSE outbox = <<Request("config", cfg)>>

(* What the cache will be once the messages in the mailbox were taken, if     *)
(* there is one of this configuration among them or no old one.               *)
Newest == IF old = Len(inbox) THEN link_stat ELSE inbox[Len(inbox)]

(* While the interrupt is enabled no request that stops or configures is left *)
(* in the mailbox, and the cache is on its way to what was last reported.     *)
ScanInv ==
    swintr =>
        /\ hpc \in {"idle", "continue"}
        /\ \A i \in 1..Len(outbox) : outbox[i].msg = "continue"
        /\ fwPorts = cfg /\ ("cache" \notin lapse => link_stat \subseteq cfg)
        /\ \A i \in 1..Len(inbox) : i > old => inbox[i] \subseteq cfg
        /\ old < Len(inbox) \/ "cache" \notin lapse => Newest = fwLast

IInv ==
    /\ TypeOK /\ (isr => swintr) /\ fwLast \subseteq fwPorts
    /\ WaitInv /\ ConfigInv /\ ScanInv

-----------------------------------------------------------------------------
(* What taking the first element leaves, in the words of the modules.         *)
LEMMA TakeFirst ==
    ASSUME NEW T, NEW q \in Seq(T), q # << >>
    PROVE  /\ Head(q) = q[1] /\ q[1] \in T /\ q[Len(q)] \in T
           /\ Len(q) \in Nat \ {0} /\ Tail(q) \in Seq(T) /\ Len(Tail(q)) = Len(q) - 1
           /\ \A i \in 1..(Len(q) - 1) : Tail(q)[i] = q[i + 1]
           /\ Tail(q) = << >> <=> Len(q) = 1
<1>1. Len(q) \in Nat \ {0}
  BY EmptySeq
<1>2. /\ Tail(q) \in Seq(T) /\ Len(Tail(q)) = Len(q) - 1
      /\ \A i \in 1..Len(Tail(q)) : Tail(q)[i] = q[i + 1]
  BY HeadTailProperties
<1>3. Head(q) = q[1]
  BY <1>1
<1>4. q[1] \in T /\ q[Len(q)] \in T
  BY <1>1, ElementOfSeq
<1>5. Tail(q) = << >> <=> Len(q) = 1
  <2>1. Tail(q) = << >> <=> Len(Tail(q)) = 0
    BY <1>2, EmptySeq
  <2>. QED
    BY <1>1, <1>2, <2>1
<1>. QED
  BY <1>1, <1>2, <1>3, <1>4, <1>5

LEMMA InitInv == Init => IInv
<1>. SUFFICES ASSUME Init PROVE IInv
  OBVIOUS
<1>1. << >> \in Seq(Requests) /\ << >> \in Seq(SUBSET Ports) /\ Len(<< >>) = 0
  BY EmptySeq
<1>2. outbox \in Seq(Requests) /\ inbox \in Seq(SUBSET Ports) /\ Len(outbox) = 0 /\ Len(inbox) = 0
  BY <1>1 DEF Init
<1>3. answer \in [valid : BOOLEAN, ports : SUBSET Ports]
  BY DEF Init, None
<1>4. TypeOK
  <2>1. /\ link \subseteq Ports /\ fwPorts \subseteq Ports /\ fwLast \subseteq Ports
        /\ cfg \subseteq Ports /\ link_stat \subseteq Ports
    BY DEF Init
  <2>2. changes \in 0..MaxChanges /\ 0 <= MaxOutbox /\ 0 <= MaxInbox
    BY DEF Init
  <2>3. /\ fwPause \in BOOLEAN /\ fwRaise \in BOOLEAN /\ pending \in BOOLEAN
        /\ isr \in BOOLEAN /\ swintr \in BOOLEAN
        /\ hpc \in {"idle", "pause", "config", "continue"}
    BY DEF Init
  <2>4. old \in 0..Len(inbox) /\ lapse \subseteq {"call", "cache", "continue"}
    BY <1>2 DEF Init
  <2>. QED
    BY <1>2, <1>3, <2>1, <2>2, <2>3, <2>4 DEF TypeOK, Requests, Msgs
<1>. QED
  BY <1>4 DEF Init, IInv, WaitInv, ConfigInv, ScanInv

-----------------------------------------------------------------------------
(* The firmware.                                                              *)
LEMMA FwScanStep ==
    ASSUME IInv, FwScan
    PROVE  IInv'
<1>. DEFINE found == link \cap fwPorts
<1>1. /\ ~fwPause /\ Len(inbox) < MaxInbox /\ fwLast' = found
      /\ inbox' = Append(inbox, found) /\ fwRaise' = TRUE
      /\ UNCHANGED <<chip, fwPause, fwPorts, outbox, pending, host, history>>
  BY DEF FwScan
<1>2. inbox \in Seq(SUBSET Ports) /\ found \in SUBSET Ports
  BY DEF IInv, TypeOK
<1>3. /\ inbox' \in Seq(SUBSET Ports) /\ inbox' # << >> /\ Len(inbox') = Len(inbox) + 1
      /\ \A i \in 1..Len(inbox) : inbox'[i] = inbox[i]
      /\ inbox'[Len(inbox) + 1] = found
      /\ Len(inbox) \in Nat
  BY <1>1, <1>2, AppendProperties, LenProperties
<1>4. TypeOK'
  BY <1>1, <1>2, <1>3 DEF IInv, TypeOK, chip, host, history
<1>5. (isr => swintr)' /\ (fwLast \subseteq fwPorts)' /\ WaitInv' /\ ConfigInv'
  BY <1>1 DEF IInv, WaitInv, ConfigInv, chip, host, history
<1>6. ScanInv'
  <2>. SUFFICES ASSUME swintr
                PROVE  /\ \A i \in 1..Len(inbox') : i > old => inbox'[i] \subseteq cfg
                       /\ Newest' = fwLast'
    BY <1>1 DEF IInv, ScanInv, host, history
  <2>1. /\ found \subseteq cfg /\ old \in 0..Len(inbox) /\ old' = old
        /\ \A i \in 1..Len(inbox) : i > old => inbox[i] \subseteq cfg
    BY <1>1 DEF IInv, TypeOK, ScanInv, history
  <2>2. \A i \in 1..Len(inbox') : i \in 1..Len(inbox) \/ i = Len(inbox) + 1
    BY <1>3
  <2>. QED
    BY <1>1, <1>3, <2>1, <2>2 DEF Newest
<1>. QED
  BY <1>4, <1>5, <1>6 DEF IInv

LEMMA FwServeStep ==
    ASSUME IInv, FwServe
    PROVE  IInv'
<1>. DEFINE r == Head(outbox)
<1>1. /\ outbox # << >> /\ outbox' = Tail(outbox)
      /\ fwPause' = IF r.msg = "config" THEN fwPause ELSE r.msg = "pause"
      /\ fwPorts' = IF r.msg = "config" THEN r.ports ELSE fwPorts
      /\ fwLast' = IF r.msg = "config" THEN link \cap r.ports ELSE fwLast
      /\ answer' = IF hpc = r.msg /\ Len(outbox) = 1
                   THEN [valid |-> TRUE, ports |-> fwLast'] ELSE answer
      /\ UNCHANGED <<chip, fwRaise, inbox, pending, isr, swintr, hpc, cfg, link_stat, history>>
  BY DEF FwServe
<1>2. outbox \in Seq(Requests) /\ Len(outbox) <= MaxOutbox
  BY DEF IInv, TypeOK, Requests, Msgs
<1>3. /\ r = outbox[1] /\ r \in Requests /\ outbox[Len(outbox)] \in Requests
      /\ Len(outbox) \in Nat \ {0} /\ outbox' \in Seq(Requests) /\ Len(outbox') = Len(outbox) - 1
      /\ \A i \in 1..(Len(outbox) - 1) : outbox'[i] = outbox[i + 1]
      /\ outbox' = << >> <=> Len(outbox) = 1
  BY <1>1, <1>2, TakeFirst
<1>. HIDE DEF r
<1>4. r.msg \in Msgs /\ r.ports \subseteq Ports
  BY <1>3 DEF Requests
<1>5. fwLast' \subseteq fwPorts' /\ fwPorts' \subseteq Ports
  BY <1>1, <1>4 DEF IInv, TypeOK
<1>6. fwPause' \in BOOLEAN /\ answer' \in [valid : BOOLEAN, ports : SUBSET Ports]
  <2>1. fwPause' \in BOOLEAN
    BY <1>1 DEF IInv, TypeOK
  <2>2. answer' \in [valid : BOOLEAN, ports : SUBSET Ports]
    BY <1>1, <1>5 DEF IInv, TypeOK
  <2>. QED
    BY <2>1, <2>2
<1>7. TypeOK'
  BY <1>1, <1>2, <1>3, <1>5, <1>6 DEF IInv, TypeOK, chip, history, Requests, Msgs
<1>8. WaitInv'
  <2>. SUFFICES ASSUME hpc # "idle" PROVE WaitInv'
    BY <1>1 DEF WaitInv
  <2>1. ~answer.valid /\ outbox[Len(outbox)] = Request(hpc, IF hpc = "config" THEN cfg ELSE {})
    BY <1>1 DEF IInv, WaitInv
  <2>2. CASE Len(outbox) = 1
    <3>1. answer'.valid
      BY <1>1, <1>3, <2>1, <2>2 DEF Request
    <3>. QED
      BY <1>1, <1>3, <2>2, <3>1 DEF WaitInv
  <2>3. CASE Len(outbox) # 1
    <3>1. ~answer'.valid
      BY <1>1, <2>1, <2>3
    <3>2. outbox' # << >> /\ outbox'[Len(outbox')] = outbox[Len(outbox)]
      BY <1>3, <2>3
    <3>. QED
      BY <1>1, <2>1, <3>1, <3>2 DEF WaitInv
  <2>. QED
    BY <2>2, <2>3
<1>9. ConfigInv'
  <2>1. ASSUME hpc = "pause", answer'.valid
        PROVE  fwPause'
    <3>1. ~answer.valid
      BY <1>1, <2>1 DEF IInv, WaitInv
    <3>2. r.msg = "pause"
      BY <1>1, <2>1, <3>1
    <3>. QED
      BY <1>1, <3>2
  <2>2. ASSUME hpc = "config"
        PROVE  /\ fwPause' /\ old' = Len(inbox') /\ answer'.valid
               /\ answer'.ports = fwLast' /\ fwPorts' = cfg
    <3>1. ~answer.valid /\ fwPause /\ old = Len(inbox) /\ outbox = <<Request("config", cfg)>>
      BY <1>1, <2>2 DEF IInv, WaitInv, ConfigInv
    <3>2. r = Request("config", cfg) /\ Len(outbox) = 1
      BY <1>3, <3>1
    <3>3. r.msg = "config" /\ r.ports = cfg
      BY <3>2 DEF Request
    <3>. QED
      BY <1>1, <2>2, <3>1, <3>2, <3>3 DEF history
  <2>. QED
    BY <1>1, <2>1, <2>2 DEF ConfigInv
<1>10. ScanInv'
  <2>. SUFFICES ASSUME swintr PROVE ScanInv'
    BY <1>1 DEF ScanInv
  <2>1. \A i \in 1..Len(outbox) : outbox[i].msg = "continue"
    BY DEF IInv, ScanInv
  <2>2. r.msg = "continue" /\ \A i \in 1..Len(outbox') : outbox'[i].msg = "continue"
    BY <1>3, <2>1
  <2>3. fwPorts' = fwPorts /\ fwLast' = fwLast
    BY <1>1, <2>2
  <2>. QED
    BY <1>1, <2>2, <2>3 DEF IInv, ScanInv, Newest, history
<1>. QED
  BY <1>1, <1>5, <1>7, <1>8, <1>9, <1>10 DEF IInv

(* Link changes and the interrupt line touch nothing that the rest speaks of. *)
LEMMA ChipStep ==
    ASSUME IInv, FwInterrupt \/ \E p \in Ports : LinkChange(p)
    PROVE  IInv'
<1>1. CASE FwInterrupt
  BY <1>1 DEF FwInterrupt, chip, host, history, IInv, TypeOK, WaitInv, ConfigInv, ScanInv, Newest
<1>2. ASSUME NEW p \in Ports, LinkChange(p)
      PROVE  IInv'
  BY <1>2 DEF LinkChange, fw, host, history, IInv, TypeOK, WaitInv, ConfigInv, ScanInv, Newest
<1>. QED
  BY <1>1, <1>2

-----------------------------------------------------------------------------
(* The interrupt: taken in order, the messages leave the newest one standing; *)
(* the old ones come first.                                                   *)
LEMMA InterruptStep ==
    ASSUME IInv, Interrupt
    PROVE  IInv'
<1>1. CASE IsrBegin
  <2>1. /\ isr' => swintr
        /\ isr' \in BOOLEAN /\ pending' \in BOOLEAN
        /\ lapse' \in {lapse, lapse \ {"call"}, lapse \cup {"call"}}
        /\ UNCHANGED <<chip, fw, outbox, inbox, swintr, hpc, cfg, answer, link_stat, old>>
    BY <1>1 DEF IsrBegin, IInv, TypeOK
  <2>2. /\ lapse' \subseteq {"call", "cache", "continue"}
        /\ "cache" \in lapse' <=> "cache" \in lapse
    BY <2>1 DEF IInv, TypeOK
  <2>3. TypeOK'
    BY <2>1, <2>2 DEF chip, fw, IInv, TypeOK
  <2>4. (isr => swintr)' /\ (fwLast \subseteq fwPorts)' /\ WaitInv' /\ ConfigInv'
    BY <2>1 DEF fw, IInv, WaitInv, ConfigInv
  <2>5. ScanInv'
    <3>1. UNCHANGED <<fwPorts, fwLast, swintr, hpc, outbox, cfg, link_stat, inbox, old>> /\ Newest' = Newest
      BY <2>1 DEF fw, Newest
    <3>. QED
      BY <2>2, <3>1 DEF IInv, ScanInv
  <2>. QED
    BY <2>3, <2>4, <2>5 DEF IInv
<1>2. CASE IsrMsg /\ inbox = << >>
  <2>1. /\ isr' = FALSE
        /\ UNCHANGED <<chip, fw, outbox, inbox, pending, swintr, hpc, cfg, answer, link_stat, old, lapse>>
    BY <1>2 DEF IsrMsg, history
  <2>2. TypeOK'
    BY <2>1 DEF chip, fw, IInv, TypeOK
  <2>3. WaitInv' /\ ConfigInv' /\ ScanInv'
    BY <2>1 DEF fw, IInv, WaitInv, ConfigInv, ScanInv, Newest
  <2>. QED
    BY <2>1, <2>2, <2>3 DEF fw, IInv
<1>3. CASE IsrMsg /\ inbox # << >>
  <2>1. /\ isr /\ inbox # << >> /\ link_stat' = Head(inbox) /\ inbox' = Tail(inbox)
        /\ old' = IF old = 0 THEN 0 ELSE old - 1
        /\ lapse' = IF old = 0 THEN lapse \ {"cache"} ELSE lapse \cup {"cache"}
        /\ UNCHANGED <<chip, fw, outbox, pending, isr, swintr, hpc, cfg, answer>>
    BY <1>3 DEF IsrMsg, TakeOld
  <2>2. /\ inbox \in Seq(SUBSET Ports) /\ Len(inbox) <= MaxInbox
        /\ old \in 0..Len(inbox) /\ lapse \subseteq {"call", "cache", "continue"}
    BY DEF IInv, TypeOK
  <2>3. /\ link_stat' = inbox[1] /\ inbox[1] \in SUBSET Ports
        /\ Len(inbox) \in Nat \ {0} /\ inbox' \in Seq(SUBSET Ports)
        /\ Len(inbox') = Len(inbox) - 1
        /\ \A i \in 1..(Len(inbox) - 1) : inbox'[i] = inbox[i + 1]
        /\ inbox' = << >> <=> Len(inbox) = 1
    BY <2>1, <2>2, TakeFirst
  <2>4. TypeOK'
    <3>1. old' \in 0..Len(inbox') /\ lapse' \subseteq {"call", "cache", "continue"}
      BY <2>1, <2>2, <2>3
    <3>. QED
      BY <2>1, <2>2, <2>3, <3>1 DEF IInv, TypeOK, chip, fw
  <2>5. swintr /\ hpc # "config"
    BY <2>1 DEF IInv, ScanInv
  <2>6. (isr => swintr)' /\ (fwLast \subseteq fwPorts)' /\ WaitInv' /\ ConfigInv'
    BY <2>1, <2>5 DEF IInv, WaitInv, ConfigInv, fw
  <2>7. ScanInv'
    <3>1. /\ \A i \in 1..Len(inbox) : i > old => inbox[i] \subseteq cfg
          /\ old < Len(inbox) => Newest = fwLast
      BY <2>5 DEF IInv, ScanInv
    <3>2. /\ "cache" \notin lapse' => link_stat' \subseteq cfg
          /\ \A i \in 1..Len(inbox') : i > old' => inbox'[i] \subseteq cfg
      <4>1. CASE old = 0
        BY <2>1, <2>3, <3>1, <4>1
      <4>2. CASE old # 0
        <5>1. ASSUME NEW i \in 1..Len(inbox'), i > old'
              PROVE  inbox'[i] \subseteq cfg
          <6>1. i + 1 \in 1..Len(inbox) /\ i + 1 > old /\ inbox'[i] = inbox[i + 1]
            BY <2>1, <2>2, <2>3, <4>2, <5>1
          <6>. QED
            BY <3>1, <6>1
        <5>. QED
          BY <2>1, <4>2, <5>1
      <4>. QED
        BY <4>1, <4>2
    <3>3. ASSUME old' < Len(inbox') \/ "cache" \notin lapse'
          PROVE  Newest' = fwLast
      <4>1. old < Len(inbox)
        BY <2>1, <2>2, <2>3, <3>3
      <4>2. CASE Len(inbox) = 1
        <5>1. old = 0 /\ old' = Len(inbox')
          BY <2>1, <2>2, <2>3, <4>1, <4>2
        <5>. QED
          BY <2>3, <3>1, <4>1, <4>2, <5>1 DEF Newest
      <4>3. CASE Len(inbox) # 1
        <5>1. Len(inbox') \in 1..(Len(inbox) - 1) /\ Len(inbox') + 1 = Len(inbox)
          BY <2>3, <4>3
        <5>2. inbox'[Len(inbox')] = inbox[Len(inbox)]
          BY <2>3, <5>1
        <5>3. old # Len(inbox) /\ old' # Len(inbox')
          <6>. DEFINE n == Len(inbox')
          <6>1. n \in Nat /\ n >= 1 /\ n + 1 = Len(inbox) /\ old \in Nat /\ old < n + 1
            BY <2>2, <2>3, <4>1, <5>1
          <6>. HIDE DEF n
          <6>2. old' # n
            BY <2>1, <6>1
          <6>. QED
            BY <6>1, <6>2 DEF n
        <5>. QED
          BY <3>1, <4>1, <5>2, <5>3 DEF Newest
      <4>. QED
        BY <4>2, <4>3
    <3>. QED
      BY <2>1, <2>5, <3>2, <3>3 DEF IInv, ScanInv, fw
  <2>. QED
    BY <2>4, <2>6, <2>7 DEF IInv
<1>. QED
  BY <1>1, <1>2, <1>3 DEF Interrupt

-----------------------------------------------------------------------------
(* What a send leaves in the mailbox.                                         *)
LEMMA SendFacts ==
    ASSUME TypeOK, NEW m \in Msgs, NEW ports \in SUBSET Ports, Send(m, ports)
    PROVE  /\ outbox' \in Seq(Requests) /\ Len(outbox') <= MaxOutbox
           /\ hpc' \in {"idle", m} /\ ~answer'.valid
           /\ answer' \in [valid : BOOLEAN, ports : SUBSET Ports]
           /\ hpc' # "idle" =>
                 outbox' # << >> /\ outbox'[Len(outbox')] = Request(m, ports)
           /\ outbox = << >> => outbox' = IF hpc' = "idle" THEN << >> ELSE <<Request(m, ports)>>
<1>1. outbox \in Seq(Requests) /\ Request(m, ports) \in Requests /\ Len(outbox) \in Nat
  <2>1. outbox \in Seq(Requests)
    BY DEF TypeOK, Requests, Msgs
  <2>. QED
    BY <2>1, LenProperties DEF Request, Requests
<1>2. answer' = [valid |-> FALSE, ports |-> {}]
  BY DEF Send, None
<1>3. CASE Len(outbox) < MaxOutbox /\ outbox' = Append(outbox, Request(m, ports)) /\ hpc' = m
  <2>1. outbox' = Append(outbox, Request(m, ports)) /\ hpc' = m /\ hpc' # "idle"
    BY <1>3 DEF Msgs
  <2>2. /\ outbox' \in Seq(Requests) /\ outbox' # << >> /\ Len(outbox') = Len(outbox) + 1
        /\ outbox'[Len(outbox) + 1] = Request(m, ports)
    BY <1>1, <2>1, AppendProperties
  <2>3. outbox = << >> => outbox' = <<Request(m, ports)>>
    BY <2>1
  <2>. QED
    BY <1>1, <1>2, <1>3, <2>1, <2>2, <2>3
<1>4. CASE hpc' = "idle" /\ outbox' = outbox
  BY <1>1, <1>2, <1>4 DEF TypeOK
<1>. QED
  BY <1>3, <1>4 DEF Send

LEMMA ConfigBeginStep ==
    ASSUME IInv, NEW ports \in Configs, ConfigBegin(ports)
    PROVE  IInv'
<1>1. /\ ~isr /\ cfg' = ports /\ swintr' = FALSE /\ Send("pause", {})
      /\ UNCHANGED <<chip, fw, inbox, pending, isr, link_stat, history>>
  BY DEF ConfigBegin
<1>2. /\ outbox' \in Seq(Requests) /\ Len(outbox') <= MaxOutbox
      /\ hpc' \in {"idle", "pause"} /\ ~answer'.valid
      /\ answer' \in [valid : BOOLEAN, ports : SUBSET Ports]
      /\ hpc' # "idle" => outbox' # << >> /\ outbox'[Len(outbox')] = Request("pause", {})
  BY <1>1, SendFacts DEF IInv, Msgs
<1>3. ports \subseteq Ports
  OBVIOUS
<1>4. TypeOK'
  BY <1>1, <1>2, <1>3 DEF IInv, TypeOK, chip, fw, history, Requests, Msgs
<1>5. WaitInv' /\ ConfigInv' /\ ScanInv'
  BY <1>1, <1>2 DEF WaitInv, ConfigInv, ScanInv
<1>. QED
  BY <1>1, <1>4, <1>5 DEF IInv, fw

(* The firmware has stopped: what the purge leaves is counted in old.         *)
LEMMA PausedStep ==
    ASSUME IInv, Paused
    PROVE  IInv'
<1>1. /\ hpc = "pause" /\ answer.valid /\ ~isr
      /\ \/ /\ inbox' = << >> /\ old' = 0
            /\ link_stat' = IF inbox = << >> THEN link_stat ELSE inbox[Len(inbox)]
         \/ inbox' = inbox /\ old' = Len(inbox) /\ link_stat' = link_stat
      /\ Send("config", cfg)
      /\ UNCHANGED <<chip, fw, pending, isr, swintr, cfg, lapse>>
  BY DEF Paused, Last
<1>2. outbox = << >> /\ fwPause /\ ~swintr
  BY <1>1 DEF IInv, WaitInv, ConfigInv, ScanInv
<1>3. cfg \in SUBSET Ports
  BY DEF IInv, TypeOK
<1>4. /\ outbox' \in Seq(Requests) /\ Len(outbox') <= MaxOutbox
      /\ hpc' \in {"idle", "config"} /\ ~answer'.valid
      /\ answer' \in [valid : BOOLEAN, ports : SUBSET Ports]
      /\ hpc' # "idle" => /\ outbox' # << >> /\ outbox'[Len(outbox')] = Request("config", cfg)
                         /\ outbox' = <<Request("config", cfg)>>
  BY <1>1, <1>2, <1>3, SendFacts DEF IInv, Msgs
<1>5. link_stat' \subseteq Ports
  <2>1. inbox \in Seq(SUBSET Ports) /\ link_stat \subseteq Ports
    BY DEF IInv, TypeOK
  <2>2. inbox # << >> => inbox[Len(inbox)] \in SUBSET Ports
    BY <2>1, TakeFirst
  <2>. QED
    BY <1>1, <2>1, <2>2
<1>6. /\ inbox' \in Seq(SUBSET Ports) /\ Len(inbox') <= MaxInbox
      /\ old' = Len(inbox') /\ old' \in 0..Len(inbox')
  <2>1. << >> \in Seq(SUBSET Ports) /\ Len(<< >>) = 0
    BY EmptySeq
  <2>2. inbox \in Seq(SUBSET Ports) /\ Len(inbox) <= MaxInbox /\ Len(inbox) \in Nat
    BY LenProperties DEF IInv, TypeOK
  <2>3. CASE inbox' = << >> /\ old' = 0
    BY <2>1, <2>3
  <2>4. CASE inbox' = inbox /\ old' = Len(inbox)
    BY <2>2, <2>4
  <2>. QED
    BY <1>1, <2>3, <2>4
<1>7. TypeOK'
  BY <1>1, <1>3, <1>4, <1>5, <1>6 DEF IInv, TypeOK, chip, fw, Requests, Msgs
<1>8. WaitInv' /\ ConfigInv' /\ ScanInv'
  BY <1>1, <1>2, <1>4 DEF WaitInv, ConfigInv, ScanInv, fw
<1>. QED
  BY <1>1, <1>7, <1>8 DEF IInv, fw

(* The interrupt is enabled with the answer in the cache.                     *)
LEMMA ConfiguredStep ==
    ASSUME IInv, Configured
    PROVE  IInv'
<1>1. /\ hpc = "config" /\ answer.valid /\ ~isr /\ link_stat' = answer.ports
      /\ lapse' \in {{}, {"continue"}}
      /\ UNCHANGED <<chip, fw, inbox, pending, isr, cfg, old>>
  BY DEF Configured
<1>2. /\ outbox = << >> /\ old = Len(inbox) /\ ~swintr
      /\ answer.ports = fwLast /\ fwPorts = cfg /\ fwLast \subseteq cfg
  BY <1>1 DEF IInv, WaitInv, ConfigInv, ScanInv
<1>3. link_stat' \subseteq Ports
  BY <1>1 DEF IInv, TypeOK
<1>4. CASE cfg = {}
  <2>1. /\ hpc' = "idle" /\ answer' = [valid |-> FALSE, ports |-> {}]
        /\ UNCHANGED <<swintr, outbox>>
    BY <1>4 DEF Configured, None
  <2>2. TypeOK'
    BY <1>1, <1>3, <2>1 DEF IInv, TypeOK, chip, fw
  <2>3. WaitInv' /\ ConfigInv' /\ ScanInv'
    BY <1>2, <2>1 DEF WaitInv, ConfigInv, ScanInv
  <2>. QED
    BY <1>1, <2>2, <2>3 DEF IInv, fw
<1>5. CASE cfg # {}
  <2>1. swintr' = TRUE /\ Send("continue", {})
    BY <1>5 DEF Configured
  <2>2. /\ outbox' \in Seq(Requests) /\ Len(outbox') <= MaxOutbox
        /\ hpc' \in {"idle", "continue"} /\ ~answer'.valid
        /\ outbox' = IF hpc' = "idle" THEN << >> ELSE <<Request("continue", {})>>
        /\ answer' \in [valid : BOOLEAN, ports : SUBSET Ports]
        /\ hpc' # "idle" => outbox' # << >> /\ outbox'[Len(outbox')] = Request("continue", {})
    BY <1>2, <2>1, SendFacts DEF IInv, Msgs
  <2>3. TypeOK'
    BY <1>1, <1>3, <2>1, <2>2 DEF IInv, TypeOK, chip, fw, Requests, Msgs
  <2>4. WaitInv' /\ ConfigInv'
    BY <2>2 DEF WaitInv, ConfigInv
  <2>5. \A i \in 1..Len(outbox') : outbox'[i].msg = "continue"
    <3>1. CASE hpc' = "idle"
      BY <2>2, <3>1
    <3>2. CASE hpc' # "idle"
      <4>1. Len(outbox') = 1 /\ outbox'[1] = Request("continue", {})
        BY <2>2, <3>2
      <4>2. outbox'[1].msg = "continue"
        BY <4>1 DEF Request
      <4>. QED
        BY <4>1, <4>2
    <3>. QED
      BY <3>1, <3>2
  <2>6. old' = Len(inbox') /\ old' \in Nat /\ "cache" \notin lapse'
    BY <1>1, <1>2 DEF IInv, TypeOK
  <2>7. ScanInv'
    BY <1>1, <1>2, <2>2, <2>5, <2>6 DEF ScanInv, Newest, fw
  <2>. QED
    BY <1>1, <2>1, <2>3, <2>4, <2>7 DEF IInv, fw
<1>. QED
  BY <1>4, <1>5

(* Ends of the waits: what is still in the mailbox stays there.               *)
LEMMA WaitEndStep ==
    ASSUME IInv, Started \/ Timeout
    PROVE  IInv'
<1>1. /\ hpc' = "idle"
      /\ UNCHANGED <<chip, fw, outbox, inbox, pending, isr, swintr, cfg, link_stat, history>>
      /\ answer' \in {answer, [valid |-> FALSE, ports |-> {}]}
  BY DEF Started, Timeout, None
<1>2. answer' \in [valid : BOOLEAN, ports : SUBSET Ports]
  <2>1. answer \in [valid : BOOLEAN, ports : SUBSET Ports]
    BY DEF IInv, TypeOK
  <2>2. [valid |-> FALSE, ports |-> {}] \in [valid : BOOLEAN, ports : SUBSET Ports]
    OBVIOUS
  <2>. QED
    BY <1>1, <2>1, <2>2
<1>3. TypeOK'
  BY <1>1, <1>2 DEF IInv, TypeOK, chip, fw, history
<1>4. WaitInv' /\ ConfigInv' /\ ScanInv'
  BY <1>1 DEF IInv, WaitInv, ConfigInv, ScanInv, Newest, fw, history
<1>. QED
  BY <1>1, <1>3, <1>4 DEF IInv, fw

-----------------------------------------------------------------------------
LEMMA NextInv ==
    ASSUME IInv, [Next]_vars
    PROVE  IInv'
<1>1. CASE UNCHANGED vars
  BY <1>1 DEF vars, chip, fw, host, history, IInv, TypeOK, WaitInv, ConfigInv, ScanInv, Newest
<1>2. CASE Next
  BY <1>2, ChipStep, FwScanStep, FwServeStep, InterruptStep, PausedStep, ConfiguredStep,
     WaitEndStep, ConfigBeginStep DEF Next, Firmware, Waiting
<1>. QED
  BY <1>1, <1>2

LEMMA Invariant == Spec => []IInv
<1>1. IInv /\ [Next]_vars => IInv'
  BY NextInv
<1>. QED
  BY <1>1, InitInv, PTL DEF Spec

(* cmicx_fw_linkscan.c: once every message is taken the cache is what the     *)
(* firmware last reported, whatever timed out in the reconfigurations before  *)
(* and whichever sends, receive calls and purges lacked memory; the one       *)
(* exception is a message that a failed purge left, until the next report.    *)
THEOREM CacheCurrentCorrect == Spec => []CacheCurrent
<1>1. IInv => CacheCurrent
  <2>. SUFFICES ASSUME IInv, swintr, inbox = << >>, "cache" \notin lapse
                PROVE  link_stat = fwLast
    BY DEF CacheCurrent
  <2>1. old = Len(inbox)
    BY DEF IInv, TypeOK
  <2>. QED
    BY <2>1 DEF IInv, ScanInv, Newest
<1>. QED
  BY <1>1, Invariant, PTL

(* cmicx_fw_linkscan.c: while scanning is on the cache shows links of the     *)
(* configured ports only, unless it is a message that a failed purge left.    *)
(* Types, and no mailbox beyond its size.                                     *)
THEOREM OwnPortsCorrect == Spec => []OwnPorts
<1>1. IInv => OwnPorts
  BY DEF IInv, ScanInv, OwnPorts
<1>. QED
  BY <1>1, Invariant, PTL

-----------------------------------------------------------------------------
(* The life of the firmware.  M0ssqFirmware has no constants, so that TLC     *)
(* checks all of it; the proofs show which handlers each invariant depends on.*)

\* While the host's copy of the LED enable is said to be right, linkscan's and
\* the LED driver's own inits find the bitmap marked and load nothing; before
\* the LED driver is there the image has its LEDs off.
LedInv ==
    /\ ledDev = "allocated" /\ ~lost => "LED" \in usage /\ fwLed = ledEnable
    /\ ledDev = "null" => fwLed = 0 /\ ~lost
    /\ "led" \notin inuse => ledDev = "null"

\* What cmicx_m0ssq_fw_led_linkscan_init leaves behind, whatever fails in it:
\* the bitmap gains the feature at most, and only if the core runs; the image
\* of a marked feature keeps its LED enable unless it is sent a message.
LEMMA FwInitKeeps ==
    ASSUME usage \subseteq Features, running \in BOOLEAN, fwLed \in {0, 1}, MarkedRuns,
           NEW ok \in BOOLEAN, NEW f \in Features, NEW led \in {0, 1, NoMessage},
           FwInit(ok, f, led)
    PROVE  /\ usage' \subseteq Features /\ running' \in BOOLEAN /\ fwLed' \in {0, 1}
           /\ MarkedRuns' /\ usage \subseteq usage' /\ (ok => f \in usage')
           /\ fwLed' = IF led # NoMessage THEN led ELSE IF usage = {} /\ ok THEN 0 ELSE fwLed
<1>1. fwLed' = IF led # NoMessage THEN led ELSE IF usage = {} /\ ok THEN 0 ELSE fwLed
  BY DEF FwInit
<1>2. fwLed' \in {0, 1}
  BY <1>1 DEF NoMessage
<1>3. CASE usage # {}
  BY <1>1, <1>2, <1>3 DEF FwInit, MarkedRuns
<1>4. CASE usage = {} /\ ok
  BY <1>1, <1>2, <1>4 DEF FwInit, MarkedRuns
<1>5. CASE usage = {} /\ ~ok
  BY <1>1, <1>2, <1>5 DEF FwInit, MarkedRuns
<1>6. QED
  BY <1>3, <1>4, <1>5

\* The same of cmicx_m0ssq_fw_led_cleanup: the core stops only with an empty
\* bitmap.
LEMMA FwCleanupKeeps ==
    ASSUME usage \subseteq Features, running \in BOOLEAN, fwLed \in {0, 1}, MarkedRuns,
           NEW ok \in BOOLEAN, NEW f \in Features, FwCleanup(ok, f)
    PROVE  /\ usage' \subseteq Features /\ running' \in BOOLEAN /\ fwLed' \in {0, 1}
           /\ MarkedRuns'
  BY DEF FwCleanup, MarkedRuns

-----------------------------------------------------------------------------
\* Types of all variables: no call that fails halfway leaves a half-written
\* state behind (cmicx_led.c, cmicx_fw_linkscan.c, cmicx_m0ssq_fw.c).
FirmwareInv == FirmwareTypeOK /\ MarkedRuns /\ LinkscanOwnsMbox /\ LedInv

LEMMA FirmwareInitInv == FirmwareInit => FirmwareInv
  BY DEF FirmwareInit, FirmwareInv, FirmwareTypeOK, MarkedRuns, LinkscanOwnsMbox, LedInv, Features, Mboxes

LEMMA FirmwareNextInv == FirmwareInv /\ [FirmwareNext]_firmwareVars => FirmwareInv'
<1> SUFFICES ASSUME FirmwareInv, [FirmwareNext]_firmwareVars PROVE FirmwareInv'
  OBVIOUS
<1> USE DEF FirmwareInv
<1>1. ASSUME NEW stage \in Stages, LedInit(stage) PROVE FirmwareInv'
  <2>1. /\ usage' \subseteq Features /\ running' \in BOOLEAN /\ fwLed' \in {0, 1} /\ MarkedRuns'
        /\ stage # "fw" => "LED" \in usage'
        /\ fwLed' = IF usage = {} /\ stage # "fw" THEN 0 ELSE fwLed
    BY <1>1, FwInitKeeps DEF LedInit, FirmwareTypeOK, Features, NoMessage
  <2>2. LinkscanOwnsMbox'
    BY <1>1 DEF LedInit, LinkscanOwnsMbox
  <2>3. FirmwareTypeOK'
    BY <1>1, <2>1 DEF LedInit, FirmwareTypeOK, Mboxes
  <2>4. ledDev = "null" /\ fwLed' = 0 /\ ~lost'
    BY <1>1, <2>1 DEF LedInit, LedInv
  <2>5. LedInv'
    <3>1. CASE stage \in {"fw", "alloc"}
      BY <1>1, <2>4, <3>1 DEF LedInit, LedInv
    <3>2. CASE stage \notin {"fw", "alloc"}
      BY <1>1, <2>1, <2>4, <3>2 DEF LedInit, LedInv
    <3>3. QED
      BY <3>1, <3>2
  <2>6. QED
    BY <2>1, <2>2, <2>3, <2>5
<1>2. ASSUME NEW start \in 0 .. 2, NEW fwOk \in BOOLEAN, NEW executed \in BOOLEAN,
             NEW answered \in BOOLEAN, LedStartSet(start, fwOk, executed, answered)
      PROVE  FirmwareInv'
  <2> DEFINE startb == IF start # 0 THEN 1 ELSE 0
             led == IF executed THEN startb ELSE NoMessage
  <2>1. /\ ledDev = "allocated" /\ FwInit(fwOk, "LED", led)
        /\ executed => fwOk
        /\ answered => executed
        /\ ledEnable' = IF answered THEN startb ELSE ledEnable
        /\ lost' = IF fwOk THEN ~answered ELSE lost
        /\ UNCHANGED <<inuse, ledDev, fwInit, attached, uc_swintr_enable>>
    BY <1>2 DEF LedStartSet
  <2>2. led \in {0, 1, NoMessage} /\ startb \in {0, 1} /\ startb # NoMessage
    BY DEF NoMessage
  <2> HIDE DEF led, startb
  <2>3. /\ usage' \subseteq Features /\ running' \in BOOLEAN /\ fwLed' \in {0, 1} /\ MarkedRuns'
        /\ usage \subseteq usage' /\ (fwOk => "LED" \in usage')
        /\ fwLed' = IF led # NoMessage THEN led ELSE IF usage = {} /\ fwOk THEN 0 ELSE fwLed
    BY <2>1, <2>2, FwInitKeeps DEF FirmwareTypeOK, Features
  <2>4. FirmwareTypeOK' /\ LinkscanOwnsMbox'
    BY <2>1, <2>2, <2>3 DEF FirmwareTypeOK, LinkscanOwnsMbox
  <2>5. ~lost' => "LED" \in usage' /\ fwLed' = ledEnable'
    <3>1. CASE fwOk /\ answered
      BY <2>1, <2>2, <2>3, <3>1 DEF led
    <3>2. CASE fwOk /\ ~answered
      BY <2>1, <3>2
    <3>3. CASE ~fwOk
      <4>1. ~executed /\ ~answered /\ led = NoMessage
        BY <2>1, <3>3 DEF led
      <4>2. fwLed' = fwLed /\ ledEnable' = ledEnable /\ lost' = lost
        BY <2>1, <2>3, <3>3, <4>1
      <4>3. QED
        BY <2>1, <2>3, <4>2 DEF LedInv
    <3>4. QED
      BY <3>1, <3>2, <3>3
  <2>6. LedInv'
    BY <2>1, <2>5 DEF LedInv
  <2>7. QED
    BY <2>3, <2>4, <2>6
<1>3. ASSUME NEW ok \in BOOLEAN, LedCleanup(ok) PROVE FirmwareInv'
  <2>1. usage' \subseteq Features /\ running' \in BOOLEAN /\ fwLed' \in {0, 1} /\ MarkedRuns'
    BY <1>3, FwCleanupKeeps DEF LedCleanup, FirmwareTypeOK, Features
  <2>2. LinkscanOwnsMbox'
    BY <1>3 DEF LedCleanup, LinkscanOwnsMbox
  <2>3. LedInv'
    BY <1>3 DEF LedCleanup, LedInv
  <2>4. FirmwareTypeOK'
    BY <1>3, <2>1 DEF LedCleanup, FirmwareTypeOK
  <2>5. QED
    BY <2>1, <2>2, <2>3, <2>4
<1>4. ASSUME NEW stage \in {"config", "fw", "done"}, LinkscanInit(stage) PROVE FirmwareInv'
  <2>1. /\ usage' \subseteq Features /\ running' \in BOOLEAN /\ fwLed' \in {0, 1} /\ MarkedRuns'
        /\ usage \subseteq usage' /\ fwLed' \in {0, fwLed}
        /\ usage # {} => fwLed' = fwLed
    <3>1. CASE stage = "config"
      BY <1>4, <3>1 DEF LinkscanInit, FirmwareTypeOK, MarkedRuns
    <3>2. CASE stage # "config"
      <4>1. FwInit(stage # "fw", "LED", NoMessage)
        BY <1>4, <3>2 DEF LinkscanInit, LinkscanMark
      <4>2. QED
        BY <4>1, FwInitKeeps DEF FirmwareTypeOK, Features, NoMessage
    <3>3. QED
      BY <3>1, <3>2
  <2>2. LinkscanOwnsMbox'
    BY <1>4 DEF LinkscanInit, LinkscanOwnsMbox
  <2>3. LedInv'
    BY <1>4, <2>1 DEF LinkscanInit, LedInv
  <2>4. FirmwareTypeOK'
    BY <1>4, <2>1 DEF LinkscanInit, FirmwareTypeOK, Mboxes
  <2>5. QED
    BY <2>1, <2>2, <2>3, <2>4
<1>5. ASSUME NEW enable \in BOOLEAN, LinkscanSwitch(enable) PROVE FirmwareInv'
  BY <1>5 DEF LinkscanSwitch, FirmwareTypeOK, MarkedRuns, LinkscanOwnsMbox, LedInv
<1>6. ASSUME LinkscanCleanup PROVE FirmwareInv'
  BY <1>6 DEF LinkscanCleanup, FirmwareTypeOK, MarkedRuns, LinkscanOwnsMbox, LedInv
<1>7. CASE UNCHANGED firmwareVars
  BY <1>7 DEF firmwareVars, FirmwareTypeOK, MarkedRuns, LinkscanOwnsMbox, LedInv
<1>8. QED
  BY <1>1, <1>2, <1>3, <1>4, <1>5, <1>6, <1>7 DEF FirmwareNext

\* Every variable keeps its type through all failures.
THEOREM FirmwareTypeCorrect == FirmwareSpec => []FirmwareTypeOK
<1>1. FirmwareInv => FirmwareTypeOK
  BY DEF FirmwareInv
<1>2. QED
  BY FirmwareInitInv, FirmwareNextInv, <1>1, PTL DEF FirmwareSpec

\* A feature that is marked in cmicx_linkscan_led_fw_usage finds the firmware
\* running, whatever failed before.
THEOREM MarkedRunsCorrect == FirmwareSpec => []MarkedRuns
<1>1. FirmwareInv => MarkedRuns
  BY DEF FirmwareInv
<1>2. QED
  BY FirmwareInitInv, FirmwareNextInv, <1>1, PTL DEF FirmwareSpec

\* The linkscan interrupt is enabled only between a complete
\* cmicx_fw_linkscan_init and the next cmicx_fw_linkscan_cleanup.
THEOREM LinkscanOwnsMboxCorrect == FirmwareSpec => []LinkscanOwnsMbox
<1>1. FirmwareInv => LinkscanOwnsMbox
  BY DEF FirmwareInv
<1>2. QED
  BY FirmwareInitInv, FirmwareNextInv, <1>1, PTL DEF FirmwareSpec

\* cmicx_led_fw_start_get tells the state of an image that runs: linkscan's
\* inits and cleanups neither reload nor stop it, whatever fails in them.
THEOREM LedStateKnownCorrect == FirmwareSpec => []LedStateKnown
<1>1. FirmwareInv => LedStateKnown
  BY DEF FirmwareInv, LedInv, MarkedRuns, LedStateKnown
<1>2. QED
  BY FirmwareInitInv, FirmwareNextInv, <1>1, PTL DEF FirmwareSpec
=============================================================================
