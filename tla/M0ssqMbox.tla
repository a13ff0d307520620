------------------------------ MODULE M0ssqMbox ------------------------------
(***************************************************************************)
(* One channel of an M0SSQ mailbox (driver/m0ssq/main/m0ssq_mbox.c): a     *)
(* sender in m0ssq_mbox_msg_send on one core, a receiver in                *)
(* m0ssq_mbox_process_recv_msgs on the other.  The response to a           *)
(* synchronous message is written over the message, in the FIFO, and its   *)
(* flags word is written last; the sender polls that word.                 *)
(*                                                                         *)
(* The driver runs on both cores, so on the host's TX channel the receiver *)
(* is the firmware and on its RX channel the sender is.  Shared words are  *)
(* accessed one at a time, except that the receiver's two peeks are each   *)
(* one step: M0ssqFifo shows that nobody writes the words it peeks at.     *)
(* A header has HdrWords words (flags, id, size; tag0 and tag, which no    *)
(* code reads, are left out).                                              *)
(***************************************************************************)
EXTENDS M0ssqFifoOps, Sequences

CONSTANTS
    Ids,            \* message ids
    DataWords,      \* Ids -> payload words of a message (msg.datalen / 4)
    RespWords,      \* Ids -> payload words of the handler's answer (resp.datalen / 4)
    MaxRxMsgs       \* MBOX_MAX_RX_MSGS_PER_CALL

HdrWords == 3

ASSUME MboxAssumption ==
    /\ DataWords \in [Ids -> Nat] /\ RespWords \in [Ids -> Nat]
    /\ MaxRxMsgs \in Nat \ {0}

VARIABLES
    wp, rp, cell,               \* the FIFO, as in M0ssqFifo
    intr,                       \* the receiver's software interrupt is pending
    spc, smsg, swp, sbuf,       \* m0ssq_mbox_msg_send: int_msg, wp, words of int_resp read
    sret,                       \* what the last synchronous m0ssq_mbox_msg_send returned
    rpc, rmsg, rcnt,            \* m0ssq_mbox_process_recv_msgs: int_msg, msg_cnt;
                                \* "nomem": not running, its last call had no memory
    rresp, ridx, rflag,         \* int_resp, words of it written, its last flags word
    pending, handled            \* history: ids accepted and not handled; the last
                                \* id handled with what its handler returned

fifoVars   == <<wp, rp, cell>>
senderVars == <<spc, smsg, swp, sbuf, sret>>
recvVars   == <<rpc, rmsg, rcnt, rresp, ridx, rflag>>
vars == <<fifoVars, intr, senderVars, recvVars, pending, handled>>

Flag(f)     == <<"flags", f>>
Header(f, i, n) == << Flag(f), <<"id", i>>, <<"size", n>> >>
Payload(k, i, n) == [w \in 1 .. n |-> <<k, i>>]
Message(i, f) == Header(f, i, DataWords[i]) \o Payload("request", i, DataWords[i])

CellOf(p, k) == CellAt(Position(p), EntSize * k)
Bytes(msg) == EntSize * Len(msg)

\* What the ring holds between the pointers, as byte positions.
Held == { CellOf(rp, k) : k \in 0 .. (UsedSize(wp, rp) \div EntSize) - 1 }

Init ==
    /\ wp = InitPointer /\ rp = InitPointer
    /\ cell = [c \in Cells |-> Flag("none")]
    /\ intr = FALSE
    /\ spc = "idle" /\ smsg = << >> /\ swp = InitPointer /\ sbuf = << >>
    /\ sret = [rv |-> "none"]
    /\ rpc = "idle" /\ rmsg = << >> /\ rcnt = 0 /\ rresp = << >> /\ ridx = 0 /\ rflag = "none"
    /\ pending = << >> /\ handled = [id |-> 0, ret |-> "none"]

-----------------------------------------------------------------------------
(* The sender *)

\* m0ssq_mbox_msg_send up to the end of m0ssq_fifo_write; sync: the caller
\* passed a resp.  The write is one step: M0ssqFifo_proofs!ImplementsQueue
\* shows that the receiver cannot tell.  The sending core then interrupts the
\* receiving one.  A send that finds the ring full, or no memory for its
\* message, returns before it has changed anything.
Send(i, sync) ==
    LET msg == Message(i, IF sync THEN "resp_required" ELSE "async") IN
    /\ spc = "idle"
    /\ WriteCheck(wp, rp, Bytes(msg))
    /\ cell' = [c \in Cells |->
                   IF \E k \in 1 .. Len(msg) : c = CellOf(wp, k - 1)
                   THEN msg[CHOOSE k \in 1 .. Len(msg) : c = CellOf(wp, k - 1)]
                   ELSE cell[c]]
    /\ wp' = Forward(wp, Bytes(msg))
    /\ intr' = TRUE
    /\ pending' = Append(pending, i)
    /\ IF sync THEN spc' = "poll" /\ smsg' = msg /\ swp' = wp
               ELSE UNCHANGED <<spc, smsg, swp>>
    /\ UNCHANGED <<rp, sbuf, sret, recvVars, handled>>

\* m0ssq_fifo_pos_read(fifo, wp, int_resp, size), one word
PollWord ==
    /\ spc = "poll" /\ Len(sbuf) < Len(smsg)
    /\ sbuf' = Append(sbuf, cell[CellOf(swp, Len(sbuf))])
    /\ UNCHANGED <<fifoVars, intr, spc, smsg, swp, sret, recvVars, pending, handled>>

SendReturn == spc' = "idle" /\ smsg' = << >> /\ swp' = InitPointer /\ sbuf' = << >>

\* The response is ready: its data, or the error of the handler.
PollReady ==
    /\ spc = "poll" /\ Len(sbuf) = Len(smsg)
    /\ sbuf[1] \in {Flag("ready"), Flag("ready_success")}
    /\ sret' = IF sbuf[1] = Flag("ready_success")
               THEN [rv |-> "ok", data |-> SubSeq(sbuf, HdrWords + 1, HdrWords + RespWords[smsg[2][2]])]
               ELSE IF sbuf[3][2] > 0 /\ sbuf[HdrWords + 1] # <<"ret", "ok">>
                    THEN [rv |-> "handler_error"] ELSE [rv |-> "error"]
    /\ SendReturn
    /\ UNCHANGED <<fifoVars, intr, recvVars, pending, handled>>

\* Not ready: sal_usleep(100) and another poll, or the last of
\* MBOX_TX_TIMEOUT_CNT polls.
PollNotReady ==
    /\ spc = "poll" /\ Len(sbuf) = Len(smsg)
    /\ sbuf[1] \notin {Flag("ready"), Flag("ready_success")}
    /\ \/ sbuf' = << >> /\ UNCHANGED <<spc, smsg, swp, sret>>
       \/ SendReturn /\ sret' = [rv |-> "timeout"]
    /\ UNCHANGED <<fifoVars, intr, recvVars, pending, handled>>

-----------------------------------------------------------------------------
(* The receiver *)

\* The interrupt is cleared before the FIFO is looked at
\* (cmicx_m0ssq_uc_swintr_isr, m0ssq_mbox_built_in_rxmsg_intr).  A call that
\* gets no memory for a message and its response returns without looking.
RecvCall ==
    /\ rpc \in {"idle", "nomem"} /\ intr
    /\ intr' = FALSE
    /\ rpc' \in {"peek", "nomem"} /\ rcnt' = 0
    /\ UNCHANGED <<fifoVars, senderVars, rmsg, rresp, ridx, rflag, pending, handled>>

\* Mutant of RecvPeek: a call handles one message and relies on the next interrupt.
RecvPeekOnce ==
    /\ rpc = "peek"
    /\ IF rcnt < 1 /\ ReadCheck(wp, rp, EntSize * HdrWords)
       THEN LET n == cell[CellOf(rp, 2)][2] IN
            /\ rmsg' = [k \in 1 .. HdrWords + n |-> cell[CellOf(rp, k - 1)]]
            /\ rpc' = "handle"
            /\ UNCHANGED rcnt
       ELSE rpc' = "idle" /\ rmsg' = << >> /\ rcnt' = 0
    /\ UNCHANGED <<fifoVars, intr, senderVars, rresp, ridx, rflag, pending, handled>>

\* One turn of the loop: peek the header for the size, then the whole message.
RecvPeek ==
    /\ rpc = "peek"
    /\ IF rcnt < MaxRxMsgs /\ ReadCheck(wp, rp, EntSize * HdrWords)
       THEN LET n == cell[CellOf(rp, 2)][2] IN
            /\ rmsg' = [k \in 1 .. HdrWords + n |-> cell[CellOf(rp, k - 1)]]
            /\ rpc' = "handle"
            /\ UNCHANGED rcnt
       ELSE rpc' = "idle" /\ rmsg' = << >> /\ rcnt' = 0
    /\ UNCHANGED <<fifoVars, intr, senderVars, rresp, ridx, rflag, pending, handled>>

\* What the client's handler may return; the length of its answer is RespWords.
HandlerResults == {"ok", "fail"}

\* Mutant of Response: an error always carries its code, also in a message
\* without payload.
ResponseLongError(msg, ret) ==
    LET i == msg[2][2]
        fits == ret = "ok" /\ RespWords[i] <= msg[3][2]
        m == IF fits THEN RespWords[i] ELSE 1
    IN  << Header(msg[1][2], i, m) \o
           (IF fits THEN Payload("answer", i, m)
            ELSE Payload("ret", IF ret = "fail" THEN "err" ELSE "ok", m)),
           IF fits THEN "ready_success" ELSE "ready" >>

\* Mutant of Response: the first write already carries the final flags.
ResponseFlagsFirst(msg, ret) ==
    LET i == msg[2][2]
        fits == ret = "ok" /\ RespWords[i] <= msg[3][2]
        m == IF fits THEN RespWords[i] ELSE IF msg[3][2] > 0 THEN 1 ELSE 0
        flag == IF fits THEN "ready_success" ELSE "ready"
    IN  << Header(flag, i, m) \o
           (IF fits THEN Payload("answer", i, m)
            ELSE Payload("ret", IF ret = "fail" THEN "err" ELSE "ok", m)), flag >>

\* The response that is written over the message, and the flags word that is
\* written last.  Its first word repeats the flags of the message.  An error
\* carries the handler's return value if the message has room for it.
Response(msg, ret) ==
    LET i == msg[2][2]
        fits == ret = "ok" /\ RespWords[i] <= msg[3][2]
        m == IF fits THEN RespWords[i] ELSE IF msg[3][2] > 0 THEN 1 ELSE 0
    IN  << Header(msg[1][2], i, m) \o
           (IF fits THEN Payload("answer", i, m)
            ELSE Payload("ret", IF ret = "fail" THEN "err" ELSE "ok", m)),
           IF fits THEN "ready_success" ELSE "ready" >>

\* mbox->recv_msg_handler, and the preparation of the response.
\* A channel without a handler fails a message that requires a response.
RecvHandle(ret) ==
    /\ rpc = "handle"
    /\ handled' = [id |-> rmsg[2][2], ret |-> ret]
    /\ pending' = IF pending = << >> THEN << >> ELSE Tail(pending)
    /\ IF rmsg[1] = Flag("resp_required")
       THEN /\ rresp' = Response(rmsg, ret)[1] /\ rflag' = Response(rmsg, ret)[2]
            /\ rpc' = "respond"
       ELSE rpc' = "forward" /\ UNCHANGED <<rresp, rflag>>
    /\ ridx' = 0
    /\ UNCHANGED <<fifoVars, intr, senderVars, rmsg, rcnt>>

\* The response, one word, from the header to the last word of the payload.
RespondWord ==
    /\ rpc = "respond"
    /\ cell' = [cell EXCEPT ![CellOf(rp, ridx)] = rresp[ridx + 1]]
    /\ ridx' = ridx + 1
    /\ rpc' = IF ridx + 1 = Len(rresp) THEN "flag" ELSE "respond"
    /\ UNCHANGED <<wp, rp, intr, senderVars, rmsg, rcnt, rresp, rflag, pending, handled>>

\* "Update the flag field in last step of response."
RespondFlag ==
    /\ rpc = "flag"
    /\ cell' = [cell EXCEPT ![CellOf(rp, 0)] = Flag(rflag)]
    /\ rpc' = "forward"
    /\ UNCHANGED <<wp, rp, intr, senderVars, rmsg, rcnt, ridx, rresp, rflag, pending, handled>>

\* Mutant of RecvForward: the read pointer moves over the response, which may
\* be shorter than the message it was written over.
RecvForwardResponse ==
    LET n == IF rmsg[1] = Flag("resp_required") THEN Bytes(rresp) ELSE Bytes(rmsg) IN
    /\ rpc = "forward"
    /\ rp' = IF ReadCheck(wp, rp, n) THEN Forward(rp, n) ELSE rp
    /\ rcnt' = rcnt + 1 /\ rpc' = "peek"
    /\ rmsg' = << >> /\ ridx' = 0 /\ rresp' = << >> /\ rflag' = "none"
    /\ UNCHANGED <<wp, cell, intr, senderVars, pending, handled>>

\* m0ssq_fifo_rp_forward by the size of the message; the loop goes on.
RecvForward ==
    /\ rpc = "forward"
    /\ rp' = IF ReadCheck(wp, rp, Bytes(rmsg)) THEN Forward(rp, Bytes(rmsg)) ELSE rp
    /\ rcnt' = rcnt + 1 /\ rpc' = "peek"
    /\ rmsg' = << >> /\ ridx' = 0 /\ rresp' = << >> /\ rflag' = "none"
    /\ UNCHANGED <<wp, cell, intr, senderVars, pending, handled>>

-----------------------------------------------------------------------------
SenderStep == PollWord \/ PollReady \/ PollNotReady
ReceiverStep ==
    \/ RecvCall \/ RecvPeek
    \/ \E ret \in HandlerResults : RecvHandle(ret)
    \/ RespondWord \/ RespondFlag \/ RecvForward

Next == (\E i \in Ids, sync \in BOOLEAN : Send(i, sync)) \/ SenderStep \/ ReceiverStep

Spec == Init /\ [][Next]_vars

\* Both cores run, and an interrupt that is pending is taken.
Fairness == WF_vars(SenderStep) /\ WF_vars(ReceiverStep)
FairSpec == Spec /\ Fairness

-----------------------------------------------------------------------------
Flags == {"none", "async", "resp_required", "ready", "ready_success"}
Word == ({"flags"} \X Flags) \cup ({"id"} \X Ids) \cup ({"size"} \X Nat)
        \cup ({"request", "answer"} \X Ids) \cup ({"ret"} \X {"ok", "err"})

TypeOK ==
    /\ wp \in Pointers /\ rp \in Pointers
    /\ cell \in [Cells -> Word]
    /\ intr \in BOOLEAN
    /\ spc \in {"idle", "poll"} /\ swp \in Pointers
    /\ smsg \in Seq(Word) /\ sbuf \in Seq(Word)
    /\ rpc \in {"idle", "nomem", "peek", "handle", "respond", "flag", "forward"}
    /\ rmsg \in Seq(Word) /\ rcnt \in 0 .. MaxRxMsgs
    /\ rresp \in Seq(Word) /\ ridx \in 0 .. Len(rresp) /\ rflag \in Flags

\* A synchronous m0ssq_mbox_msg_send that does not time out returns what the
\* handler made of this message: never the answer to another message, never
\* an answer that is only partly written, never success for a failure.
Outcome(h) ==
    IF h.ret = "ok" /\ RespWords[h.id] <= DataWords[h.id]
    THEN [rv |-> "ok", data |-> Payload("answer", h.id, RespWords[h.id])]
    ELSE IF h.ret = "fail" /\ DataWords[h.id] > 0
         THEN [rv |-> "handler_error"] ELSE [rv |-> "error"]
SyncResult ==
    [][ (spc = "poll" /\ spc' = "idle" /\ sret'.rv # "timeout") =>
            smsg[2] = <<"id", handled.id>> /\ sret' = Outcome(handled) ]_vars

\* The handler gets every accepted message once, whole and in the order of
\* the sends, whatever responses were written into the FIFO before; the pointers
\* and buffers of both sides keep their types.
HandledInOrder ==
    /\ TypeOK
    /\ rpc = "handle" => pending # << >>
    /\ rpc = "handle" =>
          rmsg \in { Message(pending[1], f) : f \in {"async", "resp_required"} }

\* The two cores never write the same word: the sender writes only words
\* outside what the ring holds, the receiver only words of the message it is
\* answering, so a late response cannot damage a later message.
OwnWords ==
    [][ \A c \in Cells : cell'[c] # cell[c] =>
            IF wp' # wp
            THEN c \notin Held
            ELSE c \in { CellOf(rp, k) : k \in 0 .. Len(rmsg) - 1 } ]_vars

\* Every message that was accepted is handled, although the receiver runs only
\* when it is interrupted and clears the interrupt before it drains the FIFO.
\* Only a call that got no memory may leave a message behind, until the next
\* message interrupts the receiver again.
EventuallyHandled ==
    (pending # << >>) ~> (rpc = "handle" \/ (rpc = "nomem" /\ ~intr))
=============================================================================
