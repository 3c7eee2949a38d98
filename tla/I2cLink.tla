------------------------------- MODULE I2cLink -------------------------------
(* The data link layer of the OPTIGA protocol stack                          *)
(* (comms/ifx_i2c/ifx_i2c_data_link_layer.c): frame numbers modulo four,     *)
(* acknowledgements, retransmission and re-synchronisation.  One action per  *)
(* case of ifx_i2c_pl_event_handler; the handler's loop keeps the event in   *)
(* todo while only dl.state changes.                                         *)
EXTENDS I2cBus

CONSTANTS
    TransRepeat         \* DL_TRANS_REPEAT

VARIABLES
    dl,                 \* data link part of ifx_i2c_context_t, with its buffers
    resyncs             \* history: re-syncs sent or received in this call

linkVars == <<dl, resyncs>>

Tl(evs, b) == [to |-> "tl", events |-> evs, body |-> b]

DlInitial ==
    [state |-> "idle", tx |-> 3, rx |-> 3, resynced |-> FALSE, error |-> FALSE,
     retrans |-> 0, rxonly |-> FALSE, txbuf |-> NoBody, rxbuf |-> NoBody]

LinkInit == BusInit /\ dl = DlInitial /\ resyncs = 0

LinkKeeps == UNCHANGED <<dev, timer, who, tail, late, faults, lost, unsynced, overtaken>>

-----------------------------------------------------------------------------
(* ifx_i2c_dl_send_frame_internal followed by ifx_i2c_pl_send_frame.  Both   *)
(* kinds of frame but the re-sync are built in p_tx_frame_buffer, so the     *)
(* checksum of an ACK or NACK lands on the first bytes of the fragment that  *)
(* may have to be resent.                                                    *)
PlAccepts == pl.frame \in {"init", "ready"}
Transmit(f) ==
    IF PlAccepts
    THEN /\ pl' = [pl EXCEPT !.act = "write", !.out = f]
         /\ todo' = Pl /\ UNCHANGED bus
    ELSE ChainEnds /\ UNCHANGED pl

SendData(d, again) ==
    LET n == IF again /\ ~d.resynced THEN d.tx ELSE Succ(d.tx)
    IN  /\ dl' = [d EXCEPT !.tx = n, !.resynced = FALSE]
        /\ Transmit(Frame("data", "ack", n, d.rx, d.txbuf))

SendControl(d, s) ==
    /\ dl' = [d EXCEPT !.txbuf = CrcBody]
    /\ Transmit(Frame("ctrl", s, 0, IF s = "nack" THEN Succ(d.rx) ELSE d.rx, NoBody))

SendResync(d, s) ==
    /\ dl' = [d EXCEPT !.tx = 3, !.rx = 3, !.resynced = TRUE, !.state = s,
                       !.error = IF s = "error" THEN FALSE ELSE @,
                       !.retrans = IF s = "error" THEN @ ELSE 0]
    /\ resyncs' = resyncs + (IF resyncs < 3 THEN 1 ELSE 0)
    /\ Transmit(Frame("ctrl", "resync", 0, 0, NoBody))

StartReceive(d) ==
    /\ dl' = d
    /\ IF PlAccepts
       THEN /\ pl' = [pl EXCEPT !.act = "read", !.polls = IF d.state = "rx" /\ dl.state = "discard" THEN @ ELSE 0]
            /\ todo' = Pl /\ UNCHANGED bus
       ELSE ChainEnds /\ UNCHANGED pl

-----------------------------------------------------------------------------
(* ifx_i2c_pl_event_handler.  A fatal event moves every state but IDLE to    *)
(* ERROR first.                                                              *)
InDl(s) ==
    /\ todo.to = "dl"
    /\ IF todo.event = "fatal" /\ dl.state # "idle" THEN s = "error" ELSE dl.state = s
    /\ LinkKeeps
Loop(d) == dl' = d /\ UNCHANGED <<todo, bus, pl>>
Report(d, evs, b) == dl' = d /\ todo' = Tl(evs, b) /\ UNCHANGED <<bus, pl>>
NoResync == UNCHANGED resyncs

DlIdle ==
    /\ InDl("idle") /\ NoResync
    /\ Report(dl, IF todo.event = "ok" THEN {"tx"} ELSE {"error"}, NoBody)

(* A frame was written: wait for the answer. *)
DlSent ==
    /\ InDl("tx") /\ NoResync
    /\ IF todo.event = "error" THEN Loop([dl EXCEPT !.state = "resend"])
       ELSE IF PlAccepts THEN StartReceive([dl EXCEPT !.state = "rx"])
       ELSE Loop([dl EXCEPT !.state = "nack"])

DlReceived ==
    /\ InDl("rx") /\ NoResync
    /\ Loop([dl EXCEPT !.state =
                CASE todo.event = "error" -> "resend"
                  [] todo.event # "error" /\ todo.frame.kind = "short" -> "nack"
                  [] todo.event # "error" /\ todo.frame.kind = "ctrl" -> "rx_cf"
                  [] OTHER -> "rx_df"])

DlDataFrame ==
    LET f == todo.frame
    IN  /\ InDl("rx_df") /\ NoResync
        /\ IF ~f.good \/ f.seq = "resync" THEN Loop([dl EXCEPT !.state = "nack"])
           ELSE IF f.fr # Succ(dl.rx) THEN SendControl([dl EXCEPT !.state = "discard"], "ack")
           ELSE IF f.ack # dl.tx THEN Loop([dl EXCEPT !.state = "discard"])
           ELSE IF f.seq = "nack" THEN Loop([dl EXCEPT !.state = "resend"])
           ELSE SendControl([dl EXCEPT !.rx = Succ(dl.rx), !.rxbuf = f.body,
                                       !.retrans = 0, !.state = "ack"], "ack")

DlControlFrame ==
    LET f == todo.frame
    IN  /\ InDl("rx_cf")
        /\ IF dl.rxonly # (f.seq = "resync") THEN Loop([dl EXCEPT !.state = "discard"]) /\ NoResync
           ELSE IF ~f.good THEN Loop([dl EXCEPT !.state = "resend"]) /\ NoResync
           ELSE IF f.seq = "resync"
                THEN /\ Loop([dl EXCEPT !.state = "discard", !.resynced = TRUE, !.tx = 3, !.rx = 3])
                     /\ resyncs' = resyncs + (IF resyncs < 3 THEN 1 ELSE 0)
           ELSE /\ NoResync
                /\ IF f.ack # dl.tx THEN Loop([dl EXCEPT !.state = "discard"])
                   ELSE IF f.seq = "nack" THEN Loop([dl EXCEPT !.state = "resend"])
                   ELSE Report([dl EXCEPT !.state = "idle"], {"tx"}, NoBody)

DlDiscard ==
    /\ InDl("discard") /\ NoResync
    /\ StartReceive([dl EXCEPT !.state = "rx"])

(* The ACK of a data frame was written: hand the frame up.  When writing it  *)
(* failed the data frame in the transmit buffer is resent, not the ACK.      *)
DlAck ==
    /\ InDl("ack") /\ NoResync
    /\ IF todo.event = "error" THEN Loop([dl EXCEPT !.state = "resend"])
       ELSE Report([dl EXCEPT !.state = "idle"], IF dl.rxonly THEN {"rx"} ELSE {"tx", "rx"}, dl.rxbuf)

DlNack ==
    /\ InDl("nack") /\ NoResync
    /\ SendControl([dl EXCEPT !.state = "tx"], "nack")

(* ifx_i2c_dl_resend_frame *)
DlResend ==
    /\ InDl("resend")
    /\ IF late THEN Loop([dl EXCEPT !.state = "error"]) /\ NoResync
       ELSE IF dl.retrans = TransRepeat THEN SendResync(dl, IF PlAccepts THEN "resend" ELSE "nack")
       ELSE /\ NoResync
            /\ SendData([dl EXCEPT !.retrans = @ + 1, !.state = IF PlAccepts THEN "tx" ELSE "nack"], TRUE)

(* Variant: the call is given up without a re-sync. *)
DlErrorUnsynced ==
    /\ InDl("error") /\ NoResync
    /\ Report([dl EXCEPT !.state = "idle"], {"error"}, NoBody)

(* The first visit sends a re-sync, unless one was just sent; the next one   *)
(* tells the transport layer.                                                *)
DlError ==
    /\ InDl("error")
    /\ IF dl.error \/ ~dl.resynced
       THEN SendResync(dl, "error")
       ELSE Report([dl EXCEPT !.state = "idle"], {"error"}, NoBody) /\ NoResync

-----------------------------------------------------------------------------
(* ifx_i2c_dl_send_frame and ifx_i2c_dl_receive_frame, called by the         *)
(* transport layer with dl.state idle.                                       *)
SendFrame(b) ==
    SendData([dl EXCEPT !.state = "tx", !.retrans = 0, !.rxonly = FALSE, !.txbuf = b], FALSE)
ReceiveFrame == StartReceive([dl EXCEPT !.state = "rx", !.retrans = 0, !.rxonly = TRUE])
DlIsIdle == dl.state = "idle"
=============================================================================
