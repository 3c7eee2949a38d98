----------------------------- MODULE OcpSession -----------------------------
(* A session with a DTLS server as the application drives it (OCP.c):        *)
(* OCP_Init, OCP_Connect with the handshake inside, OCP_Send, OCP_Receive    *)
(* and OCP_Disconnect, with the memory, the socket, the session of the chip  *)
(* and the registry entry each of them takes and returns.                    *)
EXTENDS DtlsHandshake

CONSTANT
    MaxOwn              \* OCP_Send is called while fewer records left in epoch 1 (bound)

VARIABLES
    ses                 \* [phase, mem, socket, chip, registered, buf, reading, undefined]

allvars == <<rl, wire, mode, hs, net, srv, faults, seen, ses>>

-----------------------------------------------------------------------------
(* OCP_Init *)

(* What OCP_Init does in this order, each of which may fail. *)
InitSteps == <<"ctx", "tlcfg", "clcfg", "open", "rl", "win", "nextwin", "tlhdl", "socket",
               "clhdl", "registry">>
Memory == {"ctx", "tlcfg", "clcfg", "rl", "win", "nextwin", "tlhdl", "clhdl"}

(* OCPFreeMemory closes the layers through pointers that are set only after  *)
(* the three first allocations, and it does not close the socket.            *)
FreeMemory(s, configured) ==
    [s EXCEPT !.undefined = @ \/ (s.mem # {} /\ ~configured), !.mem = {}, !.buf = FALSE]

OCPInit(failing) ==
    LET n == IF failing = "none" THEN Len(InitSteps) + 1
             ELSE CHOOSE i \in DOMAIN InitSteps : InitSteps[i] = failing
        done == {InitSteps[i] : i \in 1 .. n - 1}
        s == [ses EXCEPT !.mem = Memory \cap done, !.socket = "socket" \in done,
                         !.registered = "registry" \in done]
    IN /\ ses.phase = "none"
       /\ ~ses.registered
       /\ ses' = IF failing = "none" THEN [s EXCEPT !.phase = "ready"]
                 ELSE [FreeMemory(s, "clcfg" \in done) EXCEPT !.phase = "over"]
       /\ Faulty(failing)
       /\ UNCHANGED <<rl, wire, mode, hs, net, srv, seen>>

-----------------------------------------------------------------------------
(* Variant: after a fatal error the chip's session is left alone. *)
CloseSessionUnlessFatal ==
    LET alerted == IF hs.auth # "initialised" /\ ~hs.fatal THEN SendAlert(rl, wire, "close")
                   ELSE [rl |-> rl, wire |-> wire, ok |-> TRUE]
    IN /\ ses' = [FreeMemory(ses, TRUE) EXCEPT
                    !.phase = "over", !.socket = FALSE, !.registered = FALSE,
                    !.chip = @ /\ hs.fatal]
       /\ rl' = [alerted.rl EXCEPT !.left = << >>]
       /\ wire' = alerted.wire
       /\ UNCHANGED <<mode, hs, net, srv, seen>>

(* CloseSession: the chip's session is closed only when the handshake has    *)
(* begun to send.                                                            *)
CloseSession ==
    LET begun == hs.auth # "initialised"
        alerted == IF begun /\ ~hs.fatal THEN SendAlert(rl, wire, "close")
                   ELSE [rl |-> rl, wire |-> wire, ok |-> TRUE]
    IN /\ ses' = [FreeMemory(ses, TRUE) EXCEPT
                    !.phase = "over", !.socket = FALSE, !.registered = FALSE,
                    !.chip = @ /\ ~begun]
       /\ rl' = [alerted.rl EXCEPT !.left = << >>]
       /\ wire' = alerted.wire
       /\ UNCHANGED <<mode, hs, net, srv, seen>>

(* OCP_Connect: the socket, the authentication scheme of the chip, and the   *)
(* handshake; any failure closes the session.                                *)
OCPConnect(fault) ==
    /\ ses.phase = "ready"
    /\ \/ /\ fault \in {"connect", "scheme"}
          /\ CloseSession
       \/ /\ fault = "none"
          /\ ses' = [ses EXCEPT !.phase = "handshake", !.chip = TRUE]
          /\ UNCHANGED <<rl, wire, mode, hs, net, srv, seen>>
    /\ Faulty(fault)

Within(step) == ses.phase = "handshake" /\ step /\ UNCHANGED ses

OCPConnectReturns ==
    /\ ses.phase = "handshake"
    /\ mode = "exit"
    /\ IF hs.status = "ok"
       THEN /\ ses' = [ses EXCEPT !.phase = "connected"]
            /\ UNCHANGED <<rl, wire, mode, hs, net, srv, seen>>
       ELSE CloseSession
    /\ UNCHANGED faults

-----------------------------------------------------------------------------
(* Application data, only when the session is authenticated *)

Ready == ses.phase = "connected" /\ hs.auth = "completed" /\ ~ses.reading

OCPSend(fault) ==
    LET r == SendRecord([rl |-> rl, wire |-> wire, ok |-> TRUE], "app", fault)
    IN /\ Ready
       /\ rl.nextseq < MaxOwn
       /\ rl' = r.rl
       /\ wire' = r.wire
       /\ Faulty(fault)
       /\ UNCHANGED <<mode, hs, net, srv, seen, ses>>

(* OCP_Receive waits for application data.  The buffer lives on while a      *)
(* datagram has records left.                                                *)
OCPReceive(fault) ==
    /\ Ready
    /\ fault = "malloc" => ~ses.buf
    /\ ses' = IF fault = "malloc" THEN ses ELSE [ses EXCEPT !.buf = TRUE, !.reading = TRUE]
    /\ Faulty(fault)
    /\ UNCHANGED <<rl, wire, mode, hs, net, srv, seen>>

Return(left) == [ses EXCEPT !.reading = FALSE, !.buf = left # << >>]

(* A HelloRequest is answered with a warning; other messages, warnings and   *)
(* errors are passed over.                                                   *)
OCPReceiveRecord(fault) ==
    /\ ses.reading
    /\ \E d \in IF rl.left # << >> THEN {rl.left} ELSE net :
          LET r == ReceiveRecord(rl, d[1], "app", fault)
              rest == KnownRecords(Tail(d))
              kept == [r.rl EXCEPT !.left = rest]
              id == <<d[1].epoch, d[1].seq>>
              hello == r.status = "ok" /\ d[1].type = "handshake"
                       /\ d[1].body[1].type = "HelloRequest"
              refused == SendAlert(kept, wire, "norenegotiate")
          IN /\ KnownRecords(d) # << >>
             /\ seen' = IF r.status \in {"app", "alert", "ok"}
                        THEN [ids |-> seen.ids \cup {id}, twice |-> seen.twice \/ id \in seen.ids]
                        ELSE seen
             /\ \E m \in IF r.status = "alert" THEN AlertMeaning(d[1].body[1].type) ELSE {"none"} :
                   /\ ses' = IF r.status \in {"app", "malloc", "decrypt"} \/ m = "fatal"
                             THEN Return(rest) ELSE ses
                   /\ hs' = IF m = "fatal" THEN [hs EXCEPT !.auth = "closed"] ELSE hs
             /\ rl' = IF hello THEN refused.rl ELSE kept
             /\ wire' = IF hello THEN refused.wire ELSE wire
    /\ Faulty(fault)
    /\ UNCHANGED <<mode, net, srv>>

OCPReceiveTimeout ==
    /\ ses.reading
    /\ ses' = Return(rl.left)
    /\ UNCHANGED <<rl, wire, mode, hs, net, srv, faults, seen>>

OCPDisconnect ==
    /\ ses.phase = "connected"
    /\ ~ses.reading
    /\ CloseSession
    /\ UNCHANGED faults

(* The server's data (external): one datagram of two records, and a request  *)
(* for another handshake or an alert, all protected.                         *)
SendData ==
    LET payloads == {<<"app", "data">>, <<"handshake", "HelloRequest">>, <<"alert", "fatal">>,
                     <<"alert", "warning">>}
    IN /\ ses.reading
       /\ 8 \notin srv.sent
       /\ \E p \in payloads :
             net' = net \cup {<<Record(p[1], 1, srv.seq1, <<[type |-> p[2]]>>),
                                Record("app", 1, srv.seq1 + 1, <<[type |-> "data"]>>)>>}
       /\ srv' = [srv EXCEPT !.sent = @ \cup {8}, !.seq1 = @ + 2]
       /\ UNCHANGED <<rl, wire, mode, hs, faults, seen, ses>>

-----------------------------------------------------------------------------
Init ==
    /\ HandshakeInit
    /\ ses = [phase |-> "none", mem |-> {}, socket |-> FALSE, chip |-> FALSE,
              registered |-> FALSE, buf |-> FALSE, reading |-> FALSE, undefined |-> FALSE]

Next ==
    \/ \E failing \in MayFail(Range(InitSteps)) : OCPInit(failing)
    \/ \E fault \in MayFail({"connect", "scheme"}) : OCPConnect(fault)
    \/ Within(HandshakeNext)
    \/ OCPConnectReturns
    \/ \E fault \in MayFail({"malloc", "chip", "net"}) : OCPSend(fault)
    \/ \E fault \in MayFail({"malloc"}) : OCPReceive(fault)
    \/ \E fault \in MayFail({"malloc", "chip"}) : OCPReceiveRecord(fault)
    \/ OCPReceiveTimeout
    \/ OCPDisconnect
    \/ SendData

(* A flight is sent, with or without success, and time passes. *)
Fairness ==
    /\ WF_mode(mode = "send" /\ mode' \in {"recv", "exit"})
    /\ WF_allvars(Within(Elapse))
    /\ WF_allvars(OCPReceiveTimeout)

Spec == Init /\ [][Next]_allvars /\ Fairness
-----------------------------------------------------------------------------
(* Properties *)

TypeOK ==
    /\ rl.next \in {0, 1, 65535} /\ rl.server \in {0, 1} /\ rl.nextseq \in Nat
    /\ mode \in {"send", "recv", "exit"} /\ hs.last \in 0 .. 6
    /\ hs.auth \in {"initialised", "started", "completed", "closed"}
    /\ hs.timeout \in Nat /\ Len(hs.rf) <= 2
    /\ ses.phase \in {"none", "ready", "handshake", "connected", "over"}
    /\ ses.mem \subseteq Memory
    /\ faults \in 0 .. MaxFaults /\ srv.extra \in 0 .. MaxExtra

(* No record of the server is taken twice, however often the network repeats *)
(* it: neither a message of the handshake nor data, across the windows'      *)
(* moves after each flight.                                                  *)
RecordsTakenOnce == ~seen.twice

(* The client never uses a sequence number twice in an epoch, although       *)
(* flight 5 goes back to epoch 0 when it is sent again and alerts may leave  *)
(* in the epoch before.                                                      *)
NumbersUsedOnce == ~wire.reused

(* After the change of the cipher spec only an alert may leave in clear, and *)
(* only when a retransmission of flight 5 broke off before its first record. *)
ProtectedAfterCipherSpec ==
    /\ wire.clear \subseteq {"alert"}
    /\ wire.clear # {} => wire.top[65535] >= 0

(* The record layer in both directions: a record is taken once, numbered     *)
(* once, and protected from the change of the cipher spec on.                *)
RecordsOnce == RecordsTakenOnce /\ NumbersUsedOnce /\ ProtectedAfterCipherSpec

(* The chip is given each flight of the server once and in order; only a     *)
(* HelloVerifyRequest may come to it again, and none after flight 4.         *)
ChipSeesFlightsInOrder ==
    LET n == Cardinality({i \in DOMAIN hs.chip : hs.chip[i] = 2})
    IN /\ \A i \in 1 .. n : hs.chip[i] = 2
       /\ IsPrefix(SubSeq(hs.chip, n + 1, Len(hs.chip)), <<4, 6>>)

(* A session is authenticated only when the server has the client's flight 5 *)
(* and both sides have changed to the epoch of the session.                  *)
CompletedAgrees ==
    hs.auth = "completed" =>
        /\ 5 \in srv.has /\ 6 \in srv.sent
        /\ rl.enc /\ rl.next = 1 /\ rl.server = 1
        /\ Last(hs.chip) = 6

(* The datagrams of the server that start with a ServerHello. *)
Hellos == {d \in net : d[1].body # << >> /\ d[1].body[1].type = "ServerHello"}

(* Having sent flight 5, the client stops accepting flight 6 only when       *)
(* flight 4 has come to it once more: its fragments then free the list of    *)
(* flight 6, and the handshake can only time out.                            *)
FlightSixAwaited ==
    mode = "recv" /\ hs.last = 5 /\ hs.flight \notin {5, 6} => Cardinality(Hellos) > 1

(* Chip, client and server agree on how far the handshake is, whatever of    *)
(* the flights was lost, repeated or re-packed.                              *)
FlightsAgree == ChipSeesFlightsInOrder /\ CompletedAgrees /\ FlightSixAwaited

(* What a closed session leaves behind: the chip's session only when no      *)
(* flight was sent whole, the socket only when it was never connected.       *)
LeftBehind ==
    ses.phase = "over" =>
        /\ ses.chip => srv.has = {}
        /\ ses.socket => hs = InitialHandshake
        /\ ~ses.registered /\ ses.mem = {}

(* The handshake ends, whatever the server sends and however often.          *)
HandshakeEnds == (ses.phase = "handshake") ~> (mode = "exit")

(* OCP_Receive returns, whether or not data comes.                           *)
ReceiveReturns == (ses.reading) ~> (~ses.reading)

(* No call of the session blocks its thread for ever.                        *)
CallsEnd == HandshakeEnds /\ ReceiveReturns
=============================================================================
