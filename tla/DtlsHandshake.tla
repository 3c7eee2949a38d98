---------------------------- MODULE DtlsHandshake ----------------------------
(* The DTLS client handshake (DtlsHandshakeProtocol.c): flights are sent,    *)
(* the answer is awaited, and a timeout sends the last flight again.  The    *)
(* server and the network are external: a datagram may be lost, repeated,    *)
(* delayed and reordered, and the server sends a flight again.               *)
EXTENDS DtlsFlights

CONSTANTS
    DefaultTimeout,     \* DEFAULT_TIMEOUT, the first wait of a flight
    Packing,            \* flight 4 of the server: datagrams of records of <<type, part>>
    MaxExtra,           \* flights sent again and alerts of the server (bound)
    MaxFaults           \* failing calls in a behaviour (bound)

ASSUME HandshakeAssumption ==
    /\ DefaultTimeout \in Nat /\ MaxExtra \in Nat /\ MaxFaults \in Nat
    /\ Packing \in Seq(Seq(Seq(STRING \X SUBSET Nat)))

(* Flight 4 starts with the ServerHello; its datagrams and records are not   *)
(* empty, and each piece of a message is in it once.                         *)
ASSUME PackingAssumption ==
    /\ Packing # << >> /\ Packing[1][1][1][1] = "ServerHello"
    /\ \A i, a \in DOMAIN Packing : \A j \in DOMAIN Packing[i], b \in DOMAIN Packing[a] :
       \A k \in DOMAIN Packing[i][j], c \in DOMAIN Packing[a][b] :
          LET e == Packing[i][j][k]
              f == Packing[a][b][c]
          IN /\ InFlight(4, e[1]) /\ e[2] # {} /\ e[2] \subseteq Pieces[e[1]]
             /\ e[1] = f[1] /\ e[2] \cap f[2] # {} => <<i, j, k>> = <<a, b, c>>
    /\ \A i \in DOMAIN Packing :
          Packing[i] # << >> /\ \A j \in DOMAIN Packing[i] : Packing[i][j] # << >>

VARIABLES
    rl,                 \* the record layer
    wire,               \* the records sent (history)
    mode,               \* bSmMode: "send", "recv" or "exit"
    hs,                 \* the handshake
    net,                \* datagrams of the server, delivered any number of times
    srv,                \* the server
    faults,             \* failing calls left
    seen                \* records accepted, and whether one was twice (history)

vars == <<rl, wire, mode, hs, net, srv, faults, seen>>

MaxFlightTimeout == 60

Faulty(fault) == faults' = IF fault = "none" THEN faults ELSE faults - 1
MayFail(kinds) == {"none"} \cup (IF faults > 0 THEN kinds ELSE {})

-----------------------------------------------------------------------------
(* The client's own flights.  The list holds one of them at a time: the one  *)
(* before is freed when the server's answer has been processed.              *)

(* SFlightInitialise: a flight already sent is sent again, an even flight    *)
(* processed asks for the next one.                                          *)
NoFlight == [id |-> 0, state |-> "ready"]

NextFlight(sf, last) ==
    IF last % 2 = 1 THEN [sf EXCEPT !.state = IF @ = "transmitted" THEN "retransmit" ELSE @]
    ELSE IF sf.id = last + 1 THEN sf ELSE [id |-> last + 1, state |-> "ready"]

(* A message is formed by the chip when its flight is new, and flight 3 is   *)
(* formed again when a second HelloVerifyRequest came.                       *)
Formed(sf) == sf.state = "ready" \/ (sf.id = 3 /\ sf.state = "transmitted")

(* FSendMessage *)
SendMessage(r, message, form, fault) ==
    IF ~r.ok \/ fault = "alloc" \/ (fault = "form" /\ form)
    THEN [r EXCEPT !.ok = FALSE]
    ELSE SendRecord(r, IF message = "ccs" THEN "ccs" ELSE "handshake", fault)

(* The messages of a flight in order, until one fails. *)
SendAll(r, messages, form, fault, at) ==
    LET after[i \in 0 .. Len(messages)] ==
            IF i = 0 THEN r
            ELSE SendMessage(after[i - 1], messages[i], form, IF i = at THEN fault ELSE "none")
    IN after[Len(messages)]

Flight1Handler(r, sf, fault, at) == SendAll(r, Messages(1), sf.state = "ready", fault, at)

Flight3Handler(r, sf, fault, at) == SendAll(r, Messages(3), Formed(sf), fault, at)

(* Flight 5 once more: its first record goes back to the epoch before. *)
Flight5Handler(r, sf, opt, fault, at) ==
    LET start == IF sf.state = "ready" THEN r ELSE [r EXCEPT !.rl.retransmit = TRUE]
    IN SendAll(start, FlightFive(opt), sf.state = "ready", fault, at)

SendFlight(r, sf, opt, fault, at) ==
    CASE sf.id = 1 -> Flight1Handler(r, sf, fault, at)
      [] sf.id = 3 -> Flight3Handler(r, sf, fault, at)
      [] sf.id = 5 -> Flight5Handler(r, sf, opt, fault, at)

-----------------------------------------------------------------------------
(* The server's flights awaited *)

Answers(last) == IF last = 5 THEN <<4, 6>> ELSE <<2, 4>>

NewFlight(f) == [id |-> f, state |-> "ready", nodes |-> <<>>]
Listed(rf, f) == \E i \in DOMAIN rf : rf[i].id = f
Add(rf, f) == IF Listed(rf, f) THEN rf ELSE Append(rf, NewFlight(f))

(* RFlightInitialise *)
Awaited(rf, last) ==
    LET first == Answers(last)[1]
        second == Answers(last)[2]
    IN IF ~Listed(rf, first) THEN Add(Add(rf, first), second)
       ELSE IF rf[1].state = "processed" THEN Add(rf, second)
       ELSE rf

(* Leaving the handshake: an error is reported to the server in an alert. *)
Ended(h, status, fatal) ==
    [h EXCEPT !.status = status, !.fatal = fatal, !.sf = NoFlight,
              !.rf = <<>>]

Fail(r, status) ==
    LET alerted == SendAlert(r.rl, r.wire, status)
    IN /\ mode' = "exit"
       /\ hs' = Ended(hs, status, TRUE)
       /\ rl' = alerted.rl
       /\ wire' = alerted.wire

-----------------------------------------------------------------------------
(* Actions *)

(* STATE_SEND and the start of STATE_RECV: the flight is prepared and sent,  *)
(* and the flights that may answer it are listed.                            *)
Send(fault, at) ==
    LET sf == NextFlight(hs.sf, hs.last)
        noNode == fault = "node" /\ sf.id # hs.sf.id
        r == SendFlight([rl |-> rl, wire |-> wire, ok |-> TRUE], sf, hs.opt, fault, at)
        failed == noNode \/ ~r.ok
        result == IF noNode THEN [rl |-> rl, wire |-> wire] ELSE r
        rf == Awaited(hs.rf, sf.id)
        noList == fault = "list" /\ rf # hs.rf
        began == [hs EXCEPT !.auth = "started"]
        sent == [began EXCEPT
                   !.last = sf.id, !.sf = [sf EXCEPT !.state = "transmitted"],
                   !.rf = rf,
                   !.flight = IF Formed(sf) THEN sf.id ELSE @]
    IN /\ mode = "send"
       /\ IF failed
          THEN IF hs.auth = "started" THEN Fail(result, "send")
               ELSE /\ mode' = "exit"
                    /\ hs' = Ended(hs, "send", hs.fatal)
                    /\ rl' = result.rl
                    /\ wire' = result.wire
          ELSE IF noList
               THEN LET alerted == SendAlert(r.rl, r.wire, "list")
                    IN /\ mode' = "exit"
                       /\ hs' = Ended(began, "list", TRUE)
                       /\ rl' = alerted.rl
                       /\ wire' = alerted.wire
               ELSE /\ mode' = "recv"
                    /\ hs' = sent
                    /\ rl' = r.rl
                    /\ wire' = r.wire
       /\ srv' = IF r.ok /\ ~noNode THEN [srv EXCEPT !.has = @ \cup {sf.id}] ELSE srv
       /\ Faulty(fault)
       /\ UNCHANGED <<net, seen>>

(* Variant: at the largest wait the client goes on waiting. *)
TimedOutForgets(h) ==
    /\ mode' = IF h.timeout < MaxFlightTimeout THEN "send" ELSE "recv"
    /\ hs' = [h EXCEPT !.timeout = MaxFlightTimeout]

(* A timeout doubles the wait, up to 60 s, and sends the flight again; after *)
(* the last one the client gives up.                                         *)
TimedOut(h) ==
    LET t == IF h.timeout * 2 = 64 THEN MaxFlightTimeout ELSE h.timeout * 2
        later == [h EXCEPT !.timeout = t]
    IN IF t > MaxFlightTimeout
       THEN mode' = "exit" /\ hs' = Ended(later, "timeout", FALSE)
       ELSE mode' = "send" /\ hs' = later

Elapse ==
    /\ mode = "recv"
    /\ TimedOut(hs)
    /\ UNCHANGED <<rl, wire, net, srv, faults, seen>>

(* MsgCheck: a cipher spec message outside flights 5 and 6 is dropped; other *)
(* records must hold messages of one flight, one of those awaited unless a   *)
(* flight is already coming in.                                              *)
Expected(r, messages) ==
    LET types == {messages[i].type : i \in DOMAIN messages}
    IN IF r.ccs THEN hs.flight \in {5, 6}
       ELSE \E f \in IF hs.flight = hs.last THEN Range(Answers(hs.last)) ELSE {hs.flight} :
                \A t \in types : t # "ccs" /\ InFlight(f, t)

(* One message goes to the flights listed, in order; the first that takes it *)
(* stays and the other is freed.                                             *)
Offer(h, i, m, fault) == FlightHandler([h EXCEPT !.fl = h.rf[i]], hs.last, m, fault)
Offered(h, i) ==
    [h EXCEPT !.rf = IF h.status = "notinflight" THEN [@ EXCEPT ![i] = h.fl] ELSE <<h.fl>>]
OfferSecond(h, m, fault) ==
    IF Len(h.rf) = 1 THEN h ELSE Offered(Offer(h, 2, m, fault), 2)

Dispatch(h, m, fault) == OfferSecond(Offered(Offer(h, 1, m, fault), 1), m, fault)

Leaves == {"ok", "malloc", "maxcount", "chip", "interr", "hserr"}

(* The messages of a record in order, until a flight ends or fails. *)
DispatchNext(h, m, fault) == IF h.status \in Leaves THEN h ELSE Dispatch(h, m, fault)

DispatchAll(h, messages, fault, at) ==
    LET after[i \in 0 .. Len(messages)] ==
            IF i = 0 THEN h
            ELSE DispatchNext(after[i - 1], messages[i], IF i = at THEN fault ELSE "none")
    IN after[Len(messages)]

(* What the record layer hands over, and what becomes of it.  An error that  *)
(* would end the handshake counts as a timeout when the time is up.          *)
Received(record, fault, at) ==
    LET r == ReceiveRecord(rl, record, "handshake", fault)
        messages == IF r.rl.ccs THEN <<[type |-> "ccs"]>> ELSE record.body
        h == [fl |-> hs.rf[1], rf |-> hs.rf, flight |-> hs.flight, rseq |-> hs.rseq,
              opt |-> hs.opt, chip |-> hs.chip, rl |-> r.rl, status |-> "ignore"]
    IN CASE r.status = "ok" ->
              IF Expected(r.rl, messages) THEN DispatchAll(h, messages, fault, at)
              ELSE [h EXCEPT !.rl.ccs = FALSE]
         [] r.status = "alert" -> [h EXCEPT !.status = record.body[1].type]
         [] r.status = "malloc" -> [h EXCEPT !.status = "malloc"]
         [] OTHER -> h

Processed(h) ==
    [hs EXCEPT !.rf = h.rf, !.flight = h.flight, !.rseq = h.rseq, !.opt = h.opt, !.chip = h.chip]

(* A flight of the server is processed: the windows move on, the wait starts *)
(* anew; after flight 6 the session is authenticated.                        *)
Advanced(h) ==
    LET next == [Processed(h) EXCEPT !.last = h.rf[1].id, !.timeout = DefaultTimeout]
    IN IF next.last = 6
       THEN mode' = "exit" /\ hs' = Ended([next EXCEPT !.auth = "completed"], "ok", FALSE)
       ELSE mode' = "send" /\ hs' = next

Take(record, rest, fault, at, late) ==
    \E h \in {Received(record, fault, at)} :
    LET meaning == IF h.status = "unlisted" THEN AlertMeaning("unlisted") ELSE {h.status}
        fatal == h.status \in Leaves
        kept == [h.rl EXCEPT !.left = rest]
        accepted == ReceiveRecord(rl, record, "handshake", fault).status \in {"ok", "alert"}
        id == <<record.epoch, record.seq>>
    IN /\ seen' = IF ~accepted THEN seen
                  ELSE [ids |-> seen.ids \cup {id}, twice |-> seen.twice \/ id \in seen.ids]
       /\ \/ /\ h.status = "ok"
             /\ ~late
             /\ Advanced(h)
             /\ rl' = Slide([h.rl EXCEPT !.left = << >>], h.rf[1].id = 6)
             /\ wire' = wire
          \/ /\ fatal \/ "fatal" \in meaning
             /\ h.status # "ok"
             /\ late
             /\ h.rf[1].state # "received"
             /\ TimedOut(Processed(h))
             /\ rl' = kept
             /\ wire' = wire
          \/ /\ fatal
             /\ h.status # "ok"
             /\ ~late
             /\ LET alerted == SendAlert(kept, wire, h.status)
                IN /\ mode' = "exit"
                   /\ hs' = Ended(Processed(h), h.status, TRUE)
                   /\ rl' = alerted.rl
                   /\ wire' = alerted.wire
          \/ /\ "fatal" \in meaning
             /\ ~late
             /\ mode' = "exit"
             /\ hs' = Ended(Processed(h), "alert", FALSE)
             /\ rl' = kept
             /\ wire' = wire
          \/ /\ ~fatal
             /\ meaning # {"fatal"}
             /\ ~late
             /\ mode' = mode
             /\ hs' = Processed(h)
             /\ rl' = kept
             /\ wire' = wire

(* The next record, of the datagram at hand or of one the network delivers. *)
Receive(fault, at, late) ==
    /\ mode = "recv"
    /\ \E d \in IF rl.left # << >> THEN {rl.left} ELSE net :
          /\ KnownRecords(d) # << >>
          /\ Take(d[1], KnownRecords(Tail(d)), fault, at, late)
    /\ Faulty(fault)
    /\ UNCHANGED <<net, srv>>

-----------------------------------------------------------------------------
(* The server (external) *)

Record(type, epoch, seq, body) ==
    [type |-> type, epoch |-> epoch, seq |-> seq, sealed |-> epoch = 1, body |-> body]

MaySend(f) == f \in {2, 4, 6} \ srv.sent \/ srv.extra < MaxExtra
Sent(f, used) ==
    [srv EXCEPT !.sent = @ \cup {f}, !.seq = @ + used,
                !.extra = IF f = 0 \/ f \in srv.sent THEN @ + 1 ELSE @]

(* A server that wants the cookie answers the first flight with it. *)
SendHelloVerifyRequest ==
    LET body == <<[type |-> "HelloVerifyRequest", seq |-> 0, part |-> Pieces["HelloVerifyRequest"]]>>
    IN /\ 1 \in srv.has /\ srv.cookie /\ MaySend(2) /\ 4 \notin srv.sent
       /\ net' = net \cup {<<Record("handshake", 0, srv.seq, body)>>}
       /\ srv' = Sent(2, 1)

(* The records of the first i datagrams. *)
RecordsUpTo[i \in 0 .. Len(Packing)] ==
    IF i = 0 THEN 0 ELSE RecordsUpTo[i - 1] + Len(Packing[i])

(* Messages are numbered from 0, the HelloVerifyRequest included; without a  *)
(* CertificateRequest the last one of flight 4 moves up.                     *)
Asked == \E i \in DOMAIN Packing : \E j \in DOMAIN Packing[i] : \E k \in DOMAIN Packing[i][j] :
             Optional(Packing[i][j][k][1])
Number(place) ==
    place - (IF srv.cookie THEN 0 ELSE 1) - (IF place = Len(Messages(4)) /\ ~Asked THEN 1 ELSE 0)

(* Flight 4, its first record with number first. *)
Message(i, j, k) ==
    LET entry == Packing[i][j][k]
    IN [type |-> entry[1], part |-> entry[2], seq |-> Number(Position(4, entry[1]))]
RecordOfFour(first, i, j) ==
    Record("handshake", 0, first + RecordsUpTo[i - 1] + j - 1,
           [k \in DOMAIN Packing[i][j] |-> Message(i, j, k)])
DatagramOfFour(first, i) == [j \in DOMAIN Packing[i] |-> RecordOfFour(first, i, j)]

(* First when the client has been heard, again until its own flight has come *)
(* in.                                                                       *)
SendFlight4 ==
    /\ (IF srv.cookie THEN 3 ELSE 1) \in srv.has
    /\ MaySend(4) /\ 6 \notin srv.sent
    /\ net' = net \cup {DatagramOfFour(srv.seq, i) : i \in DOMAIN Packing}
    /\ srv' = Sent(4, RecordsUpTo[Len(Packing)])

(* Flight 6, in two datagrams: the second is the first record of epoch 1. *)
SendFlight6 ==
    LET number == Number(Len(Messages(4))) + 1
        finished == <<[type |-> "Finished", seq |-> number, part |-> Pieces["Finished"]]>>
    IN /\ 5 \in srv.has
       /\ MaySend(6)
       /\ net' = net \cup {<<Record("ccs", 0, srv.seq, << >>)>>,
                           <<Record("handshake", 1, srv.seq1, finished)>>}
       /\ srv' = [Sent(6, 1) EXCEPT !.seq1 = @ + 1]

SendServerAlert ==
    \E level \in {"fatal", "warning", "unlisted"} :
        /\ srv.has # {}
        /\ MaySend(0)
        /\ net' = net \cup {<<Record("alert", 0, srv.seq, <<[type |-> level]>>)>>}
        /\ srv' = Sent(0, 1)

Server ==
    /\ mode = "recv"
    /\ SendHelloVerifyRequest \/ SendFlight4 \/ SendFlight6 \/ SendServerAlert
    /\ UNCHANGED <<rl, wire, mode, hs, faults, seen>>

-----------------------------------------------------------------------------
InitialHandshake ==
    [last |-> 0, timeout |-> DefaultTimeout, sf |-> NoFlight, rf |-> <<>>,
     flight |-> 0, rseq |-> -1, opt |-> {}, chip |-> <<>>, auth |-> "initialised",
     fatal |-> FALSE, status |-> "none"]

InitialServer(cookie) ==
    [cookie |-> cookie, has |-> {}, seq |-> 0, seq1 |-> 0,
     sent |-> {}, extra |-> 0]

HandshakeInit ==
    /\ rl = InitialRecordLayer
    /\ wire = InitialWire
    /\ mode = "send"
    /\ hs = InitialHandshake
    /\ net = {<<Record("junk", 0, 0, << >>)>>}
    /\ \E cookie \in BOOLEAN : srv = InitialServer(cookie)
    /\ faults = MaxFaults
    /\ seen = [ids |-> {}, twice |-> FALSE]

SendFaults == {"node", "list", "alloc", "form", "malloc", "chip", "net"}
ReceiveFaults == {"malloc", "chip", "interr", "hserr"}

ClientSends ==
    \E fault \in MayFail(SendFaults) : \E at \in IF fault = "none" THEN {1} ELSE 1 .. 5 :
        Send(fault, at)

ClientReceives ==
    \E fault \in MayFail(ReceiveFaults) : \E at \in IF fault = "none" THEN {1} ELSE 1 .. 3 :
        \E late \in BOOLEAN : Receive(fault, at, late)

HandshakeNext == ClientSends \/ ClientReceives \/ Elapse \/ Server
=============================================================================
