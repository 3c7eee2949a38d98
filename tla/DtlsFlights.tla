------------------------------ MODULE DtlsFlights ------------------------------
(* The flights of the DTLS client handshake (DtlsFlightHandler.c): messages  *)
(* are reassembled from fragments, a flight is handed to the chip when it is *)
(* whole, and flights that come again are recognised.                        *)
(*                                                                           *)
(* A handler gets and returns a record h: the flight fl it works on, the     *)
(* handshake's own data (flight, the flight the peers are in; rseq, the last *)
(* message number received; opt, the optional messages received), the        *)
(* record layer rl, chip, the flights given to the chip, and its status.     *)
EXTENDS DtlsRecord

CONSTANTS
    Pieces,             \* Pieces[m]: the smallest fragments of message m
    MaxCount,           \* OCP_MSGRX_MAX_COUNT
    HasCertificate      \* a device certificate is configured

-----------------------------------------------------------------------------
(* Flight tables: the messages of a flight in order, and the optional ones *)

Messages(f) ==
    CASE f \in {1, 3} -> <<"ClientHello">>
      [] f = 2 -> <<"HelloVerifyRequest">>
      [] f = 4 -> <<"ServerHello", "Certificate", "ServerKeyExchange", "CertificateRequest",
                    "ServerHelloDone">>
      [] f = 5 -> <<"ClientCertificate", "ClientKeyExchange", "CertificateVerify", "ccs",
                    "ClientFinished">>
      [] f = 6 -> <<"ccs", "Finished">>

InFlight(f, type) == \E i \in DOMAIN Messages(f) : Messages(f)[i] = type
Position(f, type) == CHOOSE i \in DOMAIN Messages(f) : Messages(f)[i] = type
Optional(type) == type = "CertificateRequest"

(* Flight 5 as the server asked for it. *)
FlightFive(opt) ==
    LET asked == "CertificateRequest" \in opt
        Only(wanted, type) == IF wanted THEN <<type>> ELSE << >>
    IN Only(asked, "ClientCertificate") \o <<"ClientKeyExchange">>
       \o Only(asked /\ HasCertificate, "CertificateVerify") \o <<"ccs", "ClientFinished">>

-----------------------------------------------------------------------------
(* Reassembly: the nodes of a flight, a function from message types *)

Whole(type, got) == got = Pieces[type]

NewNode(m) ==
    [state |-> IF Whole(m.type, m.part) THEN "complete" ELSE "partial",
     got |-> m.part, seq |-> m.seq, held |-> TRUE,
     count |-> IF Whole(m.type, m.part) THEN 1 ELSE 0]

CipherSpecNode ==
    [state |-> "complete", got |-> {1}, seq |-> 0, held |-> FALSE, count |-> 1]

AddNode(nodes, type, n) ==
    [t \in DOMAIN nodes \cup {type} |-> IF t = type THEN n ELSE nodes[t]]

Noted(opt, type) == IF Optional(type) THEN opt \cup {type} ELSE opt

(* MessageLimitCheck: how often a complete message may come. *)
Counted(n) == [n EXCEPT !.count = IF @ + 1 > MaxCount THEN MaxCount ELSE @ + 1]
LimitReached(n) == n.count + 1 > MaxCount

(* A fragment of a message that has a node.  One for a complete message is   *)
(* not copied but counted.                                                   *)
CheckAndBuffer(h, m, fault) ==
    LET n == h.fl.nodes[m.type]
        buffered == [n EXCEPT !.held = TRUE, !.got = @ \cup m.part]
        now == IF n.state = "partial" THEN buffered ELSE n
        done == Counted([now EXCEPT !.state = "complete"])
        With(node, status) == [h EXCEPT !.fl.nodes[m.type] = node, !.status = status]
    IN IF n.state = "partial" /\ ~n.held /\ fault = "malloc" THEN [h EXCEPT !.status = "malloc"]
       ELSE IF n.state = "partial" /\ n.seq # m.seq THEN With([n EXCEPT !.held = TRUE], "badseq")
       ELSE IF ~Whole(m.type, now.got) THEN With(now, "incomplete")
       ELSE [With(done, IF LimitReached(now) THEN "maxcount" ELSE "ok")
               EXCEPT !.opt = Noted(@, m.type)]

(* A message of flight f: into its node, or into a new one.  Only then does  *)
(* the handshake move to flight f.                                           *)
Buffer(h, f, m, fault) ==
    IF m.type \in DOMAIN h.fl.nodes
    THEN LET b == CheckAndBuffer(h, m, fault)
         IN IF b.status \in {"maxcount", "malloc"} THEN b ELSE [b EXCEPT !.flight = f]
    ELSE LET n == IF m.type = "ccs" THEN CipherSpecNode ELSE NewNode(m)
             whole == n.state = "complete"
         IN IF fault = "malloc" THEN [h EXCEPT !.flight = f, !.status = "malloc"]
            ELSE [h EXCEPT !.flight = f, !.fl.nodes = AddNode(@, m.type, n),
                           !.opt = IF whole THEN Noted(@, m.type) ELSE @,
                           !.status = IF whole THEN "ok" ELSE "incomplete"]

(* The places of a flight whose message has come, and those where it is whole. *)
Node(fl, i) == fl.nodes[Messages(fl.id)[i]]
Come(fl) == {i \in DOMAIN Messages(fl.id) : Messages(fl.id)[i] \in DOMAIN fl.nodes}
Complete(fl) == {i \in Come(fl) : Node(fl, i).state = "complete"}

(* The numbers of the complete messages follow each other from first on. *)
InSequence(fl, first) ==
    \A i \in Complete(fl) :
        Node(fl, i).seq = first + Cardinality({j \in Complete(fl) : j < i})

(* CheckFlight_Compl: all messages when the optional one has come, all but   *)
(* that one otherwise.  Before the first message of the server a flight may  *)
(* start at 0 or, after a lost HelloVerifyRequest, at 1.                     *)
FlightComplete(fl, rseq) ==
    /\ \A i \in DOMAIN Messages(fl.id) : i \in Complete(fl) \/ Optional(Messages(fl.id)[i])
    /\ \E first \in {rseq + 1} \cup (IF rseq = -1 THEN {1} ELSE {}) : InSequence(fl, first)

(* Variant: the messages present are complete. *)
Flight6NotPartial(fl) == \A t \in DOMAIN fl.nodes : fl.nodes[t].state = "complete"

Flight6Complete(fl) ==
    /\ \A t \in DOMAIN fl.nodes : fl.nodes[t].state = "complete"
    /\ Cardinality(DOMAIN fl.nodes) = Len(Messages(6))

LastSeq(fl) == Node(fl, Max(Come(fl))).seq

(* The messages of a whole flight go to the chip one by one.  Those already  *)
(* taken are processed when a later one fails.                               *)
GiveToChip(h, fault) ==
    LET processed == [t \in DOMAIN h.fl.nodes |-> [h.fl.nodes[t] EXCEPT !.state = "processed"]]
        given == [h EXCEPT !.fl.state = "received", !.chip = Append(@, h.fl.id)]
    IN IF fault \in {"chip", "interr", "hserr"}
       THEN [h EXCEPT !.fl.state = "received",
                      !.status = IF h.fl.id = 6 THEN fault ELSE "chip"]
       ELSE [given EXCEPT !.fl.nodes = processed, !.fl.state = "processed",
                          !.rseq = LastSeq(h.fl), !.status = "ok"]

ClearMessages(fl) ==
    [fl EXCEPT !.nodes = [t \in DOMAIN @ |->
        [@[t] EXCEPT !.held = FALSE, !.got = {}, !.state = "partial"]]]

-----------------------------------------------------------------------------
(* Handlers of the flights received; m.type is "ccs" for a cipher spec record *)

Status(h, status) == [h EXCEPT !.status = status]

(* Flight 2, the HelloVerifyRequest. *)
SeqOfFlight2(h, m) ==
    m.seq <= 1 /\ (m.type \in DOMAIN h.fl.nodes => h.fl.nodes[m.type].seq = m.seq)

Flight2Handler(h0, last, m, fault) ==
    LET h == IF h0.fl.state = "processed" THEN [h0 EXCEPT !.fl.state = "rereceive"] ELSE h0
        b == Buffer(h, 2, m, fault)
        done == GiveToChip(b, fault)
    IN IF ~InFlight(2, m.type) THEN Status(h, "notinflight")
       ELSE IF last \notin 1 .. 3 THEN Status(h, "procflight")
       ELSE IF ~SeqOfFlight2(h, m) THEN Status(h, "badseq")
       ELSE IF b.status \in {"maxcount", "malloc"} THEN b
       ELSE IF b.fl.nodes[m.type].state # "complete" THEN Status(b, "rxing")
       ELSE IF done.status # "ok" THEN done
       ELSE [done EXCEPT !.fl = ClearMessages(@)]

(* Flight 4, from ServerHello to ServerHelloDone: a message must have one of *)
(* the numbers its place in the flight allows.                               *)
SeqOfFlight4(rseq, m) ==
    LET place == Position(4, m.type)
        mandatory == Cardinality({i \in 1 .. place : ~Optional(Messages(4)[i])})
    IN \E base \in {rseq} \cup (IF rseq = -1 THEN {0} ELSE {}) :
           m.seq \in {base + place, base + mandatory}

FirstFlight4(h, last, m, fault) ==
    LET b == Buffer(h, 4, m, fault)
        done == GiveToChip(b, fault)
    IN IF last \notin 1 .. 5 THEN Status(h, "procflight")
       ELSE IF ~SeqOfFlight4(h.rseq, m) THEN Status(h, "badseq")
       ELSE IF b.status \in {"maxcount", "malloc"} THEN b
       ELSE IF ~FlightComplete(b.fl, b.rseq) THEN Status(b, "rxing")
       ELSE IF done.status # "ok" THEN done
       ELSE [done EXCEPT !.flight = 0, !.fl = ClearMessages(@)]

(* Flight 4 again: its fragments are only marked, and when all have come the *)
(* last flight of the client is sent again.                                  *)
SameMessage(fl, m) == m.type \in DOMAIN fl.nodes /\ fl.nodes[m.type].seq = m.seq

MarkAgain(fl, m) ==
    LET n == [fl.nodes[m.type] EXCEPT !.got = @ \cup m.part]
    IN [fl EXCEPT !.nodes[m.type] = IF Whole(m.type, n.got)
                                    THEN Counted([n EXCEPT !.state = "processed"]) ELSE n]

MarkReachesLimit(fl, m) ==
    /\ Whole(m.type, fl.nodes[m.type].got \cup m.part)
    /\ LimitReached(fl.nodes[m.type])

Flight4Again(h, m) ==
    LET marked == [h EXCEPT !.flight = 4, !.fl = MarkAgain(@, m)]
    IN IF ~SameMessage(h.fl, m) THEN Status(h, "ignore")
       ELSE IF MarkReachesLimit(h.fl, m) THEN Status(marked, "maxcount")
       ELSE IF \A t \in DOMAIN marked.fl.nodes : marked.fl.nodes[t].state = "processed"
       THEN [marked EXCEPT !.status = "ok",
                           !.fl = ClearMessages([@ EXCEPT !.state = "processed"])]
       ELSE Status(marked, "rxing")

Flight4Handler(h0, last, m, fault) ==
    LET again == h0.fl.state \in {"processed", "rereceive"}
        h == IF again THEN [h0 EXCEPT !.fl.state = "rereceive"] ELSE h0
    IN IF m.type = "ccs" \/ ~InFlight(4, m.type) \/ h.rl.dec THEN Status(h, "notinflight")
       ELSE IF again THEN Flight4Again(h, m) ELSE FirstFlight4(h, last, m, fault)

(* Flight 6, ChangeCipherSpec and Finished in any order.  A cipher spec      *)
(* message moves the server to its next epoch before anything else is known. *)
Flight6Handler(h0, last, m, fault) ==
    LET h == IF m.type = "ccs" THEN [h0 EXCEPT !.rl = ChangeServerState(@)] ELSE h0
        b == Buffer(h, 6, m, fault)
    IN IF ~InFlight(6, m.type) THEN Status(h, "notinflight")
       ELSE IF last \notin 4 .. 6 THEN Status(h, "procflight")
       ELSE IF m.type = "Finished" /\ m.seq # h.rseq + 1 THEN Status(h, "badseq")
       ELSE IF b.status \in {"maxcount", "malloc"} THEN b
       ELSE IF ~Flight6Complete(b.fl) THEN Status(b, "rxing")
       ELSE IF b.status # "ok" THEN b
       ELSE GiveToChip(b, fault)

FlightHandler(h, last, m, fault) ==
    CASE h.fl.id = 2 -> Flight2Handler(h, last, m, fault)
      [] h.fl.id = 4 -> Flight4Handler(h, last, m, fault)
      [] h.fl.id = 6 -> Flight6Handler(h, last, m, fault)
=============================================================================
