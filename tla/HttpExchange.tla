------------------------------ MODULE HttpExchange ------------------------------
(* HttpsRequest over a TLS socket it makes itself: connect, send the request   *)
(* in as many pieces as the socket takes, and give the parser what comes back  *)
(* as the socket cuts it, until the message is complete, the server closes or  *)
(* the parser refuses.                                                         *)
EXTENDS HttpParser, HttpUrl

CONSTANTS
    Exchanges,          \* the URLs a request may be made for, with what the server answers
    MaxPiece            \* the most the socket delivers at once, short of everything

VARIABLES
    url,                \* the URL the request is for: its parts and how it is written
    req,                \* HttpRequestBase: the parsed URL, _response, _error, what send is at
    q,                  \* the parser and the response it fills
    msg, rest           \* the server: its answer, and what is still to be delivered of it

HttpVars == <<url, req, q, msg, rest>>

-----------------------------------------------------------------------------
(* The server: how a message is written.  A field is written on two lines    *)
(* when "fold" is its second part.                                           *)

Crlf == <<"CR", "LF">>
FieldText(f) ==
    f.name \o <<":", " ">> \o f.value \o Crlf
      \o (IF f.fold = <<>> THEN <<>> ELSE <<" ">> \o f.fold \o Crlf)
Framing(m) ==
    CASE m.framing = "length" -> FieldText([name |-> ContentLength, value |-> m.size, fold |-> <<>>])
      [] m.framing = "chunked" -> FieldText([name |-> TransferEncoding, value |-> Chunked, fold |-> <<>>])
      [] OTHER -> <<>>
BodyText(m) ==
    CASE m.framing = "length" -> m.body
      [] m.framing = "chunked" ->
           (IF m.body = <<>> THEN <<>> ELSE m.size \o Crlf \o m.body \o Crlf)
             \o <<"0">> \o Crlf \o FlattenSeq([i \in DOMAIN m.trailer |-> FieldText(m.trailer[i])]) \o Crlf
      [] m.framing = "eof" -> m.body
      [] OTHER -> <<>>
HeadText(m) ==
    <<"H", "T", "T", "P", "/", "1", ".", "1", " ">> \o m.code
      \o (IF m.reason = <<>> THEN <<>> ELSE <<" ">> \o m.reason) \o Crlf
      \o FlattenSeq([i \in DOMAIN m.fields |-> FieldText(m.fields[i])]) \o Framing(m) \o Crlf
MessageText(m) == IF m.framing = "silent" THEN <<>> ELSE HeadText(m) \o BodyText(m) \o m.after

(* What a server sends is a sequence of characters, of any length. *)
ASSUME ExchangeAssumption == \A e \in Exchanges : MessageText(e.msg) \in Seq(STRING)

-----------------------------------------------------------------------------
(* The request *)

HttpInit ==
    /\ \E e \in Exchanges : url = e.url /\ msg = e.msg
    /\ req = [phase |-> "none", parts |-> <<>>, head |-> <<>>, todo |-> <<>>, whole |-> TRUE,
              response |-> FALSE, result |-> "none", error |-> 0]
    /\ q = ParserInit /\ rest = <<>>

(* The constructor: the URL is parsed and the Host header made of it. *)
Construct ==
    /\ req.phase = "none"
    /\ \E parts \in {ParsedUrl(url.text)} :
          req' = [req EXCEPT !.phase = "ready", !.parts = parts,
                             !.head = RequestHead(parts, 0, "POST", FALSE)]
    /\ UNCHANGED <<url, q, msg, rest>>

Return(result, error) ==
    [req EXCEPT !.phase = "ready", !.todo = <<>>, !.result = result, !.error = error]

(* send(): once there is a response, whatever became of it, the object is spent. *)
SendAgain ==
    /\ req.phase = "ready" /\ req.response /\ req.error # -2100
    /\ req' = Return("NULL", -2100)
    /\ UNCHANGED <<url, q, msg, rest>>

SocketFails ==
    /\ req.phase = "ready" /\ ~req.response
    /\ req' = Return("NULL", -3001)
    /\ UNCHANGED <<url, q, msg, rest>>

(* The buffers a request is made of: all of it, or the head and then, for    *)
(* each chunk, its size, its data and a line end.                            *)
Buffers == {<<2>>, <<2, 1, 2, 1, 1>>}

Connect ==
    /\ req.phase = "ready" /\ ~req.response
    /\ \E buffers \in Buffers :
         req' = [req EXCEPT !.phase = "sending", !.todo = buffers, !.whole = TRUE]
    /\ UNCHANGED <<url, q, msg, rest>>

(* A buffer is done: the next one, or the answer. *)
Proceed(todo, whole) ==
    IF todo # <<>> THEN req' = [req EXCEPT !.todo = todo, !.whole = whole] /\ UNCHANGED <<q, rest>>
    ELSE /\ req' = [req EXCEPT !.phase = "receiving", !.todo = <<>>, !.whole = whole,
                               !.response = TRUE]
         /\ q' = ParserInit
         /\ rest' = IF whole THEN MessageText(msg) ELSE <<>>

SendSome ==
    /\ req.phase = "sending"
    /\ \E n \in 1..Head(req.todo) :
         Proceed(IF n = Head(req.todo) THEN Tail(req.todo)
                 ELSE <<Head(req.todo) - n>> \o Tail(req.todo), req.whole)
    /\ UNCHANGED <<url, msg>>

(* Nothing taken ends the buffer, and counts as having sent it. *)
SendNothing ==
    /\ req.phase = "sending"
    /\ Proceed(Tail(req.todo), FALSE)
    /\ UNCHANGED <<url, msg>>

SendError ==
    /\ req.phase = "sending"
    /\ req' = Return("NULL", -3012)
    /\ UNCHANGED <<url, q, msg, rest>>

(* create_http_response: one turn of the loop. *)
Receive(n) ==
    /\ req.phase = "receiving" /\ n <= Len(rest)
    /\ q' = Execute(q, SubSeq(rest, 1, n))
    /\ rest' = SubSeq(rest, n + 1, Len(rest))
    /\ req' = IF StopsShort(q, SubSeq(rest, 1, n)) THEN Return("NULL", -2101)
              ELSE IF q'.resp.complete THEN Return("response", req.error) ELSE req
    /\ UNCHANGED <<url, msg>>

ReceivePiece == \E n \in 1..MaxPiece : Receive(n)
ReceiveRest == Len(rest) > MaxPiece /\ Receive(Len(rest))

ReceiveEndGoesOn ==
    /\ req.phase = "receiving"
    /\ q' = Finish(q)
    /\ UNCHANGED <<url, req, msg, rest>>

(* The end of the stream, wherever it falls: finish() and its verdict is not asked for. *)
ReceiveEnd ==
    /\ req.phase = "receiving"
    /\ q' = Finish(q)
    /\ req' = Return("response", req.error)
    /\ UNCHANGED <<url, msg, rest>>

ReceiveError ==
    /\ req.phase = "receiving"
    /\ req' = Return("NULL", -3004)
    /\ UNCHANGED <<url, q, msg, rest>>

SendCall == SendSome \/ SendNothing
ReceiveCall == ReceivePiece \/ ReceiveRest \/ ReceiveEnd
HttpNext == \/ Construct \/ SendAgain \/ SocketFails \/ Connect
        \/ SendCall \/ SendError \/ ReceiveCall \/ ReceiveError

(* Each call of the socket returns: the server takes the request, and answers *)
(* or closes.  No error is needed for send() to end.                          *)
HttpFairness == WF_HttpVars(SendCall) /\ WF_HttpVars(ReceiveCall)

HttpSpec == HttpInit /\ [][HttpNext]_HttpVars /\ HttpFairness
-----------------------------------------------------------------------------
(* Properties *)

(* The parser is in a state of its own, its response pairs names and values,  *)
(* and only a call that went wrong has an error.                              *)
HttpTypeOK ==
    /\ req.phase \in {"none", "ready", "sending", "receiving"}
    /\ req.result \in {"none", "NULL", "response"}
    /\ req.result = "NULL" => req.error # 0
    /\ (req.phase = "sending") <=> (req.todo # <<>>)
    /\ q.mark \in {"none", "status", "field", "value", "body"}
    /\ ~Rejected(q) => Len(q.resp.fields) - Len(q.resp.values) \in {0, 1}

Folded(f) == IF f.fold = <<>> THEN f.value ELSE f.value \o <<" ">> \o f.fold
AllFields(m) ==
    m.fields \o (CASE m.framing = "length" -> <<[name |-> ContentLength, value |-> m.size, fold |-> <<>>]>>
                   [] m.framing = "chunked" ->
                        <<[name |-> TransferEncoding, value |-> Chunked, fold |-> <<>>]>> \o m.trailer
                   [] OTHER -> <<>>)

(* However the answer was cut, a response that says it is complete has the    *)
(* answer's body, its fields, and its code unless the server gave no reason   *)
(* (on_status is then not called, and the code stays 0).  An answer that ends *)
(* with the stream is as long as what came of it.                             *)
CompleteIsFaithful ==
    req.phase = "ready" /\ req.result = "response" /\ q.resp.complete =>
        LET fields == AllFields(msg) IN
        /\ q.resp.body \o (IF msg.framing = "eof" THEN rest ELSE <<>>) = msg.body
        /\ q.resp.fields = [i \in DOMAIN fields |-> fields[i].name]
        /\ q.resp.values = [i \in DOMAIN fields |-> Folded(fields[i])]
        /\ q.resp.code = IF msg.reason = <<>> THEN 0
                         ELSE 100 * Digits[msg.code[1]] + 10 * Digits[msg.code[2]] + Digits[msg.code[3]]

(* An answer that keeps to the rules is refused only for the size of its      *)
(* headers, as the parser counts it, wherever it is cut.                      *)
RefusedForAReason == req.error = -2101 => msg.malformed \/ q.errno = "overflow"

(* A cut in a name or a value is counted as one more character: headers with  *)
(* room for that are never too long, into however many pieces they are cut.   *)
CountIsBounded ==
    LET fields == AllFields(msg)
        inside == FoldLeft(LAMBDA n, f : n + Len(f.name) + Len(Folded(f)), 0, fields)
    IN q.errno = "overflow" => Len(HeadText(msg)) + inside > MaxHeader

(* The assertions of http_parser.c hold at each character.                    *)
AssertionsHold == q.asserts

(* Only the last part of an answer can be missing when the stream ends: what  *)
(* was handed over is a beginning of the body that was sent.                  *)
BodyIsPrefix == ~msg.malformed => IsPrefix(q.resp.body, msg.body)

(* What the caller gets of an answer, cut anywhere: complete and faithful, a  *)
(* beginning of it, or refused for a reason the bounds name.                  *)
AnswerIsFaithful == CompleteIsFaithful /\ RefusedForAReason /\ CountIsBounded /\ BodyIsPrefix

(* The parts of a URL are those it was written from, and the Host header      *)
(* names them; a port that cannot be is the schema's own.                     *)
UrlTakenApart ==
    req.phase # "none" =>
        LET own == IF url.schema = Https THEN 443 ELSE 80
            port == IF url.port \in 1..MaxPort THEN url.port ELSE own
        IN /\ req.parts = [schema |-> url.schema, host |-> url.host, query |-> url.query,
                           userinfo |-> url.userinfo, port |-> port,
                           path |-> IF url.path = <<>> THEN <<"/">> ELSE url.path]
           /\ req.head.host = [host |-> url.host, port |-> IF port = own THEN 0 ELSE port]

(* send() returns. *)
SendReturns == (req.phase \in {"sending", "receiving"}) ~> (req.phase = "ready")
=============================================================================
