------------------------------ MODULE HttpParser ------------------------------
(* The response parser of lib/HTTP (http_parser.c, built strict) with the    *)
(* object it fills (HttpParser, HttpResponse).  A message comes in buffers   *)
(* cut anywhere; between two of them all that is known is the parser q, so   *)
(* each state consumes one character.  Characters are one-letter strings;    *)
(* header names and tokens are sequences of letters given as constants.      *)
EXTENDS Integers, Sequences, FiniteSets, SequencesExt

CONSTANTS
    ContentLength, TransferEncoding, Connection, ProxyConnection, UpgradeField,
    Chunked, KeepAlive, Close, UpgradeToken,    \* names and values the parser knows
    MaxHeader,          \* HTTP_MAX_HEADER_SIZE
    MaxLength           \* ULLONG_MAX, which stands for "no length" as well

ASSUME HttpAssumption == MaxHeader \in Nat /\ MaxLength \in Nat /\ MaxLength > 16

Digits == [c \in {"0", "1", "2", "3", "4"} |->
              CASE c = "0" -> 0 [] c = "1" -> 1 [] c = "2" -> 2 [] c = "3" -> 3 [] c = "4" -> 4]
IsNum(c) == c \in DOMAIN Digits
Hex == [c \in DOMAIN Digits \cup {"a"} |-> IF c = "a" THEN 10 ELSE Digits[c]]
Letters == {"c", "n", "l", "t", "e", "x", "p", "u", "h", "k", "o", "d", "a"}
Token(c) == c \in Letters \/ IsNum(c) \/ c = "-"
HeaderChar(c) == c # "bad"

FieldKind(w) ==
    CASE w \in {Connection, ProxyConnection} -> "connection"
      [] w = ContentLength -> "length"
      [] w = TransferEncoding -> "encoding"
      [] w = UpgradeField -> "upgrade"
      [] OTHER -> "matching"
FieldNames == {Connection, ProxyConnection, ContentLength, TransferEncoding, UpgradeField}

TokenKind(w) ==
    CASE w = KeepAlive -> "is_keepalive"
      [] w = Close -> "is_close"
      [] w = UpgradeToken -> "is_upgrade"
      [] OTHER -> "matching_token"
TokenNames == {KeepAlive, Close, UpgradeToken}

Prefix(w, names) == \E n \in names : IsPrefix(w, n)

-----------------------------------------------------------------------------
(* HttpResponse: what the callbacks of the parser build *)

EmptyResponse ==
    [code |-> 0, reason |-> <<>>, fields |-> <<>>, values |-> <<>>,
     concatfield |-> FALSE, concatvalue |-> FALSE, expected |-> 0, chunked |-> FALSE,
     complete |-> FALSE, body |-> <<>>]

SetStatus(r, code, text) == [r EXCEPT !.code = code, !.reason = text]

SetHeaderField(r, text) ==
    [r EXCEPT !.concatvalue = FALSE, !.concatfield = TRUE,
              !.fields = IF r.concatfield THEN [@ EXCEPT ![Len(@)] = @ \o text]
                         ELSE Append(@, text)]

SetHeaderValue(r, text) ==
    [r EXCEPT !.concatfield = FALSE, !.concatvalue = TRUE,
              !.values = IF r.concatvalue THEN [@ EXCEPT ![Len(@)] = @ \o text]
                         ELSE Append(@, text)]

(* atoi *)
Number(text) ==
    LET Add(acc, c) == IF acc.on /\ IsNum(c) THEN [acc EXCEPT !.n = @ * 10 + Digits[c]]
                       ELSE [acc EXCEPT !.on = FALSE]
    IN FoldLeft(Add, [on |-> TRUE, n |-> 0], text).n

SetHeadersComplete(r) ==
    LET lengths == {i \in DOMAIN r.fields : r.fields[i] = ContentLength}
    IN IF lengths = {} THEN r
       ELSE [r EXCEPT !.expected = Number(r.values[Min(lengths)])]

SetBody(r, text) ==
    [r EXCEPT !.chunked = @ \/ (r.expected = 0 /\ text # <<>>), !.body = @ \o text]

-----------------------------------------------------------------------------
(* The parser *)

ParserInit ==
    [state |-> "start_res", hs |-> "general", word |-> <<>>, flags |-> {},
     length |-> 0, nread |-> 0, errno |-> "ok", major |-> 0, minor |-> 0, code |-> 0,
     upgrade |-> FALSE, stop |-> FALSE,
     mark |-> "none", text |-> <<>>,     \* the field marked in this buffer, up to here
     run |-> "none",                     \* how far this pass over a name or value is checked
     asserts |-> TRUE, resp |-> EmptyResponse]

To(q, s) == [q EXCEPT !.state = s, !.run = "none"]
Fails(q, e) == [q EXCEPT !.errno = e]
Asserting(q, p) == [q EXCEPT !.asserts = @ /\ p]

(* At most one of the marks is set. *)
Mark(q, kind) ==
    IF q.mark = "none" THEN [q EXCEPT !.mark = kind, !.text = <<>>] ELSE Asserting(q, q.mark = kind)
Take(q, c) == [q EXCEPT !.text = Append(@, c)]

(* CALLBACK_DATA: hands over what was marked, and never after an error. *)
Deliver(q) ==
    LET r == q.resp
    IN [Asserting(q, q.errno = "ok") EXCEPT !.mark = "none", !.text = <<>>,
                 !.resp = CASE q.mark = "status" -> SetStatus(r, q.code, q.text)
                            [] q.mark = "field" -> SetHeaderField(r, q.text)
                            [] q.mark = "value" -> SetHeaderValue(r, q.text)
                            [] q.mark = "body" -> SetBody(r, q.text)
                            [] OTHER -> r]

NeedsEof(q) ==
    /\ q.code \div 100 # 1 /\ q.code \notin {204, 304}
    /\ "chunked" \notin q.flags /\ q.length = MaxLength

ShouldKeepAlive(q) ==
    /\ IF q.major > 0 /\ q.minor > 0 THEN "close" \notin q.flags ELSE "keepalive" \in q.flags
    /\ ~NeedsEof(q)

NewMessage(q) == IF ShouldKeepAlive(q) THEN "start_res" ELSE "dead"
MessageComplete(q) ==
    [Asserting(To(q, NewMessage(q)), q.errno = "ok") EXCEPT !.resp.complete = TRUE]

-----------------------------------------------------------------------------
(* The status line *)

Constant(q, c, expected, next) == IF c = expected THEN To(q, next) ELSE Fails(q, "strict")

StartRes(q0, c) ==
    LET q == [q0 EXCEPT !.flags = {}, !.length = MaxLength]
    IN CASE c = "H" -> To(q, "res_H")
         [] c \in {"CR", "LF"} -> q
         [] OTHER -> Fails(q, "constant")

Version(q, c) ==
    LET n == IF IsNum(c) THEN Digits[c] ELSE 0
    IN CASE q.state = "res_major" /\ c = "." -> To(q, "res_first_minor")
         [] q.state = "res_minor" /\ c = " " -> To(q, "res_first_code")
         [] ~IsNum(c) /\ ~(q.state = "res_major" /\ c = ".") /\ ~(q.state = "res_minor" /\ c = " ") ->
              Fails(q, "version")
         [] OTHER ->
              CASE q.state = "res_first_major" -> [To(q, "res_major") EXCEPT !.major = n]
                [] q.state = "res_first_minor" -> [To(q, "res_minor") EXCEPT !.minor = n]
                [] q.state = "res_major" -> IF q.major * 10 + n > 999 THEN Fails(q, "version")
                                            ELSE [q EXCEPT !.major = @ * 10 + n]
                [] q.state = "res_minor" -> IF q.minor * 10 + n > 999 THEN Fails(q, "version")
                                            ELSE [q EXCEPT !.minor = @ * 10 + n]

FirstCode(q, c) ==
    CASE IsNum(c) -> [To(q, "res_code") EXCEPT !.code = Digits[c]]
      [] c = " " -> q
      [] OTHER -> Fails(q, "status")

Code(q, c) ==
    CASE IsNum(c) -> IF q.code * 10 + Digits[c] > 999 THEN Fails(q, "status")
                     ELSE [q EXCEPT !.code = @ * 10 + Digits[c]]
      [] c = " " -> To(q, "res_status_start")
      [] c = "CR" -> To(q, "res_line_almost_done")
      [] c = "LF" -> To(q, "field_start")
      [] OTHER -> Fails(q, "status")

StatusStart(q, c) ==
    CASE c = "CR" -> To(q, "res_line_almost_done")
      [] c = "LF" -> To(q, "field_start")
      [] OTHER -> Take(Mark(To(q, "res_status"), "status"), c)

StatusText(q, c) ==
    CASE c = "CR" -> Deliver(To(q, "res_line_almost_done"))
      [] c = "LF" -> Deliver(To(q, "field_start"))
      [] OTHER -> Take(q, c)

StatusLine(q, c) ==
    CASE q.state = "start_res" -> StartRes(q, c)
      [] q.state = "res_H" -> Constant(q, c, "T", "res_HT")
      [] q.state = "res_HT" -> Constant(q, c, "T", "res_HTT")
      [] q.state = "res_HTT" -> Constant(q, c, "P", "res_HTTP")
      [] q.state = "res_HTTP" -> Constant(q, c, "/", "res_first_major")
      [] q.state \in {"res_first_major", "res_major", "res_first_minor", "res_minor"} -> Version(q, c)
      [] q.state = "res_first_code" -> FirstCode(q, c)
      [] q.state = "res_code" -> Code(q, c)
      [] q.state = "res_status_start" -> StatusStart(q, c)
      [] q.state = "res_status" -> StatusText(q, c)
      [] q.state = "res_line_almost_done" -> Constant(q, c, "LF", "field_start")

-----------------------------------------------------------------------------
(* The end of the headers *)

HeadersDoneCounted(q, c) ==
    LET hasBody == "chunked" \in q.flags \/ q.length \notin {0, MaxLength}
    IN CASE c # "LF" -> Fails(q, "strict")
         [] c = "LF" /\ q.upgrade /\ ~hasBody -> [MessageComplete(q) EXCEPT !.stop = TRUE]
         [] OTHER ->
              CASE "chunked" \in q.flags -> To(q, "chunk_size_start")
                [] "chunked" \notin q.flags /\ q.length = 0 -> MessageComplete(q)
                [] "chunked" \notin q.flags /\ q.length \notin {0, MaxLength} -> To(q, "body_identity")
                [] OTHER -> IF NeedsEof(q) THEN To(q, "body_identity_eof") ELSE MessageComplete(q)

HeadersDone(q0, c) ==
    LET q == [q0 EXCEPT !.nread = 0]
        hasBody == "chunked" \in q.flags \/ q.length \notin {0, MaxLength}
    IN CASE c # "LF" -> Fails(q0, "strict")
         [] c = "LF" /\ q.upgrade /\ ~hasBody -> [MessageComplete(q) EXCEPT !.stop = TRUE]
         [] OTHER ->
              CASE "chunked" \in q.flags -> To(q, "chunk_size_start")
                [] "chunked" \notin q.flags /\ q.length = 0 -> MessageComplete(q)
                [] "chunked" \notin q.flags /\ q.length \notin {0, MaxLength} -> To(q, "body_identity")
                [] OTHER -> IF NeedsEof(q) THEN To(q, "body_identity_eof") ELSE MessageComplete(q)

MessageDone(q) == [MessageComplete(q) EXCEPT !.stop = q.upgrade]

HeadersAlmostDone(q, c) ==
    CASE c # "LF" -> Fails(q, "strict")
      [] c = "LF" /\ "trailing" \in q.flags -> MessageDone(q)
      [] c = "LF" /\ {"chunked", "length"} \subseteq q.flags -> Fails(q, "unexpected_length")
      [] OTHER -> HeadersDone([To(q, "headers_done") EXCEPT
                                 !.upgrade = {"upgrade", "c_upgrade"} \subseteq q.flags,
                                 !.resp = SetHeadersComplete(@)], c)

-----------------------------------------------------------------------------
(* Header names *)

FieldStart(q, c) ==
    CASE c = "CR" -> To(q, "headers_almost_done")
      [] c = "LF" -> HeadersAlmostDone(To(q, "headers_almost_done"), c)
      [] c \notin {"CR", "LF"} /\ ~Token(c) -> Fails(q, "token")
      [] OTHER -> [Take(Mark(To(q, "field"), "field"), c) EXCEPT
                     !.word = <<c>>,
                     !.hs = IF Prefix(<<c>>, FieldNames) THEN "matching" ELSE "general"]

Field(q, c) ==
    LET w == Append(q.word, c)
        hs == CASE q.hs = "matching" -> IF Prefix(w, FieldNames) THEN FieldKind(w) ELSE "general"
                [] OTHER -> "general"
        known == q.hs \in {"general", "matching", "connection", "length", "encoding", "upgrade"}
    IN CASE Token(c) -> [Take(Asserting(q, known), c) EXCEPT !.word = w, !.hs = hs, !.run = "checked"]
         [] c = ":" -> Deliver(To(q, "discard_ws"))
         [] OTHER -> Fails(q, "token")

-----------------------------------------------------------------------------
(* Header values *)

ValueStart(q, c) ==
    LET v == [Take(Mark(To(q, "value"), "value"), c) EXCEPT !.word = <<c>>]
    IN CASE q.hs = "upgrade" -> [v EXCEPT !.flags = @ \cup {"upgrade"}, !.hs = "general"]
         [] q.hs = "encoding" ->
              [v EXCEPT !.hs = IF Prefix(<<c>>, {Chunked}) THEN "matching_chunked" ELSE "general"]
         [] q.hs = "length" ->
              CASE ~IsNum(c) -> Fails(v, "length")
                [] IsNum(c) /\ "length" \in q.flags -> Fails(v, "unexpected_length")
                [] OTHER -> [v EXCEPT !.flags = @ \cup {"length"}, !.length = Digits[c]]
         [] q.hs = "connection" ->
              [v EXCEPT !.hs = IF Prefix(<<c>>, TokenNames) THEN "matching_token" ELSE "token"]
         [] q.hs = "token_start" -> v
         [] OTHER -> [v EXCEPT !.hs = "general"]

FlagOf(hs) == CASE hs = "is_keepalive" -> {"keepalive"}
                [] hs = "is_close" -> {"close"}
                [] hs = "is_upgrade" -> {"c_upgrade"}
                [] hs = "is_chunked" -> {"chunked"}
                [] OTHER -> {}

(* One more character of a value, by what the value is. *)
ValueState(q, c) ==
    LET w == Append(q.word, c)
    IN CASE q.hs = "length" ->
              CASE c = " " -> q
                [] c # " " /\ ~IsNum(c) -> Fails(q, "length")
                [] OTHER -> IF (MaxLength - 10) \div 10 < q.length THEN Fails(q, "length")
                            ELSE [q EXCEPT !.length = @ * 10 + Digits[c]]
         [] q.hs = "matching_chunked" ->
              [q EXCEPT !.word = w, !.hs = CASE w = Chunked -> "is_chunked"
                                             [] w # Chunked /\ Prefix(w, {Chunked}) -> @
                                             [] OTHER -> "general"]
         [] q.hs = "is_chunked" -> IF c = " " THEN q ELSE [q EXCEPT !.hs = "general"]
         [] q.hs = "token_start" ->
              CASE Prefix(<<c>>, TokenNames) -> [q EXCEPT !.word = <<c>>, !.hs = "matching_token"]
                [] ~Prefix(<<c>>, TokenNames) /\ Token(c) -> [q EXCEPT !.hs = "token"]
                [] c = " " -> q
                [] OTHER -> [q EXCEPT !.hs = "general"]
         [] q.hs = "matching_token" ->
              [q EXCEPT !.word = w, !.hs = IF Prefix(w, TokenNames) THEN TokenKind(w) ELSE "token"]
         [] q.hs = "token" ->
              IF c = "," THEN [q EXCEPT !.hs = "token_start", !.word = <<>>] ELSE q
         [] q.hs \in {"is_keepalive", "is_close", "is_upgrade"} ->
              CASE c = "," -> [q EXCEPT !.flags = @ \cup FlagOf(q.hs), !.hs = "token_start", !.word = <<>>]
                [] c = " " -> q
                [] OTHER -> [q EXCEPT !.hs = "token"]
         [] q.hs \in {"connection", "encoding"} -> Asserting(q, FALSE)
         [] OTHER -> [q EXCEPT !.hs = "general"]

(* A general value is searched for its end after its first character, which  *)
(* is the only one that is looked at.                                        *)
ValueChar(q, c) ==
    IF q.run = "blind" THEN Take(q, c)
    ELSE IF ~HeaderChar(c) THEN Fails(q, "token")
    ELSE [Take(ValueState(q, c), c) EXCEPT !.run = IF q.hs = "general" THEN "blind" ELSE "checked"]

AlmostDone(q, c) == IF c = "LF" THEN To(q, "value_lws") ELSE Fails(q, "lf_expected")

Value(q, c) ==
    CASE c = "CR" -> Deliver(To(q, "almost_done"))
      [] c = "LF" -> AlmostDone(Deliver(To(q, "almost_done")), c)
      [] OTHER -> ValueChar(q, c)

(* A line that begins with white space goes on with the value. *)
ValueLws(q, c) ==
    IF c = " " THEN ValueStart(To(q, "value_start"), c)
    ELSE FieldStart([To(q, "field_start") EXCEPT !.flags = @ \cup FlagOf(q.hs)], c)

DiscardWs(q, c) ==
    CASE c = " " -> q
      [] c = "CR" -> To(q, "discard_ws_almost_done")
      [] c = "LF" -> To(q, "discard_lws")
      [] OTHER -> ValueStart(q, c)

DiscardLws(q, c) ==
    IF c = " " THEN To(q, "discard_ws")
    ELSE FieldStart(Deliver(Mark([To(q, "field_start") EXCEPT !.flags = @ \cup FlagOf(q.hs)], "value")), c)

Header(q, c) ==
    CASE q.state = "field_start" -> FieldStart(q, c)
      [] q.state = "field" -> Field(q, c)
      [] q.state = "discard_ws" -> DiscardWs(q, c)
      [] q.state = "discard_ws_almost_done" -> Constant(q, c, "LF", "discard_lws")
      [] q.state = "discard_lws" -> DiscardLws(q, c)
      [] q.state = "value" -> Value(q, c)
      [] q.state = "almost_done" -> AlmostDone(q, c)
      [] q.state = "value_lws" -> ValueLws(q, c)
      [] q.state = "headers_almost_done" -> HeadersAlmostDone(q, c)

-----------------------------------------------------------------------------
(* Bodies *)

BodyIdentity(q0, c) ==
    LET q == Asserting(q0, q0.length \notin {0, MaxLength})
        taken == [Take(Mark(q, "body"), c) EXCEPT !.length = @ - 1]
    IN IF taken.length = 0 THEN MessageDone(Deliver(To(taken, "message_done"))) ELSE taken

ChunkSizeStart(q0, c) ==
    LET q == Asserting(q0, q0.nread = 1)
    IN IF c \in DOMAIN Hex THEN [To(q, "chunk_size") EXCEPT !.length = Hex[c]]
       ELSE Fails(q, "chunk_size")

ChunkSize(q, c) ==
    CASE c = "CR" -> To(q, "chunk_size_almost_done")
      [] c \in {";", " "} -> To(q, "chunk_parameters")
      [] c \in DOMAIN Hex -> IF (MaxLength - 16) \div 16 < q.length THEN Fails(q, "length")
                             ELSE [q EXCEPT !.length = @ * 16 + Hex[c]]
      [] OTHER -> Fails(q, "chunk_size")

ChunkSizeAlmostDone(q, c) ==
    CASE c # "LF" -> Fails(q, "strict")
      [] OTHER -> [To(q, IF q.length = 0 THEN "field_start" ELSE "chunk_data") EXCEPT
                     !.nread = 0, !.flags = IF q.length = 0 THEN @ \cup {"trailing"} ELSE @,
                     !.resp.chunked = TRUE]

ChunkData(q0, c) ==
    LET q == Asserting(q0, q0.length \notin {0, MaxLength})
        taken == [Take(Mark(q, "body"), c) EXCEPT !.length = @ - 1]
    IN IF taken.length = 0 THEN To(taken, "chunk_data_almost_done") ELSE taken

ChunkDataAlmostDone(q, c) ==
    IF c = "CR" THEN Deliver(To(Asserting(q, q.length = 0), "chunk_data_done")) ELSE Fails(q, "strict")

ChunkDataDone(q, c) ==
    IF c = "LF" THEN [To(q, "chunk_size_start") EXCEPT !.nread = 0] ELSE Fails(q, "strict")

Body(q, c) ==
    CASE q.state = "body_identity" -> BodyIdentity(q, c)
      [] q.state = "body_identity_eof" -> Take(Mark(q, "body"), c)
      [] q.state = "chunk_size_start" -> ChunkSizeStart(q, c)
      [] q.state = "chunk_size" -> ChunkSize(q, c)
      [] q.state = "chunk_parameters" -> IF c = "CR" THEN To(q, "chunk_size_almost_done") ELSE q
      [] q.state = "chunk_size_almost_done" -> ChunkSizeAlmostDone(q, c)
      [] q.state = "chunk_data" -> ChunkData(q, c)
      [] q.state = "chunk_data_almost_done" -> ChunkDataAlmostDone(q, c)
      [] q.state = "chunk_data_done" -> ChunkDataDone(q, c)

-----------------------------------------------------------------------------
(* http_parser_execute *)

StatusStates == {"start_res", "res_H", "res_HT", "res_HTT", "res_HTTP", "res_first_major",
                 "res_major", "res_first_minor", "res_minor", "res_first_code", "res_code",
                 "res_status_start", "res_status", "res_line_almost_done"}
HeaderStates == {"field_start", "field", "discard_ws", "discard_ws_almost_done", "discard_lws",
                 "value", "almost_done", "value_lws", "headers_almost_done"}
ParsingHeader(q) ==
    q.state \in StatusStates \cup HeaderStates \cup
                {"dead", "chunk_size_start", "chunk_size", "chunk_parameters", "chunk_size_almost_done"}
ChunkStates == {"chunk_size_start", "chunk_size", "chunk_parameters", "chunk_size_almost_done",
                "chunk_data", "chunk_data_almost_done", "chunk_data_done"}

CountHeader(q, n) == IF q.nread + n > MaxHeader THEN Fails(q, "overflow") ELSE [q EXCEPT !.nread = @ + n]

Switch(q, c) ==
    CASE q.state = "dead" -> IF c \in {"CR", "LF"} THEN q ELSE Fails(q, "closed")
      [] q.state \in StatusStates -> StatusLine(q, c)
      [] q.state \in HeaderStates -> Header(q, c)
      [] OTHER -> Body(Asserting(q, q.state \in ChunkStates => "chunked" \in q.flags), c)

Feed(q, c) ==
    IF q.errno # "ok" \/ q.stop THEN [q EXCEPT !.errno = IF @ = "ok" THEN "stopped" ELSE @]
    ELSE LET counted == IF ParsingHeader(q) THEN CountHeader(q, 1) ELSE q
         IN IF counted.errno # "ok" THEN counted ELSE Switch(counted, c)

BufferStartUnmarked(q) == [q EXCEPT !.run = "none"]

(* A buffer that begins or ends in a name, a value or the reason: the part   *)
(* in it is handed over on its own.                                          *)
BufferStart(q) ==
    LET kind == CASE q.state = "field" -> "field" [] q.state = "value" -> "value"
                  [] q.state = "res_status" -> "status" [] OTHER -> "none"
    IN [Mark(q, kind) EXCEPT !.run = "none"]

BufferEnd(q) ==
    CASE q.errno # "ok" -> q
      [] q.errno = "ok" /\ q.state \in {"field", "value"} /\ q.run # "none" ->
           IF CountHeader(q, 1).errno # "ok" THEN CountHeader(q, 1) ELSE Deliver(CountHeader(q, 1))
      [] OTHER -> Deliver(q)

Rejected(q) == q.errno # "ok"

(* The parser behind the last character of a buffer. *)
Fed(q, buffer) ==
    LET fed[n \in 0..Len(buffer)] ==
            IF n = 0 THEN BufferStart(q) ELSE Feed(fed[n - 1], buffer[n])
    IN fed[Len(buffer)]

(* In an error state it does nothing. *)
Execute(q, buffer) == IF Rejected(q) THEN q ELSE BufferEnd(Fed(q, buffer))

(* Whether it takes less than the buffer.  A header found too long at the    *)
(* very end of a buffer is an error, but all of the buffer counts as taken.  *)
StopsShort(q, buffer) == Rejected(q) \/ Rejected(Fed(q, buffer))

(* Execution with no characters: the end of the stream. *)
Finish(q) ==
    CASE q.errno # "ok" -> q
      [] q.errno = "ok" /\ q.state = "body_identity_eof" -> [q EXCEPT !.resp.complete = TRUE]
      [] q.errno = "ok" /\ q.state \in {"dead", "start_res"} -> q
      [] OTHER -> Fails(q, "eof_state")
=============================================================================
