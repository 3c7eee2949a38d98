-------------------------------- MODULE HttpUrl --------------------------------
(* URLs of requests: the second parser of http_parser.c, the parts ParsedUrl  *)
(* keeps of a URL, and the head of the request HttpRequestBuilder makes of    *)
(* them.  A URL is a sequence of one-letter strings.                          *)
EXTENDS Integers, Sequences, FiniteSets, SequencesExt

CONSTANTS
    Http, Https,        \* the two schemas, as letters
    MaxPort             \* 0xffff

Numerals == "0" :> 0 @@ "1" :> 1 @@ "2" :> 2 @@ "3" :> 3 @@ "4" :> 4
Alpha == {"h", "t", "s", "a", "b", "u", "q", "f"}
Alphanum == Alpha \cup DOMAIN Numerals
UserinfoChar == Alphanum \cup {"-", ".", "%", ":", "="}
HostChar == Alphanum \cup {"-", "."}
HexChar == DOMAIN Numerals \cup {"a", "b", "f"}
UrlChar == UserinfoChar \cup {"/", "@", "[", "]"}

-----------------------------------------------------------------------------
(* parse_url_char: where one more character of a URL leads. *)
UrlState(s, c) ==
    CASE s = "before" /\ c \in {"/", "*"} -> "path"
      [] s = "before" /\ c \in Alpha -> "schema"
      [] s = "schema" /\ c \in Alpha -> s
      [] s = "schema" /\ c = ":" -> "schema_slash"
      [] s = "schema_slash" /\ c = "/" -> "schema_slash_slash"
      [] s = "schema_slash_slash" /\ c = "/" -> "server_start"
      [] s \in {"server_start", "server", "server_with_at"} /\ c = "/" -> "path"
      [] s \in {"server_start", "server", "server_with_at"} /\ c = "?" -> "query_start"
      [] s \in {"server_start", "server"} /\ c = "@" -> "server_with_at"
      [] s \in {"server_start", "server", "server_with_at"} /\ c \in UserinfoChar \cup {"[", "]"} -> "server"
      [] s = "path" /\ c \in UrlChar -> s
      [] s = "path" /\ c = "?" -> "query_start"
      [] s \in {"query_start", "query"} /\ c \in UrlChar \cup {"?"} -> "query"
      [] s \in {"path", "query_start", "query"} /\ c = "#" -> "fragment_start"
      [] s = "fragment_start" /\ c = "#" -> s
      [] s \in {"fragment_start", "fragment"} /\ c \in UrlChar \cup {"?"} -> "fragment"
      [] s = "fragment" /\ c = "#" -> s
      [] OTHER -> "dead"

(* http_parse_host_char *)
HostState(s, c) ==
    CASE s \in {"userinfo_start", "userinfo"} /\ c = "@" -> "host_start"
      [] s \in {"userinfo_start", "userinfo"} /\ c \in UserinfoChar -> "userinfo"
      [] s = "host_start" /\ c = "[" -> "v6_start"
      [] s \in {"host_start", "host"} /\ c \in HostChar -> "host"
      [] s \in {"host", "v6_end"} /\ c = ":" -> "port_start"
      [] s \in {"v6", "zone"} /\ c = "]" -> "v6_end"
      [] s \in {"v6_start", "v6"} /\ c \in HexChar \cup {":", "."} -> "v6"
      [] s = "v6" /\ c = "%" -> "zone_start"
      [] s \in {"zone_start", "zone"} /\ c \in Alphanum \cup {"%", ".", "-"} -> "zone"
      [] s \in {"port_start", "port"} /\ c \in DOMAIN Numerals -> "port"
      [] OTHER -> "dead"

-----------------------------------------------------------------------------
(* http_parser_url: the fields that are set, and where each one lies. *)

NoFields == [f \in {"schema", "host", "path", "query", "fragment", "userinfo", "port"} |->
                [set |-> FALSE, off |-> 0, len |-> 0]]
Open(u, f, at) == [u EXCEPT ![f] = [set |-> TRUE, off |-> at, len |-> 1]]
Grow(u, f) == [u EXCEPT ![f].len = @ + 1]

FieldOf(s) == CASE s \in {"server", "server_with_at"} -> "host"
                [] s \in {"schema", "path", "query", "fragment"} -> s
                [] OTHER -> "none"

FirstPassBlind(url) ==
    LET Step(p, i) ==
            LET s == UrlState(p.s, url[i])
                f == FieldOf(s)
            IN IF p.s = "dead" \/ s = "dead" THEN [p EXCEPT !.s = "dead"]
               ELSE [p EXCEPT !.s = s, !.last = IF f = "none" THEN @ ELSE f,
                              !.u = CASE f = "none" -> @
                                      [] f # "none" /\ f = p.last -> Grow(@, f)
                                      [] OTHER -> Open(@, f, i)]
    IN FoldLeft(Step, [s |-> "before", last |-> "none", at |-> FALSE, u |-> NoFields],
                [i \in DOMAIN url |-> i])

(* The first pass: p is [s, last, at, u, dead], position i is 1-based. *)
FirstPass(url) ==
    LET Step(p, i) ==
            LET s == UrlState(p.s, url[i])
                f == FieldOf(s)
            IN IF p.s = "dead" \/ s = "dead" THEN [p EXCEPT !.s = "dead"]
               ELSE [p EXCEPT !.s = s, !.at = @ \/ s = "server_with_at",
                              !.last = IF f = "none" THEN @ ELSE f,
                              !.u = CASE f = "none" -> @
                                      [] f # "none" /\ f = p.last -> Grow(@, f)
                                      [] OTHER -> Open(@, f, i)]
    IN FoldLeft(Step, [s |-> "before", last |-> "none", at |-> FALSE, u |-> NoFields],
                [i \in DOMAIN url |-> i])

(* http_parse_host: the server part once more, for user, host and port. *)
HostPass(url, u0, foundAt) ==
    LET whole == u0["host"]
        Field(s) == CASE s \in {"host", "v6", "zone_start", "zone"} -> "host"
                      [] s \in {"port", "userinfo"} -> s
                      [] OTHER -> "none"
        Step(p, k) ==
            LET i == whole.off + k - 1
                s == HostState(p.s, url[i])
                f == Field(s)
            IN IF p.s = "dead" \/ s = "dead" THEN [p EXCEPT !.s = "dead"]
               ELSE [p EXCEPT !.s = s,
                              !.u = CASE f = "none" -> @
                                      [] f = "host" /\ s \in {"host", "v6"} /\ s # p.s ->
                                           [@ EXCEPT !["host"].off = i, !["host"].len = @ + 1]
                                      [] f \in {"port", "userinfo"} /\ s # p.s -> Open(@, f, i)
                                      [] OTHER -> Grow(@, f)]
        last == FoldLeft(Step, [s |-> IF foundAt THEN "userinfo_start" ELSE "host_start",
                                u |-> [u0 EXCEPT !["host"].len = 0]],
                         [k \in 1..whole.len |-> k])
    IN [u |-> last.u, ok |-> last.s \in {"host", "v6_end", "port"}]

Text(url, field) ==
    IF field.set THEN SubSeq(url, field.off, field.off + field.len - 1) ELSE <<>>

(* strtoul *)
PortNumber(digits) ==
    LET Add(n, c) == IF n > MaxPort THEN n ELSE 10 * n + Numerals[c] IN FoldLeft(Add, 0, digits)

(* http_parser_parse_url: an error leaves what was found up to there. *)
WithPort(u, ok, port) ==
    [u |-> u, port |-> IF ok /\ port <= MaxPort THEN port ELSE 0]
ParseServer(url, host) == WithPort(host.u, host.ok, PortNumber(Text(url, host.u["port"])))
ParseFields(url, first) ==
    IF first.s = "dead" \/ ~first.u["host"].set THEN [u |-> first.u, port |-> 0]
    ELSE ParseServer(url, HostPass(url, first.u, first.at))

ParseUrl(url) == ParseFields(url, FirstPass(url))

(* The parts kept of a URL: the path and the port have a default. *)
KeptParts(url, parsed) ==
    LET Part(f) == Text(url, parsed.u[f])
        DefaultPort == IF Part("schema") = Https THEN 443 ELSE 80
    IN [schema |-> Part("schema"), host |-> Part("host"), query |-> Part("query"),
        userinfo |-> Part("userinfo"),
        path |-> IF Part("path") = <<>> THEN <<"/">> ELSE Part("path"),
        port |-> IF parsed.port = 0 THEN DefaultPort ELSE parsed.port]

ParsedUrl(url) == KeptParts(url, ParseUrl(url))

-----------------------------------------------------------------------------
(* The Host header: the port is named when it is not the schema's own. *)
HostHeader(url) ==
    [host |-> url.host,
     port |-> IF \/ url.schema = Http /\ url.port # 80
                 \/ url.schema = Https /\ url.port # 443 THEN url.port ELSE 0]

(* The first line and the headers the builder adds; -1 stands for none. *)
RequestHead(url, bodySize, method, chunked) ==
    [path |-> url.path, query |-> url.query, host |-> HostHeader(url),
     length |-> IF ~chunked /\ (method \in {"POST", "PUT", "DELETE"} \/ bodySize > 0)
                THEN bodySize ELSE -1]
=============================================================================
