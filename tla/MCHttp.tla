--------------------------------- MODULE MCHttp ---------------------------------
(* Instances of HttpExchange for TLC: a few answers of each framing and URLs of  *)
(* each shape.                                                                   *)
EXTENDS HttpExchange

MCContentLength == <<"c", "n", "l">>
MCTransferEncoding == <<"t", "e">>
MCConnection == <<"c", "n", "c">>
MCProxyConnection == <<"p", "c">>
MCUpgradeField == <<"u", "p">>
MCChunked == <<"c", "h">>
MCKeepAlive == <<"k", "a">>
MCClose == <<"c", "l">>
MCUpgradeToken == <<"u", "p">>
MCHttpSchema == <<"h", "t">>
MCHttpsSchema == <<"h", "t", "s">>

Named(name, value, fold) == [name |-> name, value |-> value, fold |-> fold]
X(value) == Named(<<"x">>, value, <<>>)
Plain == [code |-> <<"2", "0", "0">>, reason |-> <<"o", "k">>, fields |-> <<>>, framing |-> "length",
          size |-> <<"2">>, body |-> <<"d", "a">>, trailer |-> <<>>, after |-> <<>>, malformed |-> FALSE]
Chunks == [Plain EXCEPT !.framing = "chunked"]

MCMessages ==
    {Plain,
     [Plain EXCEPT !.size = <<"1", "2">>, !.body = [i \in 1..12 |-> IF i = 1 THEN "a" ELSE "d"], !.reason = <<>>],
     [Plain EXCEPT !.fields = <<Named(<<"x">>, <<"a", "d">>, <<"h", "o">>)>>, !.size = <<"0">>, !.body = <<>>],
     [Plain EXCEPT !.fields = <<Named(MCConnection, MCClose, <<>>)>>, !.after = Crlf],
     [Plain EXCEPT !.fields = <<Named(MCConnection, MCKeepAlive \o <<",", " ">> \o MCUpgradeToken, <<>>)>>,
                   !.code = <<"2", "0", "4">>, !.framing = "none", !.body = <<>>, !.after = Crlf],
     [Plain EXCEPT !.fields = <<X(<<>>)>>, !.framing = "eof"],
     [Chunks EXCEPT !.trailer = <<X(<<"1">>)>>],
     [Chunks EXCEPT !.body = <<>>],
     [Chunks EXCEPT !.size = <<"a">>, !.body = [i \in 1..10 |-> "a"]],
     [Plain EXCEPT !.fields = <<X(<<"a", "bad", "d">>)>>, !.malformed = TRUE],
     [Plain EXCEPT !.fields = <<Named(MCContentLength, <<"2">>, <<>>)>>, !.malformed = TRUE],
     [Chunks EXCEPT !.fields = <<Named(MCContentLength, <<"2">>, <<>>)>>, !.malformed = TRUE],
     [Plain EXCEPT !.size = <<"1", "x">>, !.malformed = TRUE],
     [Plain EXCEPT !.fields = <<Named(MCConnection, MCClose, <<>>)>>, !.after = <<"H">>, !.malformed = TRUE],
     [Plain EXCEPT !.fields = <<X([i \in 1..11 |-> "a"])>>],
     [Plain EXCEPT !.fields = <<X([i \in 1..20 |-> "a"])>>]}

(* A URL written from its parts. *)
Url(schema, userinfo, host, v6, port, digits, path, query, fragment) ==
    [schema |-> schema, userinfo |-> userinfo, host |-> host, port |-> port, path |-> path, query |-> query,
     text |-> schema \o <<":", "/", "/">>
              \o (IF userinfo = <<>> THEN <<>> ELSE userinfo \o <<"@">>)
              \o (IF v6 THEN <<"[">> \o host \o <<"]">> ELSE host)
              \o (IF digits = <<>> THEN <<>> ELSE <<":">> \o digits) \o path
              \o (IF query = <<>> THEN <<>> ELSE <<"?">> \o query)
              \o (IF fragment = <<>> THEN <<>> ELSE <<"#">> \o fragment)]
Ports == {<<0, <<>>>>, <<443, <<"4", "4", "3">>>>, <<34, <<"0", "3", "4">>>>, <<0, <<"0">>>>,
          <<144444, <<"1", "4", "4", "4", "4", "4">>>>}
(* No fragment right behind the host: the parser gives such a URL up. *)
MCUrls ==
    {Url(schema, userinfo, host[1], host[2], port[1], port[2], tail[1], tail[2], tail[3]) :
        schema \in {MCHttpSchema, MCHttpsSchema},
        userinfo \in {<<>>, <<"u">>, <<"u", ":", "a">>},
        host \in {<<<<"a", ".", "b">>, FALSE>>, <<<<":", ":", "1">>, TRUE>>, <<<<":", "1", "%", "h">>, TRUE>>},
        port \in Ports,
        tail \in ({<<>>, <<"/">>, <<"/", "a", "@", "b">>} \X {<<>>, <<"q", "=", "?", "a", "/">>}
                     \X {<<>>, <<"f", "#">>}) \ {<<<<>>, <<>>, <<"f", "#">>>>}}
MCExchanges ==
    [url : {CHOOSE u \in MCUrls : TRUE}, msg : MCMessages]
      \cup [url : MCUrls, msg : {[Plain EXCEPT !.framing = "silent"]}]
=============================================================================
