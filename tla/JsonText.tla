-------------------------------- MODULE JsonText --------------------------------
(* The text of JSON as Json::Reader cuts it into tokens and Json::FastWriter     *)
(* and the styled stream writer put it together, byte by byte, and the values in *)
(* between.  The widths of the integers are constants.                           *)
EXTENDS Integers, Sequences, SequencesExt, FiniteSetsExt

CONSTANTS
    maxInt,             \* of Json::Int
    maxLargestInt       \* of Json::LargestInt
maxLargestUInt == 2 * maxLargestInt + 1

Tab == 9  NewLine == 10  Return == 13  Space == 32  Quote == 34  Star == 42  Plus == 43  Comma == 44
Minus == 45  Dot == 46  Slash == 47  Colon == 58  OpenBracket == 91  Backslash == 92
CloseBracket == 93  OpenBrace == 123  CloseBrace == 125
Digits == 48..57
Exponents == {69, 101}
Spaces == {Space, Tab, Return, NewLine}
true == <<116, 114, 117, 101>>
false == <<102, 97, 108, 115, 101>>
null == <<110, 117, 108, 108>>

-----------------------------------------------------------------------------
(* Values.  An object's members are kept by name, in the order of the bytes. *)
Null == [type |-> "null"]
Boolean(b) == [type |-> "boolean", b |-> b]
Number(n) == IF n <= maxInt THEN [type |-> "int", n |-> n] ELSE [type |-> "uint", n |-> n]
Real(text) == [type |-> "real", text |-> text]
String(s) == [type |-> "string", s |-> s]
Array(e) == [type |-> "array", e |-> e]
NoMembers == [name \in {} |-> Null]
Object(m) == [type |-> "object", m |-> m]

Less(a, b) ==
    \E i \in 0..Len(a) :
        /\ i <= Len(b) /\ SubSeq(a, 1, i) = SubSeq(b, 1, i)
        /\ IF i = Len(a) THEN i < Len(b) ELSE i < Len(b) /\ a[i + 1] < b[i + 1]
getMemberNames(v) == SetToSortSeq(DOMAIN v.m, Less)
Member(v, name) == IF name \in DOMAIN v.m THEN v.m[name] ELSE Null
SetMember(v, name, child) == [v EXCEPT !.m = (name :> child) @@ @]

-----------------------------------------------------------------------------
(* Reading tokens.  Positions run from 1; behind the end there is a 0.       *)
At(doc, p) == IF p \in DOMAIN doc THEN doc[p] ELSE 0
FirstIn(doc, p, S) == Min({q \in p..Len(doc) : doc[q] \in S} \cup {Len(doc) + 1})
Past(doc, p, S) == Min({q \in p..Len(doc) : doc[q] \notin S} \cup {Len(doc) + 1})
skipSpaces(doc, p) == Past(doc, p, Spaces)

match(doc, p, word) == p + Len(word) - 2 <= Len(doc) /\ SubSeq(doc, p, p + Len(word) - 2) = Tail(word)

readString(doc, p) ==
    LET scan[q \in p..(Len(doc) + 2)] ==
            IF q > Len(doc) THEN [ok |-> FALSE, end |-> Len(doc) + 1]
            ELSE IF doc[q] = Backslash THEN scan[q + 2]
            ELSE IF doc[q] = Quote THEN [ok |-> TRUE, end |-> q + 1]
            ELSE scan[q + 1]
    IN scan[p]

(* A comment that is not closed is taken as well when the text ends in "/".  *)
readCStyleComment(doc, p) ==
    LET closed == {q \in p..(Len(doc) - 1) : doc[q] = Star /\ doc[q + 1] = Slash}
    IN IF closed # {} THEN [ok |-> TRUE, end |-> Min(closed) + 2]
       ELSE [ok |-> p <= Len(doc) /\ doc[Len(doc)] = Slash, end |-> Len(doc) + 1]
readCppStyleComment(doc, p) ==
    LET q == FirstIn(doc, p, {NewLine, Return})
    IN [ok |-> TRUE,
        end |-> IF At(doc, q) = Return /\ At(doc, q + 1) = NewLine THEN q + 2 ELSE Min({q + 1, Len(doc) + 1})]
readComment(doc, p) ==
    CASE At(doc, p) = Star -> readCStyleComment(doc, p + 1)
      [] At(doc, p) = Slash -> readCppStyleComment(doc, p + 1)
      [] OTHER -> [ok |-> FALSE, end |-> Min({p + 1, Len(doc) + 1})]

readNumber(doc, p) ==
    LET whole == Past(doc, p, Digits)
        fraction == IF At(doc, whole) = Dot THEN Past(doc, whole + 1, Digits) ELSE whole
        sign == IF At(doc, fraction + 1) \in {Plus, Minus} THEN 2 ELSE 1
    IN IF At(doc, fraction) \in Exponents THEN Past(doc, fraction + sign, Digits) ELSE fraction

Punctuation ==
    OpenBrace :> "objectBegin" @@ CloseBrace :> "objectEnd" @@ OpenBracket :> "arrayBegin"
    @@ CloseBracket :> "arrayEnd" @@ Comma :> "separator" @@ Colon :> "colon" @@ 0 :> "end"

readToken(doc, p) ==
    LET start == skipSpaces(doc, p)
        c == At(doc, start)
        next == Min({start + 1, Len(doc) + 1})
        Token(type, end) == [type |-> type, start |-> start, end |-> end]
        Scanned(type, scan) == Token(IF scan.ok THEN type ELSE "error", scan.end)
        Word(type, word) == IF match(doc, next, word) THEN Token(type, next + Len(word) - 1) ELSE Token("error", next)
    IN CASE c \in DOMAIN Punctuation -> Token(Punctuation[c], next)
         [] c = Quote -> Scanned("string", readString(doc, next))
         [] c = Slash -> Scanned("comment", readComment(doc, next))
         [] c \in Digits \cup {Minus} -> Token("number", readNumber(doc, next))
         [] c = true[1] -> Word("true", true)
         [] c = false[1] -> Word("false", false)
         [] c = null[1] -> Word("null", null)
         [] OTHER -> Token("error", next)

skipCommentTokens(doc, p) ==
    LET plain[q \in 1..(Len(doc) + 1)] ==
            IF readToken(doc, q).type = "comment" THEN plain[readToken(doc, q).end] ELSE readToken(doc, q)
    IN plain[p]

-----------------------------------------------------------------------------
(* What a token stands for. *)
Failed == [ok |-> FALSE, value |-> Null]
Decoded(v) == [ok |-> TRUE, value |-> v]

(* istream >> double: a digit before the exponent, and one after it. *)
decodeDouble(text) ==
    LET e == FirstIn(text, 1, Exponents)
        Digit(from, to) == \E i \in from..to : text[i] \in Digits
    IN IF Digit(1, e - 1) /\ (e > Len(text) \/ Digit(e + 1, Len(text))) THEN Decoded(Real(text)) ELSE Failed

(* A variant that does not look at the last digit. *)
OverflowsAtTen(value, digit, last, maxIntegerValue) == value > maxIntegerValue \div 10

(* The value so far, ten times and with one more digit, is past the limit.   *)
Overflows(value, digit, last, maxIntegerValue) ==
    LET threshold == maxIntegerValue \div 10
    IN value >= threshold /\ (value > threshold \/ ~last \/ digit > maxIntegerValue % 10)
decodeNumber(doc, token) ==
    LET text == SubSeq(doc, token.start, token.end - 1)
        isNegative == text[1] = Minus
        digits == IF isNegative THEN Tail(text) ELSE text
        maxIntegerValue == IF isNegative THEN maxLargestInt + 1 ELSE maxLargestUInt
        TooLong == 0 - 1
        value[i \in 0..Len(digits)] ==
            IF i = 0 THEN 0
            ELSE LET before == value[i - 1]
                     digit == digits[i] - 48
                 IN IF before = TooLong \/ digits[i] \notin Digits
                       \/ Overflows(before, digit, i = Len(digits), maxIntegerValue)
                    THEN TooLong
                    ELSE before * 10 + digit
        n == value[Len(digits)]
    IN IF n = TooLong THEN decodeDouble(text) ELSE Decoded(Number(IF isNegative THEN 0 - n ELSE n))

codePointToUTF8(cp) ==
    LET Follow(k) == 128 + ((cp \div 64^k) % 64)
    IN CASE cp <= 127 -> <<cp>>
         [] cp \in 128..2047 -> <<192 + ((cp \div 64) % 32), Follow(0)>>
         [] cp \in 2048..65535 -> <<224 + ((cp \div 4096) % 16), Follow(1), Follow(0)>>
         [] cp \in 65536..1114111 -> <<240 + ((cp \div 262144) % 8), Follow(2), Follow(1), Follow(0)>>
         [] OTHER -> <<>>

HexDigit == [c \in Digits |-> c - 48] @@ [c \in 97..102 |-> c - 87] @@ [c \in 65..70 |-> c - 55]
decodeUnicodeEscapeSequence(doc, p, end) ==
    IF end - p < 4 \/ \E i \in p..(p + 3) : doc[i] \notin DOMAIN HexDigit THEN [ok |-> FALSE, cp |-> 0, next |-> p]
    ELSE [ok |-> TRUE, next |-> p + 4,
          cp |-> FoldLeft(LAMBDA cp, c : cp * 16 + HexDigit[c], 0, SubSeq(doc, p, p + 3))]

(* A variant that leaves the offset of the surrogates out. *)
decodeUnicodeCodePointPlain(doc, p, end) ==
    LET first == decodeUnicodeEscapeSequence(doc, p, end)
        second == decodeUnicodeEscapeSequence(doc, first.next + 2, end)
    IN IF first.cp \in 55296..56319 /\ second.ok
       THEN [second EXCEPT !.cp = (first.cp % 1024) * 1024 + (second.cp % 1024)] ELSE first

decodeUnicodeCodePoint(doc, p, end) ==
    LET first == decodeUnicodeEscapeSequence(doc, p, end)
        second == decodeUnicodeEscapeSequence(doc, first.next + 2, end)
    IN IF ~first.ok \/ first.cp \notin 55296..56319 THEN first
       ELSE IF end - first.next < 6 \/ SubSeq(doc, first.next, first.next + 1) # <<Backslash, 117>> \/ ~second.ok
       THEN [first EXCEPT !.ok = FALSE]
       ELSE [second EXCEPT !.cp = 65536 + (first.cp % 1024) * 1024 + (second.cp % 1024)]

Escapes == Quote :> Quote @@ Slash :> Slash @@ Backslash :> Backslash
           @@ 98 :> 8 @@ 102 :> 12 @@ 110 :> NewLine @@ 114 :> Return @@ 116 :> Tab
decodeString(doc, token) ==
    LET end == token.end - 1
        Then(bytes, rest) == [rest EXCEPT !.s = bytes \o @]
        decoded[p \in (token.start + 1)..end] ==
            LET unicode == decodeUnicodeCodePoint(doc, p + 2, end)
            IN IF p = end THEN [ok |-> TRUE, s |-> <<>>]
               ELSE IF doc[p] # Backslash THEN Then(<<doc[p]>>, decoded[p + 1])
               ELSE IF p + 1 < end /\ doc[p + 1] \in DOMAIN Escapes
               THEN Then(<<Escapes[doc[p + 1]]>>, decoded[p + 2])
               ELSE IF p + 1 < end /\ doc[p + 1] = 117 /\ unicode.ok
               THEN Then(codePointToUTF8(unicode.cp), decoded[unicode.next])
               ELSE [ok |-> FALSE, s |-> <<>>]
    IN IF decoded[token.start + 1].ok THEN Decoded(String(decoded[token.start + 1].s)) ELSE Failed

-----------------------------------------------------------------------------
(* Writing. *)
uintToString(n) ==
    LET digits[k \in Nat] == IF k < 10 THEN <<48 + k>> ELSE Append(digits[k \div 10], 48 + (k % 10))
    IN digits[n]
valueToString(n) == IF n < 0 THEN <<Minus>> \o uintToString(0 - n) ELSE uintToString(n)

HexByte == [d \in 0..15 |-> IF d < 10 THEN 48 + d ELSE 87 + d]
toHex16Bit(x) == [i \in 1..4 |-> HexByte[(x \div 16^(4 - i)) % 16]]
Unicode(x) == <<Backslash, 117>> \o toHex16Bit(x)

(* The code point that begins at s[i], and how many bytes it took.           *)
utf8ToCodepoint(s, i) ==
    LET Low(k) == s[i + k] % 64
        Wide(n, cp, least) ==
            IF Len(s) - i + 1 < n THEN [cp |-> 65533, size |-> 1]
            ELSE [cp |-> IF cp < least \/ cp \in 55296..57343 THEN 65533 ELSE cp, size |-> n]
    IN CASE s[i] < 128 -> [cp |-> s[i], size |-> 1]
         [] s[i] \in 128..223 -> Wide(2, (s[i] % 32) * 64 + Low(1), 128)
         [] s[i] \in 224..239 -> Wide(3, (s[i] % 16) * 4096 + Low(1) * 64 + Low(2), 2048)
         [] s[i] \in 240..247 -> Wide(4, (s[i] % 8) * 262144 + Low(1) * 4096 + Low(2) * 64 + Low(3), 65536)
         [] OTHER -> [cp |-> 65533, size |-> 1]

(* The device's char is unsigned: a text of other than ASCII is left as it is.*)
isAnyCharRequiredQuoting(s) == \E i \in DOMAIN s : s[i] < 128

Short == [c \in {Escapes[e] : e \in DOMAIN Escapes} |-> CHOOSE e \in DOMAIN Escapes : Escapes[e] = c]
valueToQuotedStringN(s) ==
    LET Escaped(cp) ==
            CASE cp \in 32..127 -> <<cp>>
              [] cp >= 65536 ->
                    Unicode(((cp - 65536) \div 1024) + 55296) \o Unicode((cp % 1024) + 56320)
              [] OTHER -> Unicode(cp)
        quoted[i \in 1..(Len(s) + 1)] ==
            IF i > Len(s) THEN <<>>
            ELSE IF s[i] \in DOMAIN Short /\ s[i] # Slash THEN <<Backslash, Short[s[i]]>> \o quoted[i + 1]
            ELSE LET c == utf8ToCodepoint(s, i) IN Escaped(c.cp) \o quoted[i + c.size]
    IN <<Quote>> \o (IF isAnyCharRequiredQuoting(s) THEN quoted[1] ELSE s) \o <<Quote>>

Scalar(v) ==
    CASE v.type = "null" -> null
      [] v.type = "boolean" -> IF v.b THEN true ELSE false
      [] v.type \in {"int", "uint"} -> valueToString(v.n)
      [] v.type = "string" -> valueToQuotedStringN(v.s)
Listed(texts, between) ==
    FoldLeft(LAMBDA a, i : a \o (IF i = 1 THEN <<>> ELSE between) \o texts[i], <<>>, [i \in DOMAIN texts |-> i])
Contained(v) ==
    CASE v.type = "array" -> v.e
      [] v.type = "object" -> [i \in DOMAIN getMemberNames(v) |-> v.m[getMemberNames(v)[i]]]
      [] OTHER -> <<>>

RECURSIVE writeValue(_)
writeValue(v) ==
    LET parts == [i \in DOMAIN Contained(v) |-> writeValue(Contained(v)[i])]
    IN CASE v.type = "array" -> <<OpenBracket>> \o Listed(parts, <<Comma>>) \o <<CloseBracket>>
         [] v.type = "object" ->
               <<OpenBrace>>
               \o Listed([i \in DOMAIN parts |->
                            valueToQuotedStringN(getMemberNames(v)[i]) \o <<Colon>> \o parts[i]], <<Comma>>)
               \o <<CloseBrace>>
         [] OTHER -> Scalar(v)
FastWriter(v) == Append(writeValue(v), NewLine)

(* Every member and element on a line of its own; a container opens on a new *)
(* line unless the writer has just begun one.                                *)
writeIndent(depth) == <<NewLine>> \o [i \in 1..depth |-> Tab]
RECURSIVE Styled(_, _, _)
Styled(v, depth, indented) ==
    LET child == Contained(v)
        Around(open, texts, close) ==
            (IF indented THEN <<>> ELSE writeIndent(depth)) \o <<open>> \o Listed(texts, <<Comma>>)
            \o writeIndent(depth) \o <<close>>
    IN CASE v.type = "array" /\ child # <<>> ->
               Around(OpenBracket,
                      [i \in DOMAIN child |-> writeIndent(depth + 1) \o Styled(child[i], depth + 1, TRUE)], CloseBracket)
         [] v.type = "object" /\ child # <<>> ->
               Around(OpenBrace,
                      [i \in DOMAIN child |->
                        writeIndent(depth + 1) \o valueToQuotedStringN(getMemberNames(v)[i])
                        \o <<Space, Colon, Space>> \o Styled(child[i], depth + 1, FALSE)], CloseBrace)
         [] OTHER -> writeValue(v)
BuiltStyledStreamWriter(v) == Styled(v, 0, TRUE)
=============================================================================
