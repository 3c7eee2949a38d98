------------------------------- MODULE JsonReader -------------------------------
(* Json::Reader::parse, one call of readValue, readObject or readArray at a      *)
(* time: nodes holds the objects and arrays whose reading is under way, slot the *)
(* value being filled.  Comments are skipped, the positions kept in values and   *)
(* the wording of the errors are left out.                                       *)
EXTENDS JsonText

CONSTANTS
    Documents,      \* [text, written, value]: written when a writer made the text of the value
    stackLimit_g

VARIABLES
    doc, current, nodes, slot, pc,
    successful,     \* what the last readValue returned
    errors,         \* how many were recorded
    tokens          \* history: the tokens that were taken, with what they stand for
vars == <<doc, current, nodes, slot, pc, successful, errors, tokens>>

Top == Last(nodes)
Outside == <<>>
Peek == readToken(doc.text, current)
PeekPlain == skipCommentTokens(doc.text, current)
DecodedToken(t) ==
    CASE t.type = "string" -> decodeString(doc.text, t)
      [] t.type = "number" -> decodeNumber(doc.text, t)
      [] t.type = "true" -> Decoded(Boolean(TRUE))
      [] t.type = "false" -> Decoded(Boolean(FALSE))
      [] OTHER -> Decoded(Null)
Scalars == {"string", "number", "true", "false", "null"}

Init ==
    /\ doc \in Documents
    /\ current = 1 /\ nodes = Outside /\ slot = Null /\ pc = "value"
    /\ successful = TRUE /\ errors = 0 /\ tokens = <<>>

Take(t) == current' = t.end
Mark(type, v) == <<[type |-> type, value |-> v]>>
Keep(marks) == tokens' = tokens \o marks
Finish(ok) == pc' = "returned" /\ successful' = ok
addError == errors' = errors + 1
NoError == errors' = errors

-----------------------------------------------------------------------------
(* readValue. *)
Shallow == pc = "value" /\ Len(nodes) < stackLimit_g
TooDeep ==
    /\ pc = "value" /\ Len(nodes) >= stackLimit_g /\ pc' = "thrown"
    /\ UNCHANGED <<doc, current, nodes, slot, successful, errors, tokens>>

ReadScalar ==
    LET t == PeekPlain
        d == DecodedToken(t)
    IN /\ Shallow /\ t.type \in Scalars /\ Take(t) /\ Finish(d.ok)
       /\ IF d.ok THEN slot' = d.value /\ NoError /\ Keep(Mark(t.type, d.value))
          ELSE addError /\ UNCHANGED <<slot, tokens>>
       /\ UNCHANGED <<doc, nodes>>

Enter(container, next) == nodes' = Append(nodes, [value |-> container, name |-> <<>>]) /\ pc' = next
BeginObject ==
    /\ Shallow /\ PeekPlain.type = "objectBegin" /\ Take(PeekPlain)
    /\ Enter(Object(NoMembers), "member") /\ NoError /\ Keep(Mark("objectBegin", Null))
    /\ UNCHANGED <<doc, slot, successful>>

(* Only spaces may stand between the brackets of an empty array.             *)
BeginArray ==
    LET bracket == skipSpaces(doc.text, PeekPlain.end)
    IN /\ Shallow /\ PeekPlain.type = "arrayBegin" /\ NoError
       /\ IF At(doc.text, bracket) = CloseBracket
          THEN /\ current' = bracket + 1 /\ slot' = Array(<<>>) /\ Finish(TRUE) /\ UNCHANGED nodes
               /\ Keep(Mark("arrayBegin", Null) \o Mark("arrayEnd", Null))
          ELSE Take(PeekPlain) /\ Enter(Array(<<>>), "value") /\ slot' = Null
               /\ Keep(Mark("arrayBegin", Null)) /\ UNCHANGED successful
       /\ UNCHANGED doc

NoValue ==
    /\ Shallow /\ PeekPlain.type \notin Scalars \cup {"objectBegin", "arrayBegin"}
    /\ Take(PeekPlain) /\ Finish(FALSE) /\ addError
    /\ UNCHANGED <<doc, nodes, slot, tokens>>

-----------------------------------------------------------------------------
(* readObject and readArray.  A container that is done, or given up, is the  *)
(* value its caller was filling.                                             *)
LeaveOpen(container, ok) == nodes' = nodes /\ slot' = container /\ Finish(ok)   \* variant: not popped
Leave(container, ok) == nodes' = Front(nodes) /\ slot' = container /\ Finish(ok)
Recover == pc' = "recover"

EmptyNameOrComma == pc = "member"   \* variant: a comma may end an object
EmptyName == pc = "member" /\ Top.name = <<>>
EndObject ==
    /\ EmptyName /\ PeekPlain.type = "objectEnd" /\ Take(PeekPlain)
    /\ Leave(Top.value, TRUE) /\ NoError /\ Keep(Mark("objectEnd", Null))
    /\ UNCHANGED doc

ReadName ==
    LET name == DecodedToken(PeekPlain)
        colon == readToken(doc.text, PeekPlain.end)
    IN /\ pc = "member" /\ PeekPlain.type = "string" /\ name.ok /\ colon.type = "colon" /\ Take(colon)
       /\ nodes' = [nodes EXCEPT ![Len(nodes)].name = name.value.s]
       /\ slot' = Member(Top.value, name.value.s) /\ pc' = "value"
       /\ NoError /\ Keep(Mark("string", name.value) \o Mark("colon", Null))
       /\ UNCHANGED <<doc, successful>>

NoName ==
    LET t == PeekPlain
        colon == readToken(doc.text, t.end)
        named == t.type = "string" /\ DecodedToken(t).ok
    IN /\ pc = "member" /\ ~(Top.name = <<>> /\ t.type = "objectEnd") /\ ~(named /\ colon.type = "colon")
       /\ Take(IF named THEN colon ELSE t) /\ Recover /\ addError
       /\ UNCHANGED <<doc, nodes, slot, successful, tokens>>

(* A value was read for the innermost container, which keeps it whatever     *)
(* became of it.                                                             *)
Filled ==
    IF Top.value.type = "object" THEN SetMember(Top.value, Top.name, slot)
    ELSE [Top.value EXCEPT !.e = Append(@, slot)]
Returned == pc = "returned" /\ nodes # Outside
StoreFilled == nodes' = [nodes EXCEPT ![Len(nodes)].value = Filled]
Closer == IF Top.value.type = "object" THEN "objectEnd" ELSE "arrayEnd"

ValueFailed ==
    /\ Returned /\ ~successful /\ StoreFilled /\ Recover
    /\ UNCHANGED <<doc, current, slot, successful, errors, tokens>>

(* Behind a member and a comment, any token but the brace counts as a comma. *)
Separator ==
    IF Top.value.type = "array" THEN PeekPlain
    ELSE IF Peek.type = "comment" /\ PeekPlain.type # "objectEnd" THEN [PeekPlain EXCEPT !.type = "separator"]
    ELSE PeekPlain

EndContainer ==
    /\ Returned /\ successful /\ Separator.type = Closer /\ Take(Separator)
    /\ Leave(Filled, TRUE) /\ NoError /\ Keep(Mark(Closer, Null))
    /\ UNCHANGED doc

Continue ==
    /\ Returned /\ successful /\ Separator.type = "separator" /\ Take(Separator) /\ StoreFilled
    /\ pc' = IF Top.value.type = "object" THEN "member" ELSE "value"
    /\ slot' = Null /\ NoError
    /\ Keep((IF Peek.type = "comment" THEN Mark("comment", Null) ELSE <<>>) \o Mark("separator", Null))
    /\ UNCHANGED <<doc, successful>>

NoSeparator ==
    /\ Returned /\ successful /\ Separator.type \notin {Closer, "separator"}
    /\ Take(Separator) /\ StoreFilled /\ Recover /\ addError
    /\ UNCHANGED <<doc, slot, successful, tokens>>

(* recoverFromError skips to the next closing bracket, of whatever it is.    *)
recoverFromError ==
    LET skip[p \in 1..(Len(doc.text) + 1)] ==
            LET t == readToken(doc.text, p) IN IF t.type \in {Closer, "end"} THEN t.end ELSE skip[t.end]
    IN /\ pc = "recover" /\ current' = skip[current]
       /\ Leave(Top.value, FALSE)
       /\ UNCHANGED <<doc, errors, tokens>>

(* parse.  What follows the first value is not looked at. *)
parse ==
    /\ pc = "returned" /\ nodes = Outside /\ pc' = "done"
    /\ UNCHANGED <<doc, current, nodes, slot, successful, errors, tokens>>

Ended == pc \in {"done", "thrown"} /\ UNCHANGED vars

Next ==
    \/ TooDeep \/ ReadScalar \/ BeginObject \/ BeginArray \/ NoValue
    \/ EndObject \/ ReadName \/ NoName
    \/ ValueFailed \/ EndContainer \/ Continue \/ NoSeparator \/ recoverFromError \/ parse
    \/ Ended
Spec == Init /\ [][Next]_vars

-----------------------------------------------------------------------------
(* Properties. *)
RECURSIVE Levels(_), TokensOf(_)
Levels(v) ==
    IF Contained(v) = <<>> THEN 1 ELSE 1 + Max({Levels(Contained(v)[i]) : i \in DOMAIN Contained(v)})
TokensOf(v) ==
    LET parts == [i \in DOMAIN Contained(v) |-> TokensOf(Contained(v)[i])]
        Name(i) == Mark("string", String(getMemberNames(v)[i])) \o Mark("colon", Null)
        Between == Mark("separator", Null)
    IN CASE v.type = "array" -> Mark("arrayBegin", Null) \o Listed(parts, Between) \o Mark("arrayEnd", Null)
         [] v.type = "object" ->
               Mark("objectBegin", Null) \o Listed([i \in DOMAIN parts |-> Name(i) \o parts[i]], Between)
               \o Mark("objectEnd", Null)
         [] v.type \in {"int", "uint", "real"} -> Mark("number", v)
         [] v.type = "boolean" -> Mark(IF v.b THEN "true" ELSE "false", v)
         [] OTHER -> Mark(v.type, v)

(* Every variable keeps its type; the reader never leaves the text, and has  *)
(* no more containers open than the limit.                                   *)
TypeOK ==
    /\ current \in 1..(Len(doc.text) + 1) /\ Len(nodes) <= stackLimit_g
    /\ pc \in {"value", "member", "returned", "recover", "done", "thrown"}
    /\ successful \in BOOLEAN /\ errors \in Nat
    /\ slot.type \in {"null", "boolean", "int", "uint", "real", "string", "array", "object"}
    /\ \A i \in DOMAIN nodes : nodes[i].value.type \in {"array", "object"}

(* What either writer makes of a value is read back as that value, whatever  *)
(* its strings and integers are, unless it is nested deeper than the stack   *)
(* limit: then, and only then, the reader throws.                            *)
ReadsWhatWasWritten ==
    doc.written =>
        /\ pc = "done" => successful /\ slot = doc.value
        /\ pc \in {"done", "thrown"} => (pc = "thrown") = (Levels(doc.value) > stackLimit_g)

(* A text is accepted only if its brackets, names, colons, commas and words   *)
(* have the structure of a value, and the value read is that one: the tokens *)
(* taken are those the value is written with.  Not so for members out of     *)
(* order, an empty name before "}", and a comment behind a member, which the *)
(* reader takes for any separator.  Nothing is said of what a string token   *)
(* may be made of: control characters in it are accepted as they are.        *)
InOrder ==
    LET names == {i \in DOMAIN tokens : i < Len(tokens) /\ tokens[i + 1].type = "colon"}
    IN \A i, j \in names :
            tokens[i].value.s # <<>> /\ (i < j => Less(tokens[i].value.s, tokens[j].value.s))
AcceptedHasStructure ==
    pc = "done" /\ successful /\ InOrder /\ Mark("comment", Null)[1] \notin {tokens[i] : i \in DOMAIN tokens}
        => tokens = TokensOf(slot)

(* parse fails exactly when an error is recorded, and it is the first one    *)
(* alone: what recovery runs into adds none.                                 *)
OneErrorIfRefused == pc = "done" => errors = (IF successful THEN 0 ELSE 1)

(* A number is accepted if the grammar of JSON has it, and beyond that with  *)
(* leading zeros, without digits before or behind the point, and as a lone   *)
(* minus; an exponent needs digits.                                          *)
IsNumber(text, strict) ==
    LET body == IF text[1] = Minus THEN Tail(text) ELSE text
        AllDigits(s) == \A i \in DOMAIN s : s[i] \in Digits
        Whole(s) == AllDigits(s) /\ (strict => (s # <<>> /\ (s[1] = 48 => Len(s) = 1)))
        Fraction(s) ==
            s # <<>> => (s[1] = Dot /\ AllDigits(Tail(s)) /\ (strict => Len(s) > 1))
        Power(s) == SubSeq(s, IF s[2] \in {Plus, Minus} THEN 3 ELSE 2, Len(s))
        Exponent(s) ==
            s # <<>> =>
                (s[1] \in Exponents /\ Len(s) > 1 /\ Power(s) # <<>> /\ AllDigits(Power(s)))
    IN \/ \E i \in 0..Len(body) : \E j \in i..Len(body) :
            /\ Whole(SubSeq(body, 1, i)) /\ Fraction(SubSeq(body, i + 1, j))
            /\ Exponent(SubSeq(body, j + 1, Len(body)))
            /\ \E k \in 1..j : body[k] \in Digits
       \/ ~strict /\ text = <<Minus>>
NumbersAreLenient ==
    LET number == readToken(doc.text, 1)
    IN (pc = "done" /\ number.type = "number" /\ number.start = 1 /\ number.end = Len(doc.text) + 1)
        => /\ IsNumber(doc.text, TRUE) => successful
           /\ successful => IsNumber(doc.text, FALSE)

(* A text is either accepted, and then has the structure of a value as far   *)
(* as it is read, with numbers no looser than that, or refused with one      *)
(* error.                                                                    *)
AcceptedOrRefused == AcceptedHasStructure /\ NumbersAreLenient /\ OneErrorIfRefused

(* An integer in the range of its type is read exactly, to the last unit;    *)
(* any other is handed to the floating-point conversion, and never wraps.    *)
IntegersAreExact ==
    LET text == doc.text
        digits == IF text # <<>> /\ text[1] = Minus THEN Tail(text) ELSE text
        n == FoldLeft(LAMBDA v, c : v * 10 + (c - 48), 0, digits)
        exact == IF digits = text THEN n ELSE 0 - n
    IN pc = "done" /\ digits # <<>> /\ (\A i \in DOMAIN digits : digits[i] \in Digits)
        => /\ successful
           /\ slot = IF exact \in (0 - maxLargestInt - 1)..maxLargestUInt THEN Number(exact) ELSE Real(text)

(* Whatever the text is, each step takes some of it, or gives up the         *)
(* innermost container, or returns: parse ends, and recovery does not loop.  *)
Left ==
    LET Stage == [value |-> 5, member |-> 4, returned |-> 3, recover |-> 2, done |-> 1, thrown |-> 1]
    IN <<Len(doc.text) + 1 - current, Len(nodes), Stage[pc]>>
ParseAdvances == [][Less(Left', Left)]_vars
=============================================================================
