--------------------------------- MODULE MCJson ---------------------------------
(* Instances of JsonReader for TLC: what the writers make of values of every     *)
(* kind, what becomes of such texts when a byte is lost, added or changed, and   *)
(* numbers around every limit.                                                   *)
EXTENDS JsonReader

a == <<97>>
b == <<98>>

(* Strings around the limits of the encodings, in UTF-8: alone, and behind a *)
(* letter, for a text without any ASCII is not escaped.                      *)
Boundaries ==
    {<<8>>, <<9>>, <<10>>, <<12>>, <<13>>, <<1>>, <<31>>, <<32>>, <<34>>, <<47>>, <<92>>, <<127>>,
     <<194, 128>>, <<223, 191>>, <<224, 160, 128>>, <<237, 159, 191>>, <<238, 128, 128>>, <<239, 191, 191>>,
     <<240, 144, 128, 128>>, <<240, 159, 152, 128>>, <<244, 143, 191, 191>>}
Strings == {<<>>, a} \cup Boundaries \cup {a \o s : s \in Boundaries} \cup {s \o a : s \in Boundaries}

(* An integer has the type a reader gives it. *)
Limits == {maxInt, maxLargestInt, maxLargestUInt, 9, 99}
Integers_ ==
    {Number(n) : n \in (UNION {{k - 1, k, k + 1} : k \in Limits} \cap 0..maxLargestUInt)
                       \cup {0 - 1, 0 - 10, 0 - maxInt, 0 - maxLargestInt, 0 - maxLargestInt - 1}}
Scalar_ == {Null, Boolean(TRUE), Boolean(FALSE)} \cup Integers_ \cup {String(s) : s \in Strings}

Few == {Null, Number(10), String(a), Array(<<>>), Object(NoMembers)}
Pairs(S) == {Array(<<x>>) : x \in S} \cup {Array(<<x, y>>) : x, y \in S}
            \cup {Object(n :> x) : n \in {<<>>, a}, x \in S}
            \cup {Object(a :> x @@ n :> y) : n \in {<<>>, b, a \o b, <<34>>}, x, y \in S}
Nested == {Array(<<x>>) : x \in {Array(<<Array(<<>>)>>), Array(<<Boolean(TRUE)>>), Object(a :> Object(NoMembers))}}
          \cup {Object(a :> x @@ b :> Null) : x \in {Array(<<Array(<<>>), Null>>), Object(b :> Number(1))}}
Deeper == {Array(<<x, Null>>) : x \in Nested} \cup {Object(a :> x) : x \in Nested}
          \cup {Array(<<Array(<<Array(<<Array(<<>>)>>)>>)>>)}
Values == Scalar_ \cup Few \cup Pairs(Few) \cup Nested \cup Deeper

(* Texts a writer would not make: {"":1,} // and {"a":1/**/,"b":2} with it,  *)
(* ["\ud83d\ude00"], -1.5e+3 and [/*/ .                                      *)
Comment == <<47, 42, 42, 47>>
Odd == {<<123, 34, 34, 58, 49, 44, 125>> \o <<47, 47>>,
        <<123, 34, 97, 34, 58, 49>> \o Comment \o <<44, 34, 98, 34, 58, 50, 125>>,
        <<91, 34, 92, 117, 100, 56, 51, 100, 92, 117, 100, 101, 48, 48, 34, 93>>,
        <<45, 49, 46, 53, 101, 43, 51>>,
        <<91, 47, 42, 47>>}
Seeds == Odd \cup {writeValue(v) : v \in
                    {Array(<<Boolean(FALSE), Null>>), Array(<<Array(<<>>), String(<<8>>)>>),
                     Object(a :> Number(10) @@ b :> Object(NoMembers)),
                     Object(a :> Array(<<Null, Number(1)>>)), Array(<<Object(a :> Array(<<>>))>>)}}
Alphabet == {0, 10, 32, 34, 42, 44, 47, 48, 58, 91, 92, 93, 97, 123, 125}
Damaged(s) ==
    {SubSeq(s, 1, i - 1) \o SubSeq(s, i + 1, Len(s)) : i \in DOMAIN s}
    \cup {SubSeq(s, 1, i) : i \in DOMAIN s}
    \cup {SubSeq(s, 1, i - 1) \o <<c>> \o SubSeq(s, i + 1, Len(s)) : i \in DOMAIN s, c \in Alphabet}
    \cup {SubSeq(s, 1, i) \o <<c>> \o SubSeq(s, i + 1, Len(s)) : i \in 0..Len(s), c \in Alphabet}

Digits_ == {uintToString(n) : n \in UNION {{k - 1, k, k + 1, 10 * k, 10 * k + 9} : k \in Limits}}
           \cup {<<48, 48, 55>>, <<48>>}
Texts == Seeds \cup UNION {Damaged(s) : s \in Seeds} \cup Digits_ \cup {<<Minus>> \o d : d \in Digits_}

MCDocuments ==
    {[text |-> FastWriter(v), written |-> TRUE, value |-> v] : v \in Values}
    \cup {[text |-> BuiltStyledStreamWriter(v), written |-> TRUE, value |-> v] : v \in Values}
    \cup {[text |-> t, written |-> FALSE, value |-> Null] : t \in Texts}
=============================================================================
