------------------------------ MODULE MCMqttClient ------------------------------
(* Instances of MqttClient for TLC: two filters, two topics, and the packet     *)
(* functions on every shape of filter of up to three levels, at every boundary  *)
(* of the length and around the size of the buffer.                             *)
EXTENDS MqttClient

A == <<"a">>
AB == <<"a", "b">>
Plus == <<"+">>
Hash == <<"#">>
MCFilters == {<<A, A>>, <<A, Hash>>}
MCTopics == {<<A, A>>, <<A, AB>>}

(* "#" ends a filter, "+" and "#" fill their level. *)
Levels(S, k) == UNION {[1..i -> S] : i \in 1..k}
WellFormed(f) == \A i \in DOMAIN f : f[i] = Hash => i = Len(f)
FilterShapes == {f \in Levels({A, AB, <<>>, Plus, Hash}, 3) : WellFormed(f) /\ Joined(f) # <<>>}
TopicShapes == {t \in Levels({A, AB, <<>>}, 3) : Joined(t) # <<>>}

Around == {0, 1, 120, 121, 122, 123, 124, 125, 126, 480} \cup 485..500
Shape(type, o) == [kind |-> "packet", type |-> type, options |-> o]
MCProbes ==
    {[kind |-> "match", filter |-> f, topic |-> t] : f \in FilterShapes, t \in TopicShapes}
    \cup {[kind |-> "length", n |-> l] :
            l \in 0..130 \cup 16380..16390 \cup 2097145..2097155 \cup {268435454, 268435455}}
    \cup {Shape("publish", [topic |-> 10, payload |-> l, qos |-> q]) : l \in Around, q \in 0..1}
    \cup {Shape(type, [topic |-> l]) : type \in {"subscribe", "unsubscribe"}, l \in Around}
    \cup {Shape(type, [topic |-> 0]) : type \in {"ack", "zero"}}
    \cup {Shape("connect", [version |-> v, client |-> l, will |-> w, username |-> u, password |-> u]) :
            v \in 3..4, l \in Around, w \in {Absent, 4}, u \in {Absent, 0, 5}}
=============================================================================
