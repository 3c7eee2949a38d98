------------------------------- MODULE MqttPacket -------------------------------
(* The packets of MQTT: their lengths, the parts each is written from, what  *)
(* the readers make of one that is too short, and which filters a topic      *)
(* matches.  Parts are their lengths, names are sequences of characters.     *)
EXTENDS Integers, Sequences, SequencesExt

MAX_MQTT_PACKET_SIZE == 500
MAX_NO_OF_REMAINING_LENGTH_BYTES == 4

(* The remaining length goes out in groups of seven bits, the low one first. *)
MQTTPacket_encode(length) ==
    LET groups[n \in Nat] == IF n < 128 THEN <<n>> ELSE <<(n % 128) + 128>> \o groups[n \div 128]
    IN groups[length]

MQTTPacket_decode(bytes) ==
    LET value[i \in 0..Len(bytes)] == IF i = 0 THEN 0 ELSE value[i - 1] + (bytes[i] % 128) * 128^(i - 1)
        last == IF \E i \in 1..Len(bytes) : bytes[i] < 128
                THEN CHOOSE i \in 1..Len(bytes) : bytes[i] < 128 /\ \A j \in 1..(i - 1) : bytes[j] >= 128
                ELSE Len(bytes)
    IN value[IF last > MAX_NO_OF_REMAINING_LENGTH_BYTES THEN MAX_NO_OF_REMAINING_LENGTH_BYTES ELSE last]

(* The header is counted before the length is looked at. *)
MQTTPacket_len(rem_len) ==
    LET n == rem_len + 1
    IN n + (IF n < 128 THEN 1 ELSE IF n < 16384 THEN 2 ELSE IF n < 2097151 THEN 3 ELSE 4)

-----------------------------------------------------------------------------
(* A packet is refused when it is longer than the buffer; otherwise it is    *)
(* its fixed header and the parts the writer puts behind it.                 *)
TooShort == [ok |-> FALSE, parts |-> <<>>]
Serialize(rem_len, parts) ==
    IF MQTTPacket_len(rem_len) > MAX_MQTT_PACKET_SIZE THEN TooShort
    ELSE [ok |-> TRUE, parts |-> <<1, Len(MQTTPacket_encode(rem_len))>> \o parts]
writeMQTTString(n) == 2 + n
Absent == 0 - 1                         \* a string that is not given
Present(n) == IF n = Absent THEN <<>> ELSE <<writeMQTTString(n)>>

MQTTSerialize_connectLength(o) ==
    (IF o.version = 3 THEN 12 ELSE 10) + writeMQTTString(o.client)
    + (IF o.will = Absent THEN 0 ELSE 2 * writeMQTTString(o.will))
    + (IF o.username = Absent THEN 0 ELSE writeMQTTString(o.username))
    + (IF o.password = Absent THEN 0 ELSE writeMQTTString(o.password))
MQTTSerialize_connect(o) ==
    Serialize(MQTTSerialize_connectLength(o),
        <<writeMQTTString(IF o.version = 4 THEN 4 ELSE 6), 1, 1, 2, writeMQTTString(o.client)>>
        \o Present(o.will) \o Present(o.will) \o Present(o.username) \o Present(o.password))

MQTTSerialize_publishLength(o) == 2 + o.topic + o.payload + (IF o.qos > 0 THEN 2 ELSE 0)
MQTTSerialize_publish(o) ==
    Serialize(MQTTSerialize_publishLength(o),
        <<writeMQTTString(o.topic)>> \o (IF o.qos > 0 THEN <<2>> ELSE <<>>) \o <<o.payload>>)

MQTTSerialize_subscribeLength(o) == 2 + 2 + o.topic + 1
MQTTSerialize_subscribe(o) ==
    Serialize(MQTTSerialize_subscribeLength(o), <<2, writeMQTTString(o.topic), 1>>)
MQTTSerialize_unsubscribeLength(o) == 2 + 2 + o.topic
MQTTSerialize_unsubscribe(o) ==
    Serialize(MQTTSerialize_unsubscribeLength(o), <<2, writeMQTTString(o.topic)>>)

MQTTSerialize_ack == [ok |-> TRUE, parts |-> <<1, 1, 2>>]
MQTTSerialize_zero == [ok |-> TRUE, parts |-> <<1, 1>>]

-----------------------------------------------------------------------------
(* The readers return 1 for success; given too little behind the header they *)
(* return the number of bytes the length took, which may be 1 as well.       *)
Parsed(rem_len, needed) == rem_len >= needed \/ Len(MQTTPacket_encode(rem_len)) = 1

MQTTDeserialize_connack(p, rc) == IF p.rem_len >= 2 THEN p.rc ELSE rc
MQTTDeserialize_ack(p, unset) == IF p.rem_len >= 2 THEN p.id ELSE unset
MQTTDeserialize_suback(p, granted) == IF p.rem_len >= 3 THEN p.granted ELSE granted

-----------------------------------------------------------------------------
isTopicMatchedPrefix(topicFilter, topicName) ==
    \E n \in 1..Len(topicName) : topicFilter = SubSeq(topicName, 1, n)

(* One character of the filter at a time, a wildcard over all it stands for. *)
isTopicMatched(topicFilter, topicName) ==
    LET past == Len(topicName) + 1
        LastOfLevel(n) ==
            CHOOSE m \in n..Len(topicName) :
                /\ \A i \in (n + 1)..m : topicName[i] # "/"
                /\ m = Len(topicName) \/ topicName[m + 1] = "/"
        Stops(f, n) ==
            \/ topicName[n] = "/" /\ topicFilter[f] # "/"
            \/ topicFilter[f] \notin {"+", "#", topicName[n]}
        Over(f, n) ==
            CASE topicFilter[f] = "+" -> LastOfLevel(n)
              [] topicFilter[f] = "#" -> Len(topicName)
              [] OTHER -> n
        matched[f \in 1..(Len(topicFilter) + 1), n \in 1..past] ==
            IF f > Len(topicFilter) \/ n = past THEN f > Len(topicFilter) /\ n = past
            ELSE ~Stops(f, n) /\ matched[f + 1, Over(f, n) + 1]
    IN matched[1, 1]

Matches(topicFilter, topicName) == topicFilter = topicName \/ isTopicMatched(topicFilter, topicName)

(* What MQTT says of filters and topics, level by level.                     *)
Joined(levels) == Tail(FlattenSeq([i \in DOMAIN levels |-> <<"/">> \o levels[i]]))
Covers(filter, topic) ==
    LET Fits(n) == \A i \in 1..n : filter[i] \in {<<"+">>, topic[i]}
    IN IF Last(filter) = <<"#">> THEN Len(topic) >= Len(filter) - 1 /\ Fits(Len(filter) - 1)
       ELSE Len(topic) = Len(filter) /\ Fits(Len(filter))
=============================================================================
