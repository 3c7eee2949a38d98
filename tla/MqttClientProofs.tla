--------------------------- MODULE MqttClientProofs ---------------------------
(***************************************************************************)
(* Proofs about the MQTT client and its server, for any filters, topics,   *)
(* number of handlers and of events.  The client never compares the        *)
(* identifier of an answer: it is right only because there is one request  *)
(* on a connection at a time, and a call that gives up closes the session.  *)
(***************************************************************************)
EXTENDS MqttClient, SequenceTheorems, TLAPS

\* What is in the socket is a sequence of packets.
Packets(q) == q \in Seq({q[i] : i \in DOMAIN q})

Shapes ==
  /\ DOMAIN net = DOMAIN NewNet /\ DOMAIN server = {"got", "acked", "subs"}
  /\ Packets(net.up) /\ Packets(net.down)
  /\ isconnected \in BOOLEAN /\ cleansession \in BOOLEAN /\ options.cleansession \in BOOLEAN
  /\ net.torn => net.state # "open"

\* Requests that the client waits for an answer to, and these answers.
Request(p) == p.type \in {"SUBSCRIBE", "UNSUBSCRIBE"} \/ (p.type = "PUBLISH" /\ p.qos = 1)
Answer(p)  == p.type \in {"PUBACK", "SUBACK", "UNSUBACK"}

Requests == {i \in 1..Len(net.up) : Request(net.up[i])}
Answers  == {i \in 1..Len(net.down) : Answer(net.down[i])}

\* The answers in the socket may still be taken for those of a call.
Attended == isconnected \/ (pc # "return" /\ call.api \notin {"none", "yield", "disconnect"})

\* A request is the one of the call under way, and an answer says what the server did for it.
Mine(p) ==
  /\ p.type = "PUBLISH" => call.api \in {"publish", "resend"} /\ p.m = call.m
  /\ p.type = "SUBSCRIBE" => call.api = "subscribe" /\ p.filter = call.filter
  /\ p.type = "UNSUBSCRIBE" => call.api = "unsubscribe"

ForMe(p) ==
  /\ p.type = "PUBACK" => call.api \in {"publish", "resend"} /\ call.m \in server.got
  /\ p.type = "SUBACK" =>
       /\ call.api = "subscribe"
       /\ MQTTDeserialize_suback(p, 0) # 128 => call.filter \in net.granted \/ net.torn
  /\ p.type = "UNSUBACK" => call.api = "unsubscribe"

Belongs ==
  /\ \A i \in Requests : Mine(net.up[i])
  /\ \A i \in Answers : ForMe(net.down[i])
  /\ Answer(readbuf) => ForMe(readbuf)

\* There is one of them at a time, and none when the call is over.
Single ==
  /\ \A i, j \in Requests : i = j
  /\ \A i, j \in Answers : i = j
  /\ Requests = {} \/ Answers = {}
  /\ Answer(readbuf) \/ pc = "return" => Requests = {} /\ Answers = {}

\* A command that is about to be written is of the call, and the first thing it asks.
Asking ==
  pc = "write" =>
    /\ Request(sending.packet) => sending.goal = "command"
    /\ sending.goal = "command" =>
         /\ Mine(sending.packet) /\ Requests = {} /\ Answers = {} /\ ~Answer(readbuf)
         /\ call.api = "publish" /\ call.qos = 0 => ~Request(sending.packet)

OneRequest == Attended => Belongs /\ Single /\ Asking

\* Only a server that accepted the connection answers on it.
FromServer(p) ==
  /\ p.type = "CONNACK" /\ MQTTDeserialize_connack(p, SUCCESS) = SUCCESS => net.accepted \/ net.torn
  /\ p.type = "CONNACK" => MQTTDeserialize_connack(p, SUCCESS) \in Int
  /\ Answer(p) => net.accepted
  /\ p.type = "PUBLISH" /\ p.rem_len = 0 => net.torn
  /\ p.type \in {"CONNACK", "PUBACK", "SUBACK", "UNSUBACK", "PINGRESP", "PUBLISH"}

Accepted ==
  /\ isconnected => net.accepted \/ net.torn
  /\ ~net.accepted => net.granted = {}
  /\ \A i \in 1..Len(net.down) : FromServer(net.down[i])
  /\ readbuf.type # Nothing => FromServer(readbuf)
  /\ pc = "idle" => readbuf.type = Nothing /\ call.api = "none"

\* A cycle succeeds until it fails; one that neither succeeds nor ends the call found an
\* answer it does not know, or the connection unusable.
Useless == net.state # "open" /\ net.down = <<>> /\ readbuf.type = Nothing

Cycling ==
  /\ rc \in Int
  /\ pc \in {"handle", "keepalive"} \/ (pc = "write" /\ sending.goal \in {"ack", "ping"})
       => rc = SUCCESS
  /\ pc = "cycled" /\ rc > 0 => readbuf.type = "UNSUBACK" \/ Useless
  /\ pc = "write" /\ sending.goal = "command" /\ call.api = "subscribe" => isconnected
  /\ call.api = "subscribe" /\ pc # "return" /\ ~isconnected => (pc = "cycled" /\ rc < 0) \/ Useless

\* Handlers of a clean session are granted, and forgotten when it ends.
HandlersClean ==
  /\ options.cleansession => cleansession
  /\ cleansession /\ ~isconnected => \A i \in DOMAIN handlers : handlers[i] = NoFilter

\* A message is delivered before its PUBACK is written.
Acknowledges(p) == p.type = "PUBACK" => p.m \in {d.m : d \in delivered}
AcksBehind ==
  /\ pc = "write" => Acknowledges(sending.packet) \/ net.torn
  /\ \A i \in 1..Len(net.up) : Acknowledges(net.up[i])

IInv ==
  /\ Shapes /\ OneRequest /\ Accepted /\ Cycling /\ HandlersClean /\ AcksBehind
  /\ AcknowledgedIsReceived /\ HandlersWereGranted /\ AckedWasDelivered

-----------------------------------------------------------------------------
(* A sequence is one of its elements.                                        *)
LEMMA OfElements ==
  ASSUME NEW S, NEW q \in Seq(S)
  PROVE  Packets(q)
<1> DEFINE U == {q[i] : i \in DOMAIN q}
<1>1. DOMAIN q = 1..Len(q) /\ Len(q) \in Nat /\ q = [i \in 1..Len(q) |-> q[i]]
  OBVIOUS
<1>2. \A i \in 1..Len(q) : q[i] \in U
  BY <1>1
<1> HIDE DEF U
<1>3. q \in [1..Len(q) -> U]
  BY <1>1, <1>2
<1>4. q \in Seq(U)
  BY <1>1, <1>3, SeqDef
<1> QED BY <1>4 DEF Packets, U

(* What is put in the socket comes out behind the rest, as write and read    *)
(* of a stream do.                                                           *)
LEMMA PutFacts ==
  ASSUME NEW q, Packets(q), NEW p
  PROVE  /\ Packets(Append(q, p)) /\ Len(q) \in Nat /\ Len(Append(q, p)) = Len(q) + 1
         /\ \A i \in 1..Len(q) : Append(q, p)[i] = q[i]
         /\ Append(q, p)[Len(q) + 1] = p
<1> DEFINE S == {q[i] : i \in DOMAIN q}
           T == S \cup {p}
<1>1. q \in Seq(S) /\ S \subseteq T /\ p \in T
  BY DEF Packets
<1> HIDE DEF S, T
<1>2. q \in Seq(T)
  BY <1>1
<1>3. Append(q, p) \in Seq(T)
  BY <1>1, <1>2
<1>4. Packets(Append(q, p))
  BY <1>3, OfElements
<1>5. /\ Len(q) \in Nat /\ Len(Append(q, p)) = Len(q) + 1
      /\ \A i \in 1..Len(q) : Append(q, p)[i] = q[i]
      /\ Append(q, p)[Len(q) + 1] = p
  BY <1>1, <1>2
<1> QED BY <1>4, <1>5

(* What is read first is what was first, as read of a stream does.           *)
LEMMA TakeFacts ==
  ASSUME NEW q, Packets(q), q # <<>>
  PROVE  /\ Packets(Tail(q)) /\ Len(q) \in Nat \ {0} /\ Len(Tail(q)) = Len(q) - 1
         /\ \A i \in 1..(Len(q) - 1) : Tail(q)[i] = q[i + 1]
         /\ Head(q) = q[1]
<1> DEFINE S == {q[i] : i \in DOMAIN q}
<1>1. q \in Seq(S)
  BY DEF Packets
<1> HIDE DEF S
<1>2. Tail(q) \in Seq(S)
  BY <1>1
<1>3. Packets(Tail(q))
  BY <1>2, OfElements
<1>4. /\ Len(q) \in Nat \ {0} /\ Len(Tail(q)) = Len(q) - 1 /\ Head(q) = q[1]
      /\ \A i \in 1..(Len(q) - 1) : Tail(q)[i] = q[i + 1]
  BY <1>1
<1> QED BY <1>3, <1>4

(* An empty socket holds packets too.                                        *)
LEMMA EmptyFacts == Packets(<<>>) /\ Len(<<>>) = 0
BY DEF Packets

(* What the server writes keeps its fields and gains those of the header.    *)
LEMMA FitsFacts ==
  ASSUME NEW p
  PROVE  /\ \A f \in DOMAIN p : Fits(p)[f] = p[f]
         /\ "rem_len" \notin DOMAIN p => Fits(p).rem_len = 2
BY DEF Fits

-----------------------------------------------------------------------------
(* One request at a time *)

\* No request, or no answer, has come to the socket; those that were read are gone.
UpKept   == \E k \in Nat : \A i \in Requests' : i + k \in Requests /\ net'.up[i] = net.up[i + k]
DownKept == \E k \in Nat : \A i \in Answers' : i + k \in Answers /\ net'.down[i] = net.down[i + k]

\* A socket that is not touched, by write, read or the server, holds what it held.
LEMMA Untouched ==
  ASSUME Shapes
  PROVE  /\ net'.up = net.up => UpKept
         /\ net'.down = net.down => DownKept
<1>1. \A i \in 1..Len(net.up) : i + 0 = i
  BY PutFacts DEF Shapes
<1>2. \A i \in 1..Len(net.down) : i + 0 = i
  BY PutFacts DEF Shapes
<1>3. 0 \in Nat
  OBVIOUS
<1>4. ASSUME net'.up = net.up PROVE UpKept
  BY <1>1, <1>3, <1>4 DEF UpKept, Requests
<1>5. ASSUME net'.down = net.down PROVE DownKept
  BY <1>2, <1>3, <1>5 DEF DownKept, Answers
<1> QED BY <1>4, <1>5

\* A connection that ends holds nothing any more, in either direction.
LEMMA Emptied ==
  /\ net'.up = <<>> => UpKept /\ Requests' = {}
  /\ net'.down = <<>> => DownKept /\ Answers' = {}
<1>1. ASSUME net'.up = <<>> PROVE Requests' = {}
  BY <1>1, EmptyFacts DEF Requests
<1>2. ASSUME net'.down = <<>> PROVE Answers' = {}
  BY <1>2, EmptyFacts DEF Answers
<1> QED BY <1>1, <1>2 DEF UpKept, DownKept

\* Writing a packet that no answer is waited for.
LEMMA UpWritten ==
  ASSUME Shapes, NEW p, ~Request(p), net'.up = Append(net.up, p)
  PROVE  UpKept
<1>1. \A i \in Requests' : i + 0 \in Requests /\ net'.up[i] = net.up[i + 0]
  <2> TAKE i \in Requests'
  <2>1. i \in 1..Len(net'.up) /\ Request(net'.up[i])
    BY DEF Requests
  <2>2. i \in 1..Len(net.up) /\ i + 0 = i
    BY <2>1, PutFacts DEF Shapes
  <2>3. net'.up[i] = net.up[i]
    BY <2>2, PutFacts DEF Shapes
  <2> QED BY <2>1, <2>2, <2>3 DEF Requests
<1> QED BY <1>1 DEF UpKept

\* The server writing a packet that is no answer.
LEMMA DownWritten ==
  ASSUME Shapes, NEW p, ~Answer(p), net'.down = Append(net.down, p)
  PROVE  DownKept
<1>1. \A i \in Answers' : i + 0 \in Answers /\ net'.down[i] = net.down[i + 0]
  <2> TAKE i \in Answers'
  <2>1. i \in 1..Len(net'.down) /\ Answer(net'.down[i])
    BY DEF Answers
  <2>2. i \in 1..Len(net.down) /\ i + 0 = i
    BY <2>1, PutFacts DEF Shapes
  <2>3. net'.down[i] = net.down[i]
    BY <2>2, PutFacts DEF Shapes
  <2> QED BY <2>1, <2>2, <2>3 DEF Answers
<1> QED BY <1>1 DEF DownKept

\* The server taking what is first.
LEMMA UpTaken ==
  ASSUME Shapes, net.up # <<>>, net'.up = Tail(net.up)
  PROVE  /\ UpKept
         /\ (\A i, j \in Requests : i = j) /\ Request(Head(net.up))
              => 1 \in Requests /\ Requests' = {}
<1>1. \A i \in Requests' : i + 1 \in Requests /\ net'.up[i] = net.up[i + 1]
  <2> TAKE i \in Requests'
  <2>1. i \in 1..Len(net'.up) /\ Request(net'.up[i])
    BY DEF Requests
  <2>2. i \in 1..(Len(net.up) - 1) /\ i + 1 \in 1..Len(net.up)
    BY <2>1, TakeFacts DEF Shapes
  <2>3. net'.up[i] = net.up[i + 1]
    BY <2>2, TakeFacts DEF Shapes
  <2> QED BY <2>1, <2>2, <2>3 DEF Requests
<1>2. UpKept
  BY <1>1 DEF UpKept
<1>3. ASSUME \A i, j \in Requests : i = j, Request(Head(net.up))
      PROVE  1 \in Requests /\ Requests' = {}
  <2>1. 1 \in Requests
    BY <1>3, TakeFacts DEF Shapes, Requests
  <2>2. ASSUME NEW i \in Requests' PROVE FALSE
    <3>1. i + 1 = 1 /\ i \in 1..Len(net'.up)
      BY <1>1, <1>3, <2>1 DEF Requests
    <3>2. i \in Nat \ {0}
      BY <3>1, TakeFacts DEF Shapes
    <3> QED BY <3>1, <3>2
  <2> QED BY <2>1, <2>2
<1> QED BY <1>2, <1>3

\* readPacket taking what is first.
LEMMA DownTaken ==
  ASSUME Shapes, net.down # <<>>, net'.down = Tail(net.down)
  PROVE  /\ DownKept
         /\ (\A i, j \in Answers : i = j) /\ Answer(Head(net.down))
              => 1 \in Answers /\ Answers' = {}
<1>1. \A i \in Answers' : i + 1 \in Answers /\ net'.down[i] = net.down[i + 1]
  <2> TAKE i \in Answers'
  <2>1. i \in 1..Len(net'.down) /\ Answer(net'.down[i])
    BY DEF Answers
  <2>2. i \in 1..(Len(net.down) - 1) /\ i + 1 \in 1..Len(net.down)
    BY <2>1, TakeFacts DEF Shapes
  <2>3. net'.down[i] = net.down[i + 1]
    BY <2>2, TakeFacts DEF Shapes
  <2> QED BY <2>1, <2>2, <2>3 DEF Answers
<1>2. DownKept
  BY <1>1 DEF DownKept
<1>3. ASSUME \A i, j \in Answers : i = j, Answer(Head(net.down))
      PROVE  1 \in Answers /\ Answers' = {}
  <2>1. 1 \in Answers
    BY <1>3, TakeFacts DEF Shapes, Answers
  <2>2. ASSUME NEW i \in Answers' PROVE FALSE
    <3>1. i + 1 = 1 /\ i \in 1..Len(net'.down)
      BY <1>1, <1>3, <2>1 DEF Answers
    <3>2. i \in Nat \ {0}
      BY <3>1, TakeFacts DEF Shapes
    <3> QED BY <3>1, <3>2
  <2> QED BY <2>1, <2>2
<1> QED BY <1>2, <1>3

\* What is in the socket does not come to more, and no other answer to the client: the
\* call stays with the request it has, or has none.
LEMMA StillOneRequest ==
  ASSUME Shapes, OneRequest, UpKept, DownKept, call' = call,
         Answer(readbuf') => readbuf' = readbuf,
         server.got \subseteq server'.got, net.granted \subseteq net'.granted, net.torn => net'.torn,
         Attended' => Attended,
         Attended' /\ pc' = "return" => Requests = {} /\ Answers = {},
         pc' = "write" => \/ pc = "write" /\ sending' = sending
                          \/ ~Request(sending'.packet) /\ sending'.goal # "command"
  PROVE  OneRequest'
<1> SUFFICES ASSUME Attended' PROVE (Belongs /\ Single /\ Asking)'
  BY DEF OneRequest
<1>1. Belongs /\ Single /\ Asking
  BY DEF OneRequest
<1>2. PICK k \in Nat : \A i \in Requests' : i + k \in Requests /\ net'.up[i] = net.up[i + k]
  BY DEF UpKept
<1>3. PICK l \in Nat : \A i \in Answers' : i + l \in Answers /\ net'.down[i] = net.down[i + l]
  BY DEF DownKept
<1>4. ASSUME NEW i \in Requests' PROVE (Mine(net.up[i]))'
  <2>1. Mine(net.up[i + k]) /\ net'.up[i] = net.up[i + k]
    BY <1>1, <1>2 DEF Belongs
  <2> QED BY <2>1 DEF Mine
<1>5. ASSUME NEW i \in Answers' PROVE (ForMe(net.down[i]))'
  <2>1. ForMe(net.down[i + l]) /\ net'.down[i] = net.down[i + l]
    BY <1>1, <1>3 DEF Belongs
  <2> QED BY <2>1 DEF ForMe
<1>6. Answer(readbuf') => ForMe(readbuf)'
  BY <1>1 DEF Belongs, ForMe
<1>7. Belongs'
  BY <1>4, <1>5, <1>6 DEF Belongs
<1>8. /\ Requests = {} => Requests' = {}
      /\ Answers = {} => Answers' = {}
  BY <1>2, <1>3
<1>9. Requests' \subseteq Int /\ Answers' \subseteq Int
  BY DEF Requests, Answers
<1>10. \A i, j \in Requests' : i = j
  <2> TAKE i, j \in Requests'
  <2>1. i + k = j + k
    BY <1>1, <1>2 DEF Single
  <2> QED BY <1>9, <2>1
<1>11. \A i, j \in Answers' : i = j
  <2> TAKE i, j \in Answers'
  <2>1. i + l = j + l
    BY <1>1, <1>3 DEF Single
  <2> QED BY <1>9, <2>1
<1>12. Single'
  BY <1>1, <1>8, <1>10, <1>11 DEF Single
<1>13. Asking'
  BY <1>1, <1>8 DEF Asking, Mine
<1> QED BY <1>7, <1>12, <1>13

-----------------------------------------------------------------------------
(* What most steps leave alone *)

\* The client's own code, between reading and opening connections: it may write a packet,
\* and acknowledges only what it has delivered.
LEMMA OwnStep ==
  ASSUME Shapes, Accepted, AcksBehind, AckedWasDelivered,
         DOMAIN net' = DOMAIN net, net'.down = net.down, net'.accepted = net.accepted,
         net'.torn = net.torn, net'.state = net.state,
         net'.granted = net.granted, net'.up = net.up \/ \E p : net'.up = Append(net.up, p) /\ Acknowledges(p),
         UNCHANGED <<server, options, readbuf>>, pc' # "idle",
         isconnected' \in BOOLEAN, cleansession' \in BOOLEAN, isconnected' => net.accepted \/ net.torn,
         delivered \subseteq delivered',
         pc' = "write" => (Acknowledges(sending.packet))' \/ net.torn
  PROVE  Shapes' /\ Accepted' /\ AcksBehind' /\ AckedWasDelivered'
<1>1. /\ Packets(net'.up)
      /\ \A i \in 1..Len(net'.up) : Acknowledges(net'.up[i])
  <2>1. CASE net'.up = net.up
    BY <2>1 DEF Shapes, AcksBehind
  <2>2. ASSUME NEW p, net'.up = Append(net.up, p), Acknowledges(p)
        PROVE  /\ Packets(net'.up)
               /\ \A i \in 1..Len(net'.up) : Acknowledges(net'.up[i])
    <3>1. /\ Packets(net'.up) /\ Len(net.up) \in Nat /\ Len(net'.up) = Len(net.up) + 1
          /\ \A i \in 1..Len(net.up) : net'.up[i] = net.up[i]
          /\ net'.up[Len(net.up) + 1] = p
      BY <2>2, PutFacts DEF Shapes
    <3>2. ASSUME NEW i \in 1..Len(net'.up) PROVE Acknowledges(net'.up[i])
      <4>1. CASE i = Len(net.up) + 1
        BY <2>2, <3>1, <4>1
      <4>2. CASE i # Len(net.up) + 1
        <5>1. i \in 1..Len(net.up)
          BY <3>1, <4>2
        <5> QED BY <3>1, <5>1 DEF AcksBehind
      <4> QED BY <4>1, <4>2
    <3> QED BY <3>1, <3>2
  <2> QED BY <2>1, <2>2
<1>2. Shapes'
  BY <1>1 DEF Shapes
<1>3. Accepted'
  BY DEF Accepted, FromServer
<1>4. \A p : Acknowledges(p) => Acknowledges(p)'
  BY DEF Acknowledges
<1>5. ASSUME NEW i \in 1..Len(net'.up) PROVE (Acknowledges(net.up[i]))'
  <2>1. Acknowledges(net'.up[i])
    BY <1>1
  <2> QED BY <2>1 DEF Acknowledges
<1>6. AcksBehind'
  BY <1>5 DEF AcksBehind
<1>7. AckedWasDelivered'
  BY DEF AckedWasDelivered
<1> QED BY <1>2, <1>3, <1>6, <1>7

\* The session is as it was, and what the server granted, still granted.
LEMMA SameSession ==
  ASSUME HandlersClean, HandlersWereGranted,
         UNCHANGED <<options, isconnected, cleansession, handlers>>, net.granted \subseteq net'.granted,
         net.torn => net'.torn
  PROVE  HandlersClean' /\ HandlersWereGranted'
BY DEF HandlersClean, HandlersWereGranted

\* closeSession forgets the handlers of a clean session.
LEMMA SessionClosed ==
  ASSUME HandlersClean, UNCHANGED options, closeSession
  PROVE  HandlersClean' /\ HandlersWereGranted' /\ isconnected' = FALSE /\ cleansession' = cleansession
<1>1. /\ isconnected' = FALSE /\ cleansession' = cleansession
      /\ handlers' = IF cleansession THEN [i \in DOMAIN handlers |-> NoFilter] ELSE handlers
  BY DEF closeSession, Cleaned
<1> QED BY <1>1 DEF HandlersClean, HandlersWereGranted

\* A call that is over, in a session that is closed, is owed nothing.
LEMMA Unattended ==
  ASSUME isconnected' = FALSE, pc' \in {"return", "idle"} \/ call'.api \in {"none", "yield", "disconnect"},
         pc' = "idle" => call'.api = "none"
  PROVE  OneRequest'
BY DEF OneRequest, Attended

\* What is reported has been received, when nothing more is.
LEMMA NothingTold ==
  ASSUME AcknowledgedIsReceived, told' = told, server.got \subseteq server'.got
  PROVE  AcknowledgedIsReceived'
BY DEF AcknowledgedIsReceived

-----------------------------------------------------------------------------
(* The calls *)

\* Time, and the beginning of another wait, change nothing the client relies on.
LEMMA TimeKeeps ==
  ASSUME IInv, UNCHANGED <<options, call, rc, readbuf, sending, isconnected, cleansession, handlers,
                           net, server, told, delivered>>,
         pc' = pc \/ (pc = "wait" /\ pc' = "read")
  PROVE  IInv'
<1> USE DEF IInv
<1>1. Shapes' /\ AcksBehind' /\ AckedWasDelivered'
  BY DEF Shapes, AcksBehind, Acknowledges, AckedWasDelivered
<1>2. OneRequest'
  <2>1. UpKept /\ DownKept
    BY Untouched
  <2>2. Attended' => Attended
    BY DEF Attended
  <2>3. Attended' /\ pc' = "return" => Requests = {} /\ Answers = {}
    BY <2>2 DEF OneRequest, Single
  <2> QED BY <2>1, <2>2, <2>3, StillOneRequest
<1>3. Accepted'
  BY DEF Accepted, FromServer
<1>4. Cycling'
  BY DEF Cycling, Useless
<1>5. HandlersClean' /\ HandlersWereGranted' /\ AcknowledgedIsReceived'
  BY SameSession, NothingTold
<1> QED BY <1>1, <1>2, <1>3, <1>4, <1>5

\* At rest between two calls, there is no request and no answer to come.
LEMMA NothingOwed ==
  ASSUME IInv, pc = "idle", isconnected
  PROVE  Requests = {} /\ Answers = {} /\ ~Answer(readbuf)
<1>1. Belongs /\ call.api = "none" /\ readbuf.type = Nothing
  BY DEF IInv, OneRequest, Attended, Accepted
<1>2. ASSUME NEW i \in Requests PROVE FALSE
  <2>1. Request(net.up[i]) /\ Mine(net.up[i])
    BY <1>1 DEF Requests, Belongs
  <2> QED BY <1>1, <2>1 DEF Request, Mine
<1>3. ASSUME NEW i \in Answers PROVE FALSE
  <2>1. Answer(net.down[i]) /\ ForMe(net.down[i])
    BY <1>1 DEF Answers, Belongs
  <2> QED BY <1>1, <2>1 DEF Answer, ForMe
<1> QED BY <1>1, <1>2, <1>3 DEF Answer, Nothing

\* A command that begins on a connection asks for one thing, if for anything.
LEMMA FirstAsked ==
  ASSUME UNCHANGED <<net, readbuf>>, Requests = {}, Answers = {}, ~Answer(readbuf),
         pc' \in {"return", "wait"} \/ (pc' = "write" /\ sending'.goal = "command" /\ (Mine(sending.packet))'
                              /\ (call'.api = "publish" /\ call'.qos = 0 => ~Request(sending'.packet)))
  PROVE  OneRequest'
<1>1. Requests' = {} /\ Answers' = {} /\ ~(Answer(readbuf))'
  BY DEF Requests, Answers
<1>2. Belongs' /\ Single'
  BY <1>1 DEF Belongs, Single
<1>3. Asking'
  BY <1>1 DEF Asking
<1> QED BY <1>2, <1>3 DEF OneRequest

\* connect begins on a network of its own.
LEMMA ConnectKeeps ==
  ASSUME IInv, Connect
  PROVE  IInv'
<1> USE DEF IInv
<1>0. /\ pc = "idle" /\ call'.api = "connect" /\ UNCHANGED <<options, readbuf, server, told, delivered>>
      /\ call.api = "none" /\ readbuf.type = Nothing
  BY DEF Connect, Ready, Accepted
<1>1. CASE isconnected
  <2>1. /\ pc' = "return" /\ rc' = FAILURE /\ UNCHANGED <<sending, isconnected, cleansession, handlers, net>>
    BY <1>1 DEF Connect, Refused, Return, client
  <2>2. Shapes' /\ Accepted' /\ AcksBehind' /\ AckedWasDelivered'
    <3>1. isconnected' \in BOOLEAN /\ cleansession' \in BOOLEAN /\ (isconnected' => net.accepted \/ net.torn)
      BY <2>1 DEF Shapes, Accepted
    <3> QED BY <1>0, <2>1, <3>1, OwnStep
  <2>3. OneRequest'
    BY <1>0, <1>1, <2>1, NothingOwed, FirstAsked
  <2>4. Cycling'
    BY <1>0, <2>1 DEF Cycling, FAILURE
  <2>5. HandlersClean' /\ HandlersWereGranted' /\ AcknowledgedIsReceived'
    BY <1>0, <2>1, SameSession, NothingTold
  <2> QED BY <2>2, <2>3, <2>4, <2>5
<1>2. CASE ~isconnected
  <2>1. /\ net' = NewNet /\ cleansession' = options.cleansession
        /\ pc' = "write" /\ sending' = [goal |-> "command", packet |-> [type |-> "CONNECT", clean |-> options.cleansession]]
        /\ UNCHANGED <<rc, isconnected, handlers>>
    BY <1>2 DEF Connect, Send
  <2>2. net'.up = <<>> /\ net'.down = <<>> /\ net'.torn = FALSE /\ sending'.packet.type = "CONNECT" /\ sending'.goal = "command"
    BY <2>1 DEF NewNet
  <2>3. Requests' = {} /\ Answers' = {}
    BY <2>2, Emptied
  <2>4. Shapes'
    BY <1>0, <2>1, <2>2, EmptyFacts DEF Shapes
  <2>5. OneRequest'
    <3>1. Belongs' /\ Single'
      BY <1>0, <2>1, <2>3 DEF Belongs, Single, Answer, Nothing
    <3>2. ~(Request(sending.packet))' /\ (Mine(sending.packet))' /\ ~(Answer(readbuf))'
      BY <1>0, <2>2 DEF Request, Mine, Answer, Nothing
    <3>3. Asking'
      BY <2>3, <3>2 DEF Asking
    <3> QED BY <3>1, <3>3 DEF OneRequest
  <2>6. Accepted'
    BY <1>0, <1>2, <2>1, <2>2, EmptyFacts DEF Accepted, NewNet
  <2>7. Cycling'
    BY <1>0, <1>2, <2>1, <2>2 DEF Cycling
  <2>8. HandlersClean' /\ HandlersWereGranted'
    BY <1>0, <1>2, <2>1 DEF HandlersClean, HandlersWereGranted
  <2>9. AcksBehind'
    BY <2>2, EmptyFacts DEF AcksBehind, Acknowledges
  <2>10. AckedWasDelivered' /\ AcknowledgedIsReceived'
    BY <1>0 DEF AckedWasDelivered, AcknowledgedIsReceived
  <2> QED BY <2>4, <2>5, <2>6, <2>7, <2>8, <2>9, <2>10
<1> QED BY <1>1, <1>2

\* The other commands: refused with or without closing the session, or a packet to write.
LEMMA CommandKeeps ==
  ASSUME IInv, pc = "idle", UNCHANGED <<options, readbuf, net, server, told, delivered>>,
         \/ pc' = "return" /\ rc' = FAILURE /\ UNCHANGED <<isconnected, cleansession, handlers>>
         \/ pc' = "return" /\ rc' = FAILURE /\ closeSession
         \/ /\ UNCHANGED <<isconnected, cleansession, handlers>>
            /\ pc' = "wait" /\ call'.api = "yield" /\ rc' = SUCCESS
         \/ /\ UNCHANGED <<isconnected, cleansession, handlers>>
            /\ isconnected /\ pc' = "write" /\ sending'.goal = "command" /\ rc' = rc
            /\ (Mine(sending.packet))' /\ sending'.packet.type # "PUBACK"
            /\ call'.api = "publish" /\ call'.qos = 0 => ~Request(sending'.packet)
  PROVE  IInv'
<1> USE DEF IInv
<1>1. call.api = "none" /\ readbuf.type = Nothing /\ (isconnected => net.accepted \/ net.torn)
  BY DEF Accepted
<1>2. /\ isconnected' \in BOOLEAN /\ cleansession' \in BOOLEAN /\ (isconnected' => isconnected)
      /\ HandlersClean' /\ HandlersWereGranted' /\ AcknowledgedIsReceived'
  <2>1. CASE closeSession
    BY <2>1, SessionClosed, NothingTold DEF Shapes
  <2>2. CASE UNCHANGED <<isconnected, cleansession, handlers>>
    BY <2>2, SameSession, NothingTold DEF Shapes
  <2> QED BY <2>1, <2>2
<1>3. pc' # "idle" /\ (pc' = "write" => (Acknowledges(sending.packet))')
  BY DEF Acknowledges
<1>4. Shapes' /\ Accepted' /\ AcksBehind' /\ AckedWasDelivered'
  BY <1>1, <1>2, <1>3, OwnStep
<1>5. OneRequest'
  <2>1. CASE isconnected /\ isconnected'
    <3>1. pc' \in {"return", "wait"} \/ (pc' = "write" /\ sending'.goal = "command" /\ (Mine(sending.packet))'
             /\ (call'.api = "publish" /\ call'.qos = 0 => ~Request(sending'.packet)))
      BY <2>1
    <3> QED BY <2>1, <3>1, NothingOwed, FirstAsked
  <2>2. CASE ~isconnected \/ ~isconnected'
    <3>1. isconnected' = FALSE
      BY <1>2, <2>2
    <3>2. pc' = "return" \/ call'.api = "yield"
      BY <2>2 DEF closeSession
    <3> QED BY <1>3, <3>1, <3>2, Unattended
  <2> QED BY <2>1, <2>2
<1>6. Cycling'
  <2>1. CASE pc' = "return"
    BY <2>1 DEF Cycling, FAILURE
  <2>2. CASE pc' = "wait" /\ call'.api = "yield" /\ rc' = SUCCESS
    BY <2>2 DEF Cycling, SUCCESS
  <2>3. CASE isconnected' /\ isconnected /\ pc' = "write" /\ sending'.goal = "command" /\ rc' = rc
    BY <2>3 DEF Cycling
  <2> QED BY <2>1, <2>2, <2>3
<1> QED BY <1>2, <1>4, <1>5, <1>6

\* publish.
LEMMA PublishKeeps ==
  ASSUME IInv, Publish
  PROVE  IInv'
<1>0. pc = "idle" /\ UNCHANGED <<options, readbuf, net, server, told, delivered>>
  BY DEF Publish, Ready, World
<1>1. PICK qos \in 0..1, payload \in {8, MAX_MQTT_PACKET_SIZE} :
        /\ call' = [api |-> "publish", qos |-> qos, m |-> n.out + 1]
        /\ IF ~isconnected THEN Refused(FALSE)
           ELSE /\ IF ~MQTTSerialize_publish([topic |-> 10, payload |-> payload, qos |-> qos]).ok
                   THEN Return(FAILURE)
                   ELSE /\ Send("command", [type |-> "PUBLISH", qos |-> qos,
                                           id |-> IF qos = 1 THEN getNext ELSE 0, m |-> n.out + 1])
                        /\ rc' = rc
                /\ UNCHANGED <<isconnected, cleansession, handlers>>
  BY DEF Publish
<1>2. CASE pc' = "return" /\ rc' = FAILURE /\ UNCHANGED <<isconnected, cleansession, handlers>>
  BY <1>0, <1>2, CommandKeeps
<1>3. CASE isconnected /\ UNCHANGED <<isconnected, cleansession, handlers>> /\ rc' = rc
           /\ Send("command", [type |-> "PUBLISH", qos |-> qos,
                               id |-> IF qos = 1 THEN getNext ELSE 0, m |-> n.out + 1])
  <2>1. /\ pc' = "write" /\ sending'.goal = "command" /\ sending'.packet.type = "PUBLISH"
        /\ sending'.packet.qos = qos /\ sending'.packet.m = n.out + 1
        /\ call'.api = "publish" /\ call'.m = n.out + 1 /\ call'.qos = qos
    BY <1>1, <1>3 DEF Send
  <2>2. (Mine(sending.packet))'
    BY <2>1 DEF Mine
  <2>3. call'.api = "publish" /\ call'.qos = 0 => ~Request(sending'.packet)
    BY <2>1 DEF Request
  <2> QED BY <1>0, <1>3, <2>1, <2>2, <2>3, CommandKeeps
<1>4. \/ pc' = "return" /\ rc' = FAILURE /\ UNCHANGED <<isconnected, cleansession, handlers>>
      \/ /\ isconnected /\ UNCHANGED <<isconnected, cleansession, handlers>> /\ rc' = rc
         /\ Send("command", [type |-> "PUBLISH", qos |-> qos,
                             id |-> IF qos = 1 THEN getNext ELSE 0, m |-> n.out + 1])
  BY <1>1 DEF Refused, Return, client
<1> QED BY <1>2, <1>3, <1>4

\* subscribe and unsubscribe.
LEMMA AskKeeps ==
  ASSUME IInv, NEW api, NEW type, NEW fitting, Ask(api, type, fitting),
         <<api, type>> \in {<<"subscribe", "SUBSCRIBE">>, <<"unsubscribe", "UNSUBSCRIBE">>}
  PROVE  IInv'
<1>0. pc = "idle" /\ UNCHANGED <<options, readbuf, net, server, told, delivered>>
  BY DEF Ask, Ready, World
<1>1. PICK filter \in Filters, length \in Lengths :
        /\ call' = [api |-> api, filter |-> filter]
        /\ IF ~isconnected THEN Refused(TRUE)
           ELSE IF length \notin fitting
           THEN Return(FAILURE) /\ packetid' = getNext /\ closeSession
           ELSE /\ packetid' = getNext /\ Send("command", [type |-> type, id |-> getNext, filter |-> filter])
                /\ UNCHANGED <<rc, isconnected, cleansession, ping_outstanding, handlers, inflight>>
  BY DEF Ask
<1>2. CASE pc' = "return" /\ rc' = FAILURE /\ closeSession
  BY <1>0, <1>2, CommandKeeps
<1>3. CASE isconnected /\ UNCHANGED <<rc, isconnected, cleansession, handlers>>
           /\ Send("command", [type |-> type, id |-> getNext, filter |-> filter])
  <2>1. /\ pc' = "write" /\ sending'.goal = "command" /\ sending'.packet.type = type
        /\ sending'.packet.filter = filter /\ call'.api = api /\ call'.filter = filter
    BY <1>1, <1>3 DEF Send
  <2>2. (Mine(sending.packet))' /\ call'.api # "publish" /\ sending'.packet.type # "PUBACK"
    BY <2>1 DEF Mine
  <2> QED BY <1>0, <1>3, <2>1, <2>2, CommandKeeps
<1>4. \/ pc' = "return" /\ rc' = FAILURE /\ closeSession
      \/ /\ isconnected /\ UNCHANGED <<rc, isconnected, cleansession, handlers>>
         /\ Send("command", [type |-> type, id |-> getNext, filter |-> filter])
  BY <1>1 DEF Refused, Return, CloseSession
<1> QED BY <1>2, <1>3, <1>4

\* Any call of the program.
LEMMA CallKeeps ==
  ASSUME IInv, Command
  PROVE  IInv'
<1>1. CASE Subscribe
  BY <1>1, AskKeeps DEF Subscribe
<1>2. CASE Unsubscribe
  BY <1>2, AskKeeps DEF Unsubscribe
<1>3. CASE Yield
  <2>1. /\ pc = "idle" /\ UNCHANGED <<options, readbuf, net, server, told, delivered>>
        /\ UNCHANGED <<isconnected, cleansession, handlers>>
        /\ pc' = "wait" /\ call'.api = "yield" /\ rc' = SUCCESS
    BY <1>3 DEF Yield, Ready, World, client
  <2> QED BY <2>1, CommandKeeps
<1>4. CASE Disconnect
  <2>1. /\ pc = "idle" /\ UNCHANGED <<options, readbuf, net, server, told, delivered>>
        /\ UNCHANGED <<isconnected, cleansession, handlers>> /\ isconnected /\ rc' = rc
        /\ pc' = "write" /\ sending'.goal = "command" /\ call'.api = "disconnect"
        /\ sending'.packet.type = "DISCONNECT"
    BY <1>4 DEF Disconnect, Ready, World, client, Send
  <2>2. (Mine(sending.packet))'
    BY <2>1 DEF Mine
  <2> QED BY <2>1, <2>2, CommandKeeps
<1> QED BY <1>1, <1>2, <1>3, <1>4, ConnectKeeps, PublishKeeps DEF Command

-----------------------------------------------------------------------------
(* Writing *)

\* The request of a call is written where there was none.
LEMMA RequestWritten ==
  ASSUME Shapes, NEW p, Mine(p), Requests = {}, Answers = {}, ~Answer(readbuf),
         UNCHANGED <<call, readbuf>>, net'.up = Append(net.up, p), net'.down = net.down,
         pc' \notin {"write", "return"}
  PROVE  OneRequest'
<1>1. Answers' = {} /\ ~(Answer(readbuf))'
  BY DEF Answers
<1>2. /\ Len(net.up) \in Nat /\ Len(net'.up) = Len(net.up) + 1
      /\ \A i \in 1..Len(net.up) : net'.up[i] = net.up[i]
      /\ net'.up[Len(net.up) + 1] = p
  BY PutFacts DEF Shapes
<1>3. ASSUME NEW i \in Requests' PROVE i = Len(net.up) + 1
  <2>1. i \in 1..(Len(net.up) + 1) /\ Request(net'.up[i])
    BY <1>2 DEF Requests
  <2>2. ASSUME i # Len(net.up) + 1 PROVE FALSE
    <3>1. i \in 1..Len(net.up) /\ Request(net.up[i])
      BY <1>2, <2>1, <2>2
    <3> QED BY <3>1 DEF Requests
  <2> QED BY <2>2
<1>4. ASSUME NEW i \in Requests' PROVE (Mine(net.up[i]))'
  <2>1. net'.up[i] = p
    BY <1>2, <1>3
  <2> QED BY <2>1 DEF Mine
<1>5. Belongs' /\ Single' /\ Asking'
  BY <1>1, <1>3, <1>4 DEF Belongs, Single, Asking
<1> QED BY <1>5 DEF OneRequest

\* A packet is written, and what its sender does next.
LEMMA WriteKeeps ==
  ASSUME IInv, Write
  PROVE  IInv'
<1> USE DEF IInv
<1>0. /\ pc = "write" /\ net.state # "broken" /\ UNCHANGED <<options, call, readbuf, server, delivered>>
      /\ \/ net.state = "open" /\ net' = [net EXCEPT !.up = Append(@, sending.packet)]
         \/ net' = net
      /\ Sent
  BY DEF Write
<1>1. /\ DOMAIN net' = DOMAIN net /\ net'.down = net.down /\ net'.accepted = net.accepted
      /\ net'.granted = net.granted /\ net'.state = net.state /\ net'.torn = net.torn
      /\ net'.up = net.up \/ (net'.up = Append(net.up, sending.packet) /\ ~net.torn)
  BY <1>0 DEF Shapes, NewNet
<1>2. \/ /\ pc' \in {"keepalive", "cycled", "wait"}
         /\ sending.goal \in {"ack", "ping"} => rc' = rc
         /\ pc' # "wait" => sending.goal \in {"ack", "ping"}
         /\ pc' = "wait" => rc' = SUCCESS
         /\ UNCHANGED <<isconnected, cleansession, handlers, told>>
      \/ pc' = "return" /\ rc' = SUCCESS /\ closeSession /\ told' = told
      \/ /\ pc' = "return" /\ rc' = SUCCESS /\ UNCHANGED <<isconnected, cleansession, handlers, told>>
         /\ sending.goal = "command" /\ call.api = "publish" /\ call.qos = 0
  BY <1>0 DEF Sent, Return, CloseSession, client
<1>3. /\ isconnected' \in BOOLEAN /\ cleansession' \in BOOLEAN /\ (isconnected' => isconnected)
      /\ HandlersClean' /\ HandlersWereGranted' /\ AcknowledgedIsReceived'
  <2>1. CASE closeSession /\ told' = told
    BY <1>0, <2>1, SessionClosed, NothingTold DEF Shapes
  <2>2. CASE UNCHANGED <<isconnected, cleansession, handlers, told>>
    BY <1>0, <1>1, <2>2, SameSession, NothingTold DEF Shapes
  <2> QED BY <1>2, <2>1, <2>2
<1>4. Shapes' /\ Accepted' /\ AcksBehind' /\ AckedWasDelivered'
  <2>1. ~net.torn => Acknowledges(sending.packet)
    BY <1>0 DEF AcksBehind
  <2>2. net'.up = net.up \/ \E p : net'.up = Append(net.up, p) /\ Acknowledges(p)
    BY <1>1, <2>1
  <2>3. pc' \notin {"idle", "write"} /\ (isconnected' => net.accepted \/ net.torn)
    BY <1>2, <1>3 DEF Accepted
  <2> QED BY <1>0, <1>1, <1>3, <2>2, <2>3, OwnStep
<1>5. OneRequest'
  <2>1. ~Request(sending.packet) => UpKept
    BY <1>1, Untouched, UpWritten
  <2>2. DownKept /\ UNCHANGED <<readbuf, call>> /\ (net.torn => net'.torn)
        /\ server.got \subseteq server'.got /\ net.granted \subseteq net'.granted
    BY <1>0, <1>1, Untouched
  <2>3. Attended' => Attended
    BY <1>0, <1>2, <1>3 DEF Attended
  <2>4. CASE closeSession /\ pc' = "return"
    BY <2>4, Unattended DEF closeSession
  <2>5. CASE pc' = "return" /\ sending.goal = "command" /\ call.api = "publish" /\ call.qos = 0
    <3>1. CASE Attended
      <4>1. ~Request(sending.packet) /\ Requests = {} /\ Answers = {}
        BY <1>0, <2>5, <3>1 DEF OneRequest, Asking
      <4> QED BY <2>1, <2>2, <2>3, <2>5, <4>1, StillOneRequest
    <3>2. CASE ~Attended
      BY <2>3, <3>2 DEF OneRequest
    <3> QED BY <3>1, <3>2
  <2>6. CASE pc' \in {"keepalive", "cycled", "wait"}
    <3>1. CASE ~Attended
      BY <2>3, <3>1 DEF OneRequest
    <3>2. CASE Attended /\ Request(sending.packet)
      <4>1. Mine(sending.packet) /\ Requests = {} /\ Answers = {} /\ ~Answer(readbuf)
        BY <1>0, <3>2 DEF OneRequest, Asking
      <4>2. CASE net'.up = Append(net.up, sending.packet)
        BY <1>1, <2>2, <2>6, <4>1, <4>2, RequestWritten
      <4>3. CASE net'.up = net.up
        <5>1. UpKept
          BY <4>3, Untouched
        <5> QED BY <2>2, <2>3, <2>6, <5>1, StillOneRequest
      <4> QED BY <1>1, <4>2, <4>3
    <3>3. CASE ~Request(sending.packet)
      BY <2>1, <2>2, <2>3, <2>6, <3>3, StillOneRequest
    <3> QED BY <3>1, <3>2, <3>3
  <2> QED BY <1>2, <2>4, <2>5, <2>6
<1>6. Cycling'
  <2>1. CASE pc' = "return" /\ rc' = SUCCESS
    BY <2>1 DEF Cycling, SUCCESS
  <2>2. CASE /\ pc' \in {"keepalive", "cycled", "wait"}
             /\ sending.goal \in {"ack", "ping"} => rc' = rc
             /\ pc' # "wait" => sending.goal \in {"ack", "ping"}
             /\ pc' = "wait" => rc' = SUCCESS
             /\ UNCHANGED isconnected
    <3>1. (Useless => Useless') /\ (call.api = "subscribe" => isconnected \/ Useless)
      BY <1>0, <1>1 DEF Cycling, Useless
    <3>2. pc' # "wait" => rc' = SUCCESS
      BY <1>0, <2>2 DEF Cycling
    <3> QED BY <1>0, <2>2, <3>1, <3>2 DEF Cycling, SUCCESS
  <2> QED BY <1>2, <2>1, <2>2
<1> QED BY <1>3, <1>4, <1>5, <1>6

\* Nothing is asked by connect itself, whatever it is at.
LEMMA ConnectAsksNothing ==
  ASSUME IInv, call.api = "connect", pc # "return"
  PROVE  Requests = {} /\ Answers = {} /\ ~Answer(readbuf)
<1>1. Belongs
  BY DEF IInv, OneRequest, Attended
<1>2. ASSUME NEW i \in Requests PROVE FALSE
  <2>1. Request(net.up[i]) /\ Mine(net.up[i])
    BY <1>1 DEF Requests, Belongs
  <2> QED BY <2>1 DEF Request, Mine
<1>3. ASSUME NEW i \in Answers PROVE FALSE
  <2>1. Answer(net.down[i]) /\ ForMe(net.down[i])
    BY <1>1 DEF Answers, Belongs
  <2> QED BY <2>1 DEF Answer, ForMe
<1>4. ~Answer(readbuf)
  BY <1>1 DEF Belongs, Answer, ForMe
<1> QED BY <1>2, <1>3, <1>4

\* A packet that is not written, or only in part, ends the call or the cycle.
LEMMA WriteFailsKeeps ==
  ASSUME IInv, WriteFails
  PROVE  IInv'
<1> USE DEF IInv
<1>0. /\ pc = "write" /\ UNCHANGED <<options, call, readbuf, server, told, delivered>>
      /\ \/ net' = [net EXCEPT !.up = Append(@, [type |-> "torn"])]
         \/ net' = net
      /\ NotSent
  BY DEF WriteFails
<1>1. /\ DOMAIN net' = DOMAIN net /\ net'.down = net.down /\ net'.accepted = net.accepted
      /\ net'.granted = net.granted /\ net'.state = net.state /\ net'.torn = net.torn
      /\ net'.up = net.up \/ net'.up = Append(net.up, [type |-> "torn"])
  BY <1>0 DEF Shapes, NewNet
<1>2. \/ /\ pc' = "cycled" /\ rc' = FAILURE /\ UNCHANGED <<isconnected, cleansession, handlers>>
      \/ /\ pc' = "return" /\ rc' = FAILURE /\ UNCHANGED <<isconnected, cleansession, handlers>>
         /\ call.api = "connect"
      \/ pc' = "return" /\ rc' = FAILURE /\ closeSession
  BY <1>0 DEF NotSent, Return, CloseSession, client
<1>3. /\ isconnected' \in BOOLEAN /\ cleansession' \in BOOLEAN /\ (isconnected' => isconnected)
      /\ HandlersClean' /\ HandlersWereGranted' /\ AcknowledgedIsReceived'
  <2>1. CASE closeSession
    BY <1>0, <2>1, SessionClosed, NothingTold DEF Shapes
  <2>2. CASE UNCHANGED <<isconnected, cleansession, handlers>>
    BY <1>0, <1>1, <2>2, SameSession, NothingTold DEF Shapes
  <2> QED BY <1>2, <2>1, <2>2
<1>4. Shapes' /\ Accepted' /\ AcksBehind' /\ AckedWasDelivered'
  <2>1. Acknowledges([type |-> "torn"])
    BY DEF Acknowledges
  <2>2. net'.up = net.up \/ \E p : net'.up = Append(net.up, p) /\ Acknowledges(p)
    BY <1>1, <2>1
  <2>3. pc' \notin {"idle", "write"} /\ (isconnected' => net.accepted \/ net.torn)
    BY <1>2, <1>3 DEF Accepted
  <2> QED BY <1>0, <1>1, <1>3, <2>2, <2>3, OwnStep
<1>5. OneRequest'
  <2>1. ~Request([type |-> "torn"])
    BY DEF Request
  <2>2. UpKept /\ DownKept
    BY <1>1, <2>1, Untouched, UpWritten
  <2>3. Attended' => Attended
    BY <1>0, <1>2, <1>3 DEF Attended
  <2>4. CASE pc' = "return" /\ closeSession
    BY <2>4, Unattended DEF closeSession
  <2>5. CASE pc' = "cycled" \/ call.api = "connect"
    <3>1. pc' = "return" => Requests = {} /\ Answers = {}
      BY <1>0, <2>5, ConnectAsksNothing
    <3>2. /\ server.got \subseteq server'.got /\ net.granted \subseteq net'.granted /\ pc' # "write"
          /\ net.torn => net'.torn
      BY <1>0, <1>1, <1>2
    <3> QED BY <1>0, <2>2, <2>3, <3>1, <3>2, StillOneRequest
  <2> QED BY <1>2, <2>4, <2>5
<1>6. Cycling'
  BY <1>2 DEF Cycling, FAILURE
<1> QED BY <1>3, <1>4, <1>5, <1>6

-----------------------------------------------------------------------------
(* Reading, and what is done with it *)

\* readPacket.
LEMMA ReadKeeps ==
  ASSUME IInv, Read
  PROVE  IInv'
<1> USE DEF IInv
<1>0. /\ pc = "read" /\ UNCHANGED <<options, call, sending, isconnected, cleansession, handlers, server, told, delivered>>
  BY DEF Read, ReadPacket, ReadLong, ReadHeader, ReadEnd, ReadError, Reading, client
<1>1. \/ /\ net.down # <<>> /\ net' = [net EXCEPT !.down = Tail(@)] /\ readbuf' = Head(net.down)
         /\ rc' = SUCCESS /\ pc' = "handle"
      \/ /\ net.down # <<>> /\ net' = LeftUnread /\ readbuf' = NoPacket
         /\ rc' \in {BUFFER_OVERFLOW, 1} /\ pc' = "cycled"
      \/ /\ net.down # <<>> /\ net.state = "closed" /\ net' = [net EXCEPT !.down = <<>>, !.torn = TRUE]
         /\ readbuf' = Header(Head(net.down)) /\ rc' = SUCCESS /\ pc' = "handle"
      \/ /\ net.down = <<>> /\ net.state = "closed" /\ net' = net /\ readbuf' = NoPacket
         /\ rc' = SUCCESS /\ pc' = "handle"
      \/ net' = net /\ readbuf' = NoPacket /\ rc' = FAILURE /\ pc' = "cycled"
  BY DEF Read, ReadPacket, ReadLong, ReadHeader, ReadEnd, ReadError, Got, NotGot
<1>2. /\ DOMAIN net' = DOMAIN net /\ net'.up = net.up /\ net'.accepted = net.accepted
      /\ net'.granted = net.granted /\ (net.torn => net'.torn)
      /\ net'.torn => net'.state # "open"
      /\ net'.down \in {net.down, <<>>} \/ (net.down # <<>> /\ net'.down = Tail(net.down))
  BY <1>1 DEF Shapes, NewNet, LeftUnread
<1>3. /\ Packets(net'.down)
      /\ \A i \in 1..Len(net'.down) : FromServer(net'.down[i])
  <2>1. CASE net'.down = net.down
    BY <2>1 DEF Shapes, Accepted
  <2>2. CASE net'.down = <<>>
    BY <2>2, EmptyFacts
  <2>3. CASE net.down # <<>> /\ net'.down = Tail(net.down)
    <3>1. /\ Packets(net'.down) /\ Len(net.down) \in Nat /\ Len(net'.down) = Len(net.down) - 1
          /\ \A i \in 1..(Len(net.down) - 1) : net'.down[i] = net.down[i + 1]
      BY <2>3, TakeFacts DEF Shapes
    <3>2. ASSUME NEW i \in 1..Len(net'.down) PROVE FromServer(net'.down[i])
      <4>1. i + 1 \in 1..Len(net.down) /\ net'.down[i] = net.down[i + 1]
        BY <3>1
      <4>2. FromServer(net.down[i + 1])
        BY <4>1 DEF Accepted
      <4> QED BY <4>1, <4>2
    <3> QED BY <3>1, <3>2
  <2> QED BY <1>2, <2>1, <2>2, <2>3
<1>4. Shapes' /\ AcksBehind' /\ AckedWasDelivered'
  BY <1>0, <1>1, <1>2, <1>3 DEF Shapes, AcksBehind, Acknowledges, AckedWasDelivered
<1>5. \/ readbuf' = NoPacket
      \/ net.down # <<>> /\ net'.down = Tail(net.down) /\ readbuf' = Head(net.down)
      \/ net.down # <<>> /\ net'.down = <<>> /\ readbuf' = Header(Head(net.down)) /\ net'.torn = TRUE
  BY <1>1 DEF Shapes, NewNet
<1>10. \A p : Header(p).type = p.type /\ Header(p).rem_len = 0
  BY DEF Header
<1>6. Accepted'
  <2>1. net.down # <<>> => FromServer(Head(net.down))
    BY TakeFacts DEF Shapes, Accepted
  <2>2. ASSUME NEW i \in 1..Len(net'.down) PROVE (FromServer(net.down[i]))'
    <3>1. FromServer(net'.down[i])
      BY <1>3
    <3> QED BY <1>2, <3>1 DEF FromServer
  <2>3. (readbuf.type # Nothing => FromServer(readbuf))'
    <3>1. CASE readbuf' = NoPacket
      BY <3>1 DEF NoPacket
    <3>2. CASE net.down # <<>> /\ readbuf' = Head(net.down)
      BY <1>2, <2>1, <3>2 DEF FromServer
    <3>3. CASE net.down # <<>> /\ readbuf' = Header(Head(net.down)) /\ net'.torn = TRUE
      <4>1. /\ readbuf'.type = Head(net.down).type /\ MQTTDeserialize_connack(readbuf', SUCCESS) = SUCCESS
            /\ FromServer(Head(net.down))
        BY <1>10, <2>1, <3>3 DEF MQTTDeserialize_connack
      <4> QED BY <1>2, <3>3, <4>1 DEF FromServer, Answer, SUCCESS
    <3> QED BY <1>5, <3>1, <3>2, <3>3
  <2>4. pc' # "idle" /\ (isconnected' => net'.accepted \/ net'.torn) /\ (~net'.accepted => net'.granted = {})
    BY <1>0, <1>1, <1>2 DEF Accepted
  <2> QED BY <2>2, <2>3, <2>4 DEF Accepted
<1>7. OneRequest'
  <2>1. UpKept /\ DownKept
    BY <1>2, Untouched, Emptied, DownTaken
  <2>2. pc' \notin {"write", "return"} /\ (Attended' => Attended)
    BY <1>0, <1>1 DEF Attended
  <2>3. CASE ~Answer(readbuf')
    BY <1>0, <1>2, <2>1, <2>2, <2>3, StillOneRequest
  <2>4. CASE Answer(readbuf') /\ Attended
    <3>1. readbuf' # NoPacket
      BY <2>4 DEF Answer, NoPacket, Nothing
    <3>2. /\ net.down # <<>> /\ readbuf'.type = Head(net.down).type
          /\ \/ net'.down = Tail(net.down) /\ readbuf' = Head(net.down)
             \/ net'.down = <<>> /\ net'.torn = TRUE
      BY <1>5, <1>10, <3>1
    <3>3. Belongs /\ Single
      BY <2>4 DEF OneRequest
    <3>4. 1 \in Answers /\ Answers' = {} /\ Head(net.down) = net.down[1]
      <4>1. Answer(Head(net.down)) /\ Head(net.down) = net.down[1] /\ 1 \in 1..Len(net.down)
        BY <2>4, <3>2, TakeFacts DEF Answer, Shapes
      <4>2. CASE net'.down = Tail(net.down)
        BY <3>2, <3>3, <4>1, <4>2, DownTaken DEF Single, Shapes
      <4>3. CASE net'.down = <<>>
        BY <4>1, <4>3, Emptied DEF Answers
      <4> QED BY <3>2, <4>2, <4>3
    <3>5. Requests' = {}
      BY <1>2, <3>3, <3>4 DEF Single, Requests
    <3>6. (ForMe(readbuf))'
      <4>1. ForMe(Head(net.down))
        BY <3>3, <3>4 DEF Belongs
      <4> QED BY <1>0, <1>2, <3>2, <4>1 DEF ForMe
    <3>7. Belongs' /\ Single' /\ Asking'
      BY <2>2, <3>4, <3>5, <3>6 DEF Belongs, Single, Asking
    <3> QED BY <3>7 DEF OneRequest
  <2>5. CASE ~Attended
    BY <2>2, <2>5 DEF OneRequest
  <2> QED BY <2>3, <2>4, <2>5
<1>8. Cycling'
  <2>1. readbuf' = NoPacket => readbuf'.type = Nothing
    BY DEF NoPacket
  <2>2. CASE pc' = "handle" /\ rc' = SUCCESS /\ (Useless => Useless')
    BY <1>0, <2>2 DEF Cycling, SUCCESS
  <2>3. CASE rc' \in {BUFFER_OVERFLOW, FAILURE} /\ pc' = "cycled"
    BY <1>0, <2>3 DEF Cycling, BUFFER_OVERFLOW, FAILURE
  <2>4. CASE pc' = "cycled" /\ rc' = 1 /\ net' = LeftUnread /\ readbuf' = NoPacket
    <3>1. Useless'
      BY <2>1, <2>4 DEF Useless, Shapes, NewNet, LeftUnread
    <3> QED BY <2>4, <3>1 DEF Cycling
  <2>5. /\ net.down # <<>> => ~Useless
        /\ net' = net /\ readbuf' = NoPacket => (Useless => Useless')
    BY <2>1 DEF Useless
  <2> QED BY <1>1, <2>2, <2>3, <2>4, <2>5
<1>9. HandlersClean' /\ HandlersWereGranted' /\ AcknowledgedIsReceived'
  BY <1>0, <1>2, SameSession, NothingTold
<1> QED BY <1>4, <1>6, <1>7, <1>8, <1>9

\* The rest of a cycle up to its end: it writes nothing but an acknowledgement of what it
\* has delivered, or a ping.
LEMMA HandleKeeps ==
  ASSUME IInv, HandlePublish \/ HandleOther \/ Keepalive
  PROVE  IInv'
<1> USE DEF IInv
<1>0. /\ pc \in {"handle", "keepalive"}
      /\ UNCHANGED <<options, call, readbuf, isconnected, cleansession, handlers, net, server, told>>
      /\ delivered \subseteq delivered'
  BY DEF HandlePublish, HandleOther, Keepalive, Taken, client
<1>1. rc = SUCCESS
  BY <1>0 DEF Cycling
<1>2. pc' \in {"write", "keepalive", "cycled"}
  BY DEF HandlePublish, HandleOther, Keepalive, Send
<1>3. pc' = "write" => /\ sending'.goal \in {"ack", "ping"} /\ rc' = rc
                       /\ ~Request(sending'.packet) /\ ((Acknowledges(sending.packet))' \/ net.torn)
  <2>1. CASE HandlePublish
    <3>1. (pc' = "write" => sending' = [goal |-> "ack", packet |-> Ack(readbuf)]) /\ rc' = rc
      BY <2>1 DEF HandlePublish, Send
    <3>2. Ack(readbuf).type = "PUBACK"
      BY DEF Ack
    <3>3. CASE readbuf.rem_len = 0
      <4>1. net.torn
        BY <2>1, <3>3 DEF HandlePublish, Accepted, FromServer, Nothing
      <4> QED BY <3>1, <3>2, <4>1 DEF Request
    <3>4. CASE readbuf.rem_len # 0
      <4>1. [m |-> readbuf.m, by |-> {handlers[i] : i \in Handlers(readbuf.topic)}] \in delivered'
        BY <2>1, <3>4 DEF HandlePublish, Taken
      <4>2. readbuf.m \in {d.m : d \in delivered'} /\ Ack(readbuf).m = readbuf.m
        BY <3>4, <4>1 DEF Ack
      <4> QED BY <3>1, <3>2, <4>2 DEF Request, Acknowledges
    <3> QED BY <3>3, <3>4
  <2>2. CASE HandleOther
    BY <2>2 DEF HandleOther
  <2>3. CASE Keepalive
    <3>1. pc' = "write" => sending' = [goal |-> "ping", packet |-> [type |-> "PINGREQ"]] /\ rc' = rc
      BY <2>3 DEF Keepalive, Send
    <3> QED BY <3>1 DEF Request, Acknowledges
  <2> QED BY <2>1, <2>2, <2>3
<1>4. Shapes' /\ Accepted' /\ AcksBehind' /\ AckedWasDelivered'
  <2>1. isconnected' \in BOOLEAN /\ cleansession' \in BOOLEAN /\ (isconnected' => net.accepted \/ net.torn)
    BY <1>0 DEF Shapes, Accepted
  <2> QED BY <1>0, <1>2, <1>3, <2>1, OwnStep
<1>5. OneRequest'
  <2>1. UpKept /\ DownKept
    BY <1>0, Untouched
  <2>2. Attended' => Attended
    BY <1>0, <1>2 DEF Attended
  <2> QED BY <1>0, <1>2, <1>3, <2>1, <2>2, StillOneRequest
<1>6. Cycling'
  <2>1. rc' \in {rc, FAILURE} \/ (readbuf.type = "UNSUBACK" /\ pc' = "cycled" /\ rc' = 1)
    <3>1. CASE HandleOther
      <4>1. readbuf.type \in {Nothing, "CONNACK", "PUBACK", "SUBACK", "PINGRESP", "UNSUBACK"}
        BY <3>1 DEF HandleOther, Accepted, FromServer
      <4> QED BY <3>1, <4>1 DEF HandleOther
    <3>2. CASE ~HandleOther
      BY <3>2 DEF HandlePublish, Keepalive
    <3> QED BY <3>1, <3>2
  <2>2. rc' # SUCCESS => pc' = "cycled"
    BY <1>1 DEF HandlePublish, HandleOther, Keepalive, Send
  <2>3. call.api = "subscribe" /\ ~isconnected => Useless
    BY <1>0 DEF Cycling
  <2>4. rc' \in Int /\ (rc' > 0 => readbuf'.type = "UNSUBACK")
    BY <1>0, <1>1, <2>1 DEF SUCCESS, FAILURE
  <2> QED BY <1>0, <1>1, <1>2, <1>3, <2>2, <2>3, <2>4 DEF Cycling, Useless
<1>7. HandlersClean' /\ HandlersWereGranted' /\ AcknowledgedIsReceived'
  BY <1>0, SameSession, NothingTold
<1> QED BY <1>4, <1>5, <1>6, <1>7

\* The end of a cycle that failed: the call goes on without its session, but with its request.
LEMMA CycleFailedKeeps ==
  ASSUME IInv, CycleFailed
  PROVE  IInv'
<1> USE DEF IInv
<1>0. /\ pc = "cycled" /\ rc # SUCCESS /\ isconnected /\ closeSession
      /\ UNCHANGED <<options, call, pc, rc, readbuf, sending, net, server, told, delivered>>
  BY DEF CycleFailed, CloseSession
<1>1. /\ isconnected' = FALSE /\ cleansession' = cleansession
      /\ HandlersClean' /\ HandlersWereGranted' /\ AcknowledgedIsReceived'
  BY <1>0, SessionClosed, NothingTold
<1>2. Shapes' /\ Accepted' /\ AcksBehind' /\ AckedWasDelivered'
  <2>1. isconnected' \in BOOLEAN /\ cleansession' \in BOOLEAN
    BY <1>1 DEF Shapes
  <2> QED BY <1>0, <1>1, <2>1, OwnStep
<1>3. OneRequest'
  <2>1. UpKept /\ DownKept /\ Attended
    BY <1>0, Untouched DEF Attended
  <2> QED BY <1>0, <2>1, StillOneRequest
<1>4. Cycling'
  <2>1. rc > 0 => readbuf.type = "UNSUBACK" \/ Useless
    BY <1>0 DEF Cycling
  <2>2. readbuf.type = "UNSUBACK" => call.api = "unsubscribe"
    BY <1>0 DEF OneRequest, Attended, Belongs, Answer, ForMe
  <2>3. rc \in Int /\ rc # 0
    BY <1>0 DEF Cycling, SUCCESS
  <2> QED BY <1>0, <2>1, <2>2, <2>3 DEF Cycling, Useless
<1> QED BY <1>1, <1>2, <1>3, <1>4

\* The caller has its answer.
LEMMA LeaveKeeps ==
  ASSUME IInv, Leave
  PROVE  IInv'
<1> USE DEF IInv
<1>0. /\ pc = "return" /\ pc' = "idle" /\ call'.api = "none" /\ readbuf' = NoPacket /\ rc' = SUCCESS
      /\ UNCHANGED <<options, isconnected, cleansession, handlers, net, server, told, delivered>>
  BY DEF Leave, NoCall, client
<1>1. readbuf'.type = Nothing
  BY <1>0 DEF NoPacket
<1>2. Shapes' /\ AcksBehind' /\ AckedWasDelivered' /\ AcknowledgedIsReceived'
  BY <1>0 DEF Shapes, AcksBehind, Acknowledges, AckedWasDelivered, AcknowledgedIsReceived
<1>3. Accepted'
  BY <1>0, <1>1 DEF Accepted, FromServer
<1>4. Cycling'
  BY <1>0 DEF Cycling, SUCCESS
<1>5. HandlersClean' /\ HandlersWereGranted'
  BY <1>0, SameSession
<1>6. OneRequest'
  <2>1. CASE isconnected
    <3>1. Requests = {} /\ Answers = {}
      BY <1>0, <2>1 DEF OneRequest, Attended, Single
    <3>2. Requests' = {} /\ Answers' = {} /\ ~(Answer(readbuf))'
      BY <1>0, <1>1, <3>1 DEF Requests, Answers, Answer, Nothing
    <3> QED BY <1>0, <3>2 DEF OneRequest, Belongs, Single, Asking
  <2>2. CASE ~isconnected
    <3>1. isconnected' = FALSE
      BY <1>0, <2>2 DEF Shapes
    <3> QED BY <1>0, <3>1, Unattended
  <2> QED BY <2>1, <2>2
<1> QED BY <1>2, <1>3, <1>4, <1>5, <1>6

-----------------------------------------------------------------------------
(* The end of a call *)

\* A call that asks for nothing has nothing to come.
LEMMA AsksNothing ==
  ASSUME IInv, Attended, call.api \in {"connect", "yield"}
  PROVE  Requests = {} /\ Answers = {} /\ ~Answer(readbuf)
<1>1. Belongs
  BY DEF IInv, OneRequest
<1>2. ASSUME NEW i \in Requests PROVE FALSE
  <2>1. Request(net.up[i]) /\ Mine(net.up[i])
    BY <1>1 DEF Requests, Belongs
  <2> QED BY <2>1 DEF Request, Mine
<1>3. ASSUME NEW i \in Answers PROVE FALSE
  <2>1. Answer(net.down[i]) /\ ForMe(net.down[i])
    BY <1>1 DEF Answers, Belongs
  <2> QED BY <2>1 DEF Answer, ForMe
<1>4. ~Answer(readbuf)
  BY <1>1 DEF Belongs, Answer, ForMe
<1> QED BY <1>2, <1>3, <1>4

\* A call is over, and its caller is told how it ended.
Over == pc' = "return" /\ rc' \in Int /\ call' = call
SameSessionVars == UNCHANGED <<isconnected, cleansession, handlers>>

\* connect sends again what was in flight when the session was lost.
Resends ==
  /\ call.api = "connect" /\ call'.api = "resend" /\ pc' = "write" /\ rc' \in Int
  /\ sending'.goal = "command" /\ sending'.packet.type = "PUBLISH" /\ (Mine(sending.packet))'
  /\ SameSessionVars /\ told' = told

\* connect, and the resending after it, make the session one of the connection.
Connects ==
  /\ Over /\ isconnected' = TRUE /\ (net.accepted \/ net.torn) /\ UNCHANGED <<cleansession, handlers>>
  /\ \/ call.api = "connect" /\ told' = told
     \/ call.api = "resend" /\ readbuf.type = "PUBACK" /\ told' = told \cup {call.m}

\* publish reports the PUBACK.
Acknowledged ==
  Over /\ SameSessionVars /\ call.api = "publish" /\ readbuf.type = "PUBACK" /\ told' = told \cup {call.m}

\* subscribe sets the handler of its filter, and unsubscribe removes it.
Registers ==
  /\ Over /\ UNCHANGED <<isconnected, cleansession, told>> /\ isconnected
  /\ call.api = "subscribe" /\ readbuf.type = "SUBACK" /\ MQTTDeserialize_suback(readbuf, 0) # 128
  /\ DOMAIN handlers' = DOMAIN handlers
  /\ \A i \in DOMAIN handlers : handlers'[i] \in {handlers[i], call.filter}
Unregisters ==
  /\ Over /\ UNCHANGED <<isconnected, cleansession, told>>
  /\ call.api = "unsubscribe" /\ readbuf.type = "UNSUBACK"
  /\ DOMAIN handlers' = DOMAIN handlers
  /\ \A i \in DOMAIN handlers : handlers'[i] \in {handlers[i], NoFilter}

\* Nothing changes for the session; what was asked has been answered.
Ends == Over /\ SameSessionVars /\ told' = told /\ (call.api \in {"connect", "yield"} \/ Answer(readbuf))

Outcome ==
  \/ Over /\ closeSession /\ told' = told
  \/ Ends \/ Connects \/ Acknowledged \/ Registers \/ Unregisters \/ Resends

\* Resending, or returning when there is nothing to resend.
LEMMA ResendOutcome ==
  ASSUME NEW status \in Int, Resend(status), call.api = "connect"
  PROVE  /\ pc' = "return" /\ rc' = status /\ call' = call /\ inflight.id = 0
         \/ /\ inflight.id # 0 /\ call'.api = "resend" /\ pc' = "write" /\ rc' \in Int
            /\ sending'.goal = "command" /\ sending'.packet.type = "PUBLISH" /\ (Mine(sending.packet))'
<1>1. CASE inflight.id = 0
  BY <1>1 DEF Resend, Return
<1>2. CASE inflight.id # 0
  <2>1. /\ call' = [api |-> "resend", m |-> inflight.m] /\ rc' = status /\ pc' = "write"
        /\ sending' = [goal |-> "command",
                       packet |-> [type |-> "PUBLISH", qos |-> 1, id |-> inflight.id, m |-> inflight.m]]
    BY <1>2 DEF Resend, Send
  <2>2. (Mine(sending.packet))'
    BY <2>1 DEF Mine
  <2> QED BY <1>2, <2>1, <2>2
<1> QED BY <1>1, <1>2

\* A call that has no answer.
LEMMA GiveUpOutcome ==
  ASSUME GiveUp
  PROVE  Outcome
<1>1. FAILURE \in Int /\ SUCCESS \in Int
  BY DEF FAILURE, SUCCESS
<1>2. CASE call.api = "connect"
  <2>1. Resend(FAILURE) /\ SameSessionVars /\ told' = told
    BY <1>2 DEF GiveUp, client, SameSessionVars
  <2> QED BY <1>1, <1>2, <2>1, ResendOutcome DEF Outcome, Ends, Resends, Over
<1>3. CASE call.api = "yield"
  <2>1. pc' = "return" /\ rc' \in {FAILURE, SUCCESS} /\ call' = call /\ SameSessionVars /\ told' = told
    BY <1>3 DEF GiveUp, Return, client, SameSessionVars
  <2> QED BY <1>1, <1>3, <2>1 DEF Outcome, Ends, Over
<1>4. CASE call.api \notin {"connect", "yield"}
  <2>1. pc' = "return" /\ rc' = FAILURE /\ call' = call /\ closeSession /\ told' = told
    BY <1>4 DEF GiveUp, Return, CloseSession
  <2> QED BY <1>1, <2>1 DEF Outcome, Over
<1> QED BY <1>2, <1>3, <1>4

\* setMessageHandler changes at most the one entry that it gives the filter.
LEMMA HandlerSet ==
  ASSUME NEW filter
  PROVE  /\ DOMAIN setMessageHandler(filter).set = DOMAIN handlers
         /\ \A i \in DOMAIN handlers : setMessageHandler(filter).set[i] \in {handlers[i], filter}
<1> DEFINE same == {i \in DOMAIN handlers : handlers[i] = filter}
           free == {i \in DOMAIN handlers : handlers[i] = NoFilter}
           slots == IF same # {} THEN same ELSE free
           slot == CHOOSE i \in slots : \A j \in slots : i <= j
<1>1. setMessageHandler(filter).set =
        IF slots = {} THEN handlers ELSE [handlers EXCEPT ![slot] = filter]
  BY DEF setMessageHandler
<1> HIDE DEF slot, slots
<1> QED BY <1>1

\* A call whose answer has come.
LEMMA FinishOutcome ==
  ASSUME IInv, Finish, readbuf.type = Awaited, pc = "cycled", rc >= 0
  PROVE  Outcome
<1>1. FAILURE \in Int /\ SUCCESS \in Int
  BY DEF FAILURE, SUCCESS
<1>2. CASE call.api = "connect"
  <2> DEFINE status == IF Parsed(readbuf.rem_len, 2) THEN MQTTDeserialize_connack(readbuf, SUCCESS) ELSE FAILURE
  <2>1. /\ Resend(status)
        /\ IF status = SUCCESS /\ inflight.id = 0 THEN Connected ELSE SameSessionVars
        /\ told' = told
    BY <1>2 DEF Finish, client, SameSessionVars
  <2>2. FromServer(readbuf) /\ readbuf.type = "CONNACK"
    BY <1>2 DEF IInv, Accepted, Awaited, Nothing
  <2>3. status \in Int /\ (status = SUCCESS => net.accepted \/ net.torn)
    BY <1>1, <2>2 DEF FromServer, FAILURE, SUCCESS
  <2> HIDE DEF status
  <2>4. CASE status = SUCCESS /\ inflight.id = 0
    BY <1>2, <2>1, <2>3, <2>4, ResendOutcome DEF Outcome, Connects, Connected, Over
  <2>5. CASE ~(status = SUCCESS /\ inflight.id = 0)
    BY <1>2, <2>1, <2>3, <2>5, ResendOutcome DEF Outcome, Ends, Resends, Over
  <2> QED BY <2>4, <2>5
<1>3. CASE call.api \in {"publish", "resend"} /\ Parsed(readbuf.rem_len, 2)
  <2>1. /\ pc' = "return" /\ rc' = SUCCESS /\ told' = told \cup {call.m} /\ call' = call
        /\ IF call.api = "resend" THEN Connected ELSE SameSessionVars
    BY <1>3 DEF Finish, Return, SameSessionVars
  <2>2. readbuf.type = "PUBACK" /\ net.accepted
    BY <1>3 DEF IInv, Accepted, Awaited, Nothing, FromServer, Answer
  <2> QED BY <1>1, <1>3, <2>1, <2>2 DEF Outcome, Connects, Acknowledged, Connected, Over
<1>4. CASE call.api = "subscribe"
  <2>1. readbuf.type = "SUBACK" /\ Answer(readbuf)
    BY <1>4 DEF Awaited, Answer
  <2>3. isconnected
    <3>1. ~Useless /\ rc \in Int
      BY <2>1 DEF Useless, Nothing, IInv, Cycling
    <3> QED BY <1>4, <3>1 DEF IInv, Cycling
  <2>2. \/ Return(SUCCESS) /\ SameSessionVars /\ told' = told /\ call' = call
        \/ /\ MQTTDeserialize_suback(readbuf, 0) # 128
           /\ Return(SUCCESS) /\ handlers' = setMessageHandler(call.filter).set
           /\ UNCHANGED <<isconnected, cleansession, told, call>>
        \/ Return(FAILURE) /\ closeSession /\ told' = told /\ call' = call
    BY <1>4 DEF Finish, client, SameSessionVars, CloseSession
  <2> QED BY <1>1, <1>4, <2>1, <2>2, <2>3, HandlerSet DEF Outcome, Ends, Registers, Over, Return
<1>5. CASE call.api = "unsubscribe"
  <2>1. readbuf.type = "UNSUBACK"
    BY <1>5 DEF Awaited
  <2>2. /\ Return(SUCCESS) /\ UNCHANGED <<isconnected, cleansession, told, call>>
        /\ handlers' = [i \in DOMAIN handlers |-> IF handlers[i] = call.filter THEN NoFilter ELSE handlers[i]]
    BY <1>5 DEF Finish
  <2>3. /\ DOMAIN handlers' = DOMAIN handlers
        /\ \A i \in DOMAIN handlers : handlers'[i] \in {handlers[i], NoFilter}
    BY <2>2
  <2> QED BY <1>1, <1>5, <2>1, <2>2, <2>3 DEF Outcome, Unregisters, Over, Return
<1>6. CASE /\ call.api \notin {"connect", "subscribe", "unsubscribe"}
           /\ ~(call.api \in {"publish", "resend"} /\ Parsed(readbuf.rem_len, 2))
  <2>1. Return(FAILURE) /\ closeSession /\ told' = told /\ call' = call
    BY <1>6 DEF Finish, CloseSession
  <2> QED BY <1>1, <2>1 DEF Outcome, Over, Return
<1> QED BY <1>2, <1>3, <1>4, <1>5, <1>6

\* However a call ends, what its caller may rely on is so.
LEMMA OutcomeKeeps ==
  ASSUME IInv, Outcome, pc \in {"wait", "cycled"},
         UNCHANGED <<options, readbuf, net, server, delivered>>
  PROVE  IInv'
<1> USE DEF IInv
<1>1. /\ isconnected' \in BOOLEAN /\ cleansession' \in BOOLEAN /\ (isconnected' => net.accepted \/ net.torn)
      /\ pc' # "idle"
  <2>1. isconnected \in BOOLEAN /\ cleansession \in BOOLEAN /\ (isconnected => net.accepted \/ net.torn)
    BY DEF Shapes, Accepted
  <2>2. CASE Over /\ closeSession
    BY <2>1, <2>2, SessionClosed DEF Over
  <2>3. CASE Over /\ SameSessionVars
    BY <2>1, <2>3 DEF Over, SameSessionVars
  <2>4. CASE Connects
    BY <2>1, <2>4 DEF Connects, Over
  <2>5. CASE Over /\ UNCHANGED <<isconnected, cleansession>>
    BY <2>1, <2>5 DEF Over
  <2>6. CASE Resends
    BY <2>1, <2>6 DEF Resends, SameSessionVars
  <2> QED BY <2>2, <2>3, <2>4, <2>5, <2>6 DEF Outcome, Ends, Acknowledged, Registers, Unregisters
<1>2. pc' = "write" => (Acknowledges(sending.packet))'
  BY DEF Outcome, Ends, Connects, Acknowledged, Registers, Unregisters, Resends, Over, Acknowledges
<1>3. Shapes' /\ Accepted' /\ AcksBehind' /\ AckedWasDelivered'
  BY <1>1, <1>2, OwnStep
<1>4. UpKept /\ DownKept
  BY Untouched
<1>5. ASSUME Answer(readbuf), Over, call.api \notin {"none", "yield", "disconnect"}
      PROVE  OneRequest' /\ ForMe(readbuf)
  <2>1. Attended
    BY <1>5 DEF Attended
  <2>2. Requests = {} /\ Answers = {} /\ ForMe(readbuf)
    BY <1>5, <2>1 DEF OneRequest, Single, Belongs
  <2> QED BY <1>4, <1>5, <2>1, <2>2, StillOneRequest DEF Over
<1>6. ASSUME Over PROVE Cycling'
  BY <1>6 DEF Cycling, Over
<1>7. CASE Over /\ closeSession /\ told' = told
  <2>1. HandlersClean' /\ HandlersWereGranted' /\ isconnected' = FALSE
    BY <1>7, SessionClosed
  <2>2. OneRequest' /\ AcknowledgedIsReceived'
    BY <1>7, <2>1, Unattended, NothingTold DEF Over
  <2> QED BY <1>3, <1>6, <1>7, <2>1, <2>2
<1>8. CASE Ends
  <2>1. Over /\ SameSessionVars /\ told' = told
    BY <1>8 DEF Ends
  <2>2. HandlersClean' /\ HandlersWereGranted' /\ AcknowledgedIsReceived'
    BY <2>1, SameSession, NothingTold DEF SameSessionVars
  <2>3. OneRequest'
    <3>1. CASE Attended
      <4>1. Requests = {} /\ Answers = {}
        BY <1>8, <3>1, AsksNothing DEF Ends, OneRequest, Single
      <4> QED BY <1>4, <2>1, <3>1, <4>1, StillOneRequest DEF Over
    <3>2. CASE ~Attended
      BY <2>1, <3>2 DEF OneRequest, Attended, Over, SameSessionVars
    <3> QED BY <3>1, <3>2
  <2> QED BY <1>3, <1>6, <2>1, <2>2, <2>3
<1>9. CASE Connects
  <2>1. Over /\ isconnected' = TRUE /\ UNCHANGED <<cleansession, handlers>>
    BY <1>9 DEF Connects
  <2>2. HandlersClean' /\ HandlersWereGranted'
    BY <2>1 DEF HandlersClean, HandlersWereGranted
  <2>3. CASE call.api = "connect" /\ told' = told
    <3>1. Requests = {} /\ Answers = {} /\ ~Answer(readbuf)
      BY <2>3, AsksNothing DEF Attended
    <3>2. OneRequest' /\ AcknowledgedIsReceived'
      BY <2>1, <2>3, <3>1, FirstAsked, NothingTold DEF Over
    <3> QED BY <1>3, <1>6, <2>1, <2>2, <3>2
  <2>4. CASE call.api = "resend" /\ readbuf.type = "PUBACK" /\ told' = told \cup {call.m}
    <3>1. OneRequest' /\ call.m \in server.got
      BY <1>5, <2>1, <2>4 DEF Answer, ForMe
    <3>2. AcknowledgedIsReceived'
      BY <2>4, <3>1 DEF AcknowledgedIsReceived
    <3> QED BY <1>3, <1>6, <2>1, <2>2, <3>1, <3>2
  <2> QED BY <1>9, <2>3, <2>4 DEF Connects
<1>10. CASE Acknowledged
  <2>1. Over /\ SameSessionVars /\ readbuf.type = "PUBACK" /\ told' = told \cup {call.m}
        /\ call.api = "publish"
    BY <1>10 DEF Acknowledged
  <2>2. OneRequest' /\ call.m \in server.got
    BY <1>5, <2>1 DEF Answer, ForMe
  <2>3. AcknowledgedIsReceived'
    BY <2>1, <2>2 DEF AcknowledgedIsReceived
  <2>4. HandlersClean' /\ HandlersWereGranted'
    BY <2>1, SameSession DEF SameSessionVars
  <2> QED BY <1>3, <1>6, <2>1, <2>2, <2>3, <2>4
<1>11. CASE Registers
  <2>1. /\ Over /\ UNCHANGED <<isconnected, cleansession, told>> /\ isconnected /\ call.api = "subscribe"
        /\ readbuf.type = "SUBACK" /\ MQTTDeserialize_suback(readbuf, 0) # 128
        /\ DOMAIN handlers' = DOMAIN handlers
        /\ \A i \in DOMAIN handlers : handlers'[i] \in {handlers[i], call.filter}
    BY <1>11 DEF Registers
  <2>2. OneRequest' /\ (call.filter \in net.granted \/ net.torn)
    BY <1>5, <2>1 DEF Answer, ForMe
  <2>4. HandlersClean'
    BY <2>1 DEF HandlersClean
  <2>5. HandlersWereGranted'
    <3>1. ASSUME cleansession, ~net.torn, NEW i \in DOMAIN handlers'
          PROVE  handlers'[i] \in net'.granted \cup {NoFilter}
      <4>1. handlers[i] \in net.granted \cup {NoFilter}
        BY <2>1, <3>1 DEF HandlersWereGranted
      <4>2. call.filter \in net'.granted
        BY <2>2, <3>1
      <4> QED BY <2>1, <4>1, <4>2
    <3> QED BY <2>1, <3>1 DEF HandlersWereGranted
  <2>6. AcknowledgedIsReceived'
    BY <2>1, NothingTold
  <2> QED BY <1>3, <1>6, <2>1, <2>2, <2>4, <2>5, <2>6
<1>12. CASE Unregisters
  <2>1. /\ Over /\ UNCHANGED <<isconnected, cleansession, told>> /\ call.api = "unsubscribe"
        /\ readbuf.type = "UNSUBACK"
        /\ DOMAIN handlers' = DOMAIN handlers
        /\ \A i \in DOMAIN handlers : handlers'[i] \in {handlers[i], NoFilter}
    BY <1>12 DEF Unregisters
  <2>2. OneRequest'
    BY <1>5, <2>1 DEF Answer
  <2>3. HandlersClean'
    BY <2>1 DEF HandlersClean
  <2>4. HandlersWereGranted'
    BY <2>1 DEF HandlersWereGranted
  <2>5. AcknowledgedIsReceived'
    BY <2>1, NothingTold
  <2> QED BY <1>3, <1>6, <2>1, <2>2, <2>3, <2>4, <2>5
<1>13. CASE Resends
  <2>1. /\ call.api = "connect" /\ call'.api = "resend" /\ pc' = "write" /\ rc' \in Int
        /\ sending'.goal = "command" /\ (Mine(sending.packet))' /\ SameSessionVars /\ told' = told
    BY <1>13 DEF Resends
  <2>2. Requests = {} /\ Answers = {} /\ ~Answer(readbuf)
    BY <2>1, AsksNothing DEF Attended
  <2>3. OneRequest'
    BY <2>1, <2>2, FirstAsked
  <2>4. Cycling'
    BY <2>1 DEF Cycling
  <2>5. HandlersClean' /\ HandlersWereGranted' /\ AcknowledgedIsReceived'
    BY <2>1, SameSession, NothingTold DEF SameSessionVars
  <2> QED BY <1>3, <2>3, <2>4, <2>5
<1> QED BY <1>7, <1>8, <1>9, <1>10, <1>11, <1>12, <1>13 DEF Outcome

\* The end of a cycle, or of the time.
LEMMA CycledKeeps ==
  ASSUME IInv, Cycled \/ TimeIsOut
  PROVE  IInv'
<1>1. CASE TimeIsOut
  <2>1. pc = "wait" /\ GiveUp /\ UNCHANGED <<options, readbuf, net, server, delivered>>
    BY <1>1 DEF TimeIsOut
  <2> QED BY <2>1, GiveUpOutcome, OutcomeKeeps
<1>2. CASE Cycled
  <2>1. pc = "cycled" /\ UNCHANGED <<options, readbuf, net, server, delivered>> /\ rc \in Int
    BY <1>2 DEF Cycled, IInv, Cycling
  <2>2. CASE rc < 0 /\ GiveUp
    BY <2>1, <2>2, GiveUpOutcome, OutcomeKeeps
  <2>3. CASE rc >= 0 /\ readbuf.type = Awaited /\ Finish
    BY <2>1, <2>3, FinishOutcome, OutcomeKeeps
  <2>4. CASE rc >= 0 /\ pc' = "wait" /\ UNCHANGED <<call, rc, sending, client, told>>
    <3> USE DEF IInv
    <3>0. UNCHANGED <<call, rc, sending, isconnected, cleansession, handlers, told>>
      BY <2>4 DEF client
    <3>1. Shapes' /\ AcksBehind' /\ AckedWasDelivered'
      BY <2>1, <2>4, <3>0 DEF Shapes, AcksBehind, Acknowledges, AckedWasDelivered
    <3>2. OneRequest'
      <4>1. UpKept /\ DownKept /\ (Attended' => Attended)
        BY <2>1, <2>4, <3>0, Untouched DEF Attended
      <4> QED BY <2>1, <2>4, <3>0, <4>1, StillOneRequest
    <3>3. Accepted'
      BY <2>1, <2>4, <3>0 DEF Accepted, FromServer
    <3>4. Cycling'
      BY <2>1, <2>4, <3>0 DEF Cycling, Useless
    <3>5. HandlersClean' /\ HandlersWereGranted' /\ AcknowledgedIsReceived'
      BY <2>1, <3>0, SameSession, NothingTold
    <3> QED BY <3>1, <3>2, <3>3, <3>4, <3>5
  <2> QED BY <1>2, <2>1, <2>2, <2>3, <2>4 DEF Cycled
<1> QED BY <1>1, <1>2

-----------------------------------------------------------------------------
(* The server *)

\* What the server answers, as the readers of the packets see it.
LEMMA Answered ==
  /\ \A r \in Int : LET p == Fits([type |-> "CONNACK", rc |-> r])
                    IN p.type = "CONNACK" /\ MQTTDeserialize_connack(p, SUCCESS) = r
  /\ \A id : Fits([type |-> "PUBACK", id |-> id]).type = "PUBACK"
  /\ \A id : Fits([type |-> "UNSUBACK", id |-> id]).type = "UNSUBACK"
  /\ Fits([type |-> "PINGRESP", rem_len |-> 0]).type = "PINGRESP"
  /\ \A id, g : LET p == Fits([type |-> "SUBACK", id |-> id, granted |-> g, rem_len |-> 3])
                IN p.type = "SUBACK" /\ MQTTDeserialize_suback(p, 0) = g
<1>1. ASSUME NEW r \in Int
      PROVE  LET p == Fits([type |-> "CONNACK", rc |-> r])
             IN p.type = "CONNACK" /\ MQTTDeserialize_connack(p, SUCCESS) = r
  <2> DEFINE q == [type |-> "CONNACK", rc |-> r]
  <2>1. q.type = "CONNACK" /\ q.rc = r /\ DOMAIN q = {"type", "rc"}
    OBVIOUS
  <2> HIDE DEF q
  <2>2. Fits(q).type = "CONNACK" /\ Fits(q).rc = r /\ Fits(q).rem_len = 2
    BY <2>1, FitsFacts
  <2>3. Fits(q).type = "CONNACK" /\ MQTTDeserialize_connack(Fits(q), SUCCESS) = r
    BY <2>2 DEF MQTTDeserialize_connack
  <2> QED BY <2>3 DEF q
<1>2. \A id : Fits([type |-> "PUBACK", id |-> id]).type = "PUBACK"
  BY FitsFacts
<1>3. \A id : Fits([type |-> "UNSUBACK", id |-> id]).type = "UNSUBACK"
  BY FitsFacts
<1>4. Fits([type |-> "PINGRESP", rem_len |-> 0]).type = "PINGRESP"
  BY FitsFacts
<1>5. ASSUME NEW id, NEW g
      PROVE  LET p == Fits([type |-> "SUBACK", id |-> id, granted |-> g, rem_len |-> 3])
             IN p.type = "SUBACK" /\ MQTTDeserialize_suback(p, 0) = g
  <2> DEFINE q == [type |-> "SUBACK", id |-> id, granted |-> g, rem_len |-> 3]
  <2>1. q.type = "SUBACK" /\ q.granted = g /\ q.rem_len = 3
        /\ DOMAIN q = {"type", "id", "granted", "rem_len"}
    OBVIOUS
  <2> HIDE DEF q
  <2>2. Fits(q).type = "SUBACK" /\ Fits(q).granted = g /\ Fits(q).rem_len = 3
    BY <2>1, FitsFacts
  <2>3. Fits(q).type = "SUBACK" /\ MQTTDeserialize_suback(Fits(q), 0) = g
    BY <2>2 DEF MQTTDeserialize_suback
  <2> QED BY <2>3 DEF q
<1> QED BY <1>1, <1>2, <1>3, <1>4, <1>5

\* A step of the server: it takes what is first, or ends the connection; it may write what
\* an accepted connection allows; and it takes away nothing that it has granted or received.
Serves ==
  /\ AtRest /\ net.state # "broken" /\ net'.torn = net.torn
  /\ net.state = "open" \/ (net'.state = "broken" /\ net'.down = <<>>)
  /\ UNCHANGED <<options, call, pc, rc, readbuf, sending, isconnected, cleansession, handlers, told, delivered>>
  /\ DOMAIN net' = DOMAIN net /\ DOMAIN server' = DOMAIN server
  /\ net'.up \in {net.up, <<>>} \/ (net.up # <<>> /\ net'.up = Tail(net.up))
  /\ net'.down \in {net.down, <<>>} \/ \E p : net'.down = Append(net.down, p) /\ (FromServer(p))'
  /\ (net.accepted => net'.accepted) /\ (~net'.accepted => net'.granted = {})
  /\ net.granted \subseteq net'.granted /\ server.got \subseteq server'.got
  /\ \/ server'.acked = server.acked
     \/ /\ net.up # <<>> /\ Head(net.up).type = "PUBACK"
        /\ server'.acked = server.acked \cup {Head(net.up).m}

\* Whatever the server does, the rest of what the client relies on stays so.
LEMMA ServesKeeps ==
  ASSUME IInv, Serves, OneRequest'
  PROVE  IInv'
<1> USE DEF IInv
<1>1. /\ Packets(net'.up)
      /\ \A i \in 1..Len(net'.up) : Acknowledges(net'.up[i])
  <2>1. CASE net'.up = net.up
    BY <2>1 DEF Shapes, AcksBehind
  <2>2. CASE net'.up = <<>>
    BY <2>2, EmptyFacts
  <2>3. CASE net.up # <<>> /\ net'.up = Tail(net.up)
    <3>1. /\ Packets(net'.up) /\ Len(net.up) \in Nat /\ Len(net'.up) = Len(net.up) - 1
          /\ \A i \in 1..(Len(net.up) - 1) : net'.up[i] = net.up[i + 1]
      BY <2>3, TakeFacts DEF Shapes
    <3>2. ASSUME NEW i \in 1..Len(net'.up) PROVE Acknowledges(net'.up[i])
      <4>1. i + 1 \in 1..Len(net.up) /\ net'.up[i] = net.up[i + 1]
        BY <3>1
      <4>2. Acknowledges(net.up[i + 1])
        BY <4>1 DEF AcksBehind
      <4> QED BY <4>1, <4>2
    <3> QED BY <3>1, <3>2
  <2> QED BY <2>1, <2>2, <2>3 DEF Serves
<1>2. /\ Packets(net'.down)
      /\ \A i \in 1..Len(net'.down) : (FromServer(net.down[i]))'
  <2>1. CASE net'.down = net.down
    <3>1. ASSUME NEW i \in 1..Len(net'.down) PROVE (FromServer(net.down[i]))'
      <4>1. FromServer(net.down[i]) /\ net'.down[i] = net.down[i]
        BY <2>1 DEF Accepted
      <4> QED BY <4>1 DEF FromServer, Serves
    <3> QED BY <2>1, <3>1 DEF Shapes
  <2>2. CASE net'.down = <<>>
    BY <2>2, EmptyFacts
  <2>3. ASSUME NEW p, net'.down = Append(net.down, p), (FromServer(p))'
        PROVE  /\ Packets(net'.down)
               /\ \A i \in 1..Len(net'.down) : (FromServer(net.down[i]))'
    <3>1. /\ Packets(net'.down) /\ Len(net.down) \in Nat /\ Len(net'.down) = Len(net.down) + 1
          /\ \A i \in 1..Len(net.down) : net'.down[i] = net.down[i]
          /\ net'.down[Len(net.down) + 1] = p
      BY <2>3, PutFacts DEF Shapes
    <3>2. ASSUME NEW i \in 1..Len(net'.down) PROVE (FromServer(net.down[i]))'
      <4>1. CASE i = Len(net.down) + 1
        <5>1. net'.down[i] = p
          BY <3>1, <4>1
        <5> QED BY <2>3, <5>1 DEF FromServer
      <4>2. CASE i # Len(net.down) + 1
        <5>1. i \in 1..Len(net.down)
          BY <3>1, <4>2
        <5>2. FromServer(net.down[i]) /\ net'.down[i] = net.down[i]
          BY <3>1, <5>1 DEF Accepted
        <5> QED BY <5>2 DEF FromServer, Serves
      <4> QED BY <4>1, <4>2
    <3> QED BY <3>1, <3>2
  <2> QED BY <2>1, <2>2, <2>3 DEF Serves
<1>3. Shapes'
  BY <1>1, <1>2 DEF Shapes, Serves
<1>4. AcksBehind'
  <2>1. ASSUME NEW i \in 1..Len(net'.up) PROVE (Acknowledges(net.up[i]))'
    <3>1. Acknowledges(net'.up[i])
      BY <1>1
    <3> QED BY <3>1 DEF Acknowledges, Serves
  <2>2. (pc = "write" => Acknowledges(sending.packet) \/ net.torn)'
    BY DEF AcksBehind, Acknowledges, Serves
  <2> QED BY <2>1, <2>2 DEF AcksBehind
<1>5. Accepted'
  <2>1. (readbuf.type # Nothing => FromServer(readbuf))'
    BY DEF Accepted, FromServer, Serves
  <2>2. (isconnected' => net'.accepted \/ net'.torn) /\ (pc' = "idle" => readbuf'.type = Nothing /\ call'.api = "none")
    BY DEF Accepted, Serves
  <2>3. ~net'.accepted => net'.granted = {}
    BY DEF Serves
  <2> QED BY <1>2, <2>1, <2>2, <2>3 DEF Accepted
<1>6. Cycling'
  <2>1. (Useless => Useless') /\ pc # "cycled"
    BY DEF Useless, Serves, AtRest
  <2> QED BY <2>1 DEF Cycling, Serves
<1>7. HandlersClean' /\ HandlersWereGranted' /\ AcknowledgedIsReceived'
  BY SameSession, NothingTold DEF Serves
<1>8. AckedWasDelivered'
  <2>1. CASE server'.acked = server.acked
    BY <2>1 DEF AckedWasDelivered, Serves
  <2>2. CASE /\ net.up # <<>> /\ Head(net.up).type = "PUBACK"
             /\ server'.acked = server.acked \cup {Head(net.up).m}
    <3>1. Head(net.up) = net.up[1] /\ 1 \in 1..Len(net.up)
      BY <2>2, TakeFacts DEF Shapes
    <3>2. Acknowledges(Head(net.up))
      BY <3>1 DEF AcksBehind
    <3>3. Head(net.up).m \in {d.m : d \in delivered}
      BY <2>2, <3>2 DEF Acknowledges
    <3> QED BY <2>2, <3>3 DEF AckedWasDelivered, Serves
  <2> QED BY <2>1, <2>2 DEF Serves
<1> QED BY <1>3, <1>4, <1>5, <1>6, <1>7, <1>8

\* The server answers nothing: it writes nothing, or what is no answer.
LEMMA UnansweredKeeps ==
  ASSUME IInv, Serves,
         net'.down \in {net.down, <<>>} \/ \E p : net'.down = Append(net.down, p) /\ ~Answer(p)
  PROVE  IInv'
<1>1. UpKept
  BY Untouched, Emptied, UpTaken DEF Serves, IInv
<1>2. DownKept
  BY Untouched, Emptied, DownWritten DEF Serves, IInv
<1>3. Attended' => Attended
  BY DEF Attended, Serves
<1>4. pc' \notin {"return"} /\ (pc' = "write" => pc = "write" /\ sending' = sending)
  BY DEF Serves, AtRest
<1>5. OneRequest'
  BY <1>1, <1>2, <1>3, <1>4, StillOneRequest DEF Serves, IInv
<1> QED BY <1>5, ServesKeeps

\* The server answers the request it takes.
LEMMA AnsweredKeeps ==
  ASSUME IInv, Serves, net.up # <<>>, Request(Head(net.up)), net'.up = Tail(net.up),
         NEW p, net'.down = Append(net.down, p), Mine(Head(net.up)) => (ForMe(p))'
  PROVE  IInv'
<1>1. CASE ~Attended
  <2>1. OneRequest'
    BY <1>1 DEF OneRequest, Attended, Serves
  <2> QED BY <2>1, ServesKeeps
<1>2. CASE Attended
  <2>1. Belongs /\ Single /\ Asking
    BY <1>2 DEF IInv, OneRequest
  <2>2. 1 \in Requests /\ Requests' = {} /\ Head(net.up) = net.up[1]
    BY <2>1, UpTaken, TakeFacts DEF Single, IInv, Shapes
  <2>3. Answers = {} /\ ~Answer(readbuf) /\ pc # "return"
    BY <2>1, <2>2 DEF Single
  <2>4. pc = "write" => sending.goal # "command" /\ ~Request(sending.packet)
    BY <2>1, <2>2 DEF Asking
  <2>5. (ForMe(p))'
    BY <2>1, <2>2 DEF Belongs
  <2>6. /\ Len(net.down) \in Nat /\ Len(net'.down) = Len(net.down) + 1
        /\ \A i \in 1..Len(net.down) : net'.down[i] = net.down[i]
        /\ net'.down[Len(net.down) + 1] = p
    BY PutFacts DEF IInv, Shapes
  <2>7. ASSUME NEW i \in Answers' PROVE i = Len(net.down) + 1
    <3>1. i \in 1..(Len(net.down) + 1) /\ Answer(net'.down[i])
      BY <2>6 DEF Answers
    <3>2. ASSUME i # Len(net.down) + 1 PROVE FALSE
      <4>1. i \in 1..Len(net.down) /\ Answer(net.down[i])
        BY <2>6, <3>1, <3>2
      <4> QED BY <2>3, <4>1 DEF Answers
    <3> QED BY <3>2
  <2>8. ASSUME NEW i \in Answers' PROVE (ForMe(net.down[i]))'
    <3>1. net'.down[i] = p
      BY <2>6, <2>7
    <3> QED BY <2>5, <3>1 DEF ForMe
  <2>9. /\ ~(Answer(readbuf))' /\ pc' # "return"
        /\ (pc = "write" => sending.goal # "command" /\ ~Request(sending.packet))'
    BY <2>3, <2>4 DEF Serves, Answer, Request
  <2>10. Belongs'
    BY <2>2, <2>8, <2>9 DEF Belongs
  <2>11. Single'
    BY <2>2, <2>7, <2>9 DEF Single
  <2>12. Asking'
    BY <2>9 DEF Asking
  <2>13. OneRequest'
    BY <2>10, <2>11, <2>12 DEF OneRequest
  <2> QED BY <2>13, ServesKeeps
<1> QED BY <1>1, <1>2

\* The server taking a packet.
LEMMA TakesKeeps ==
  ASSUME IInv, ServerTakes
  PROVE  IInv'
<1> DEFINE p == Head(net.up)
           Rest == UNCHANGED <<options, call, pc, rc, readbuf, sending, isconnected, cleansession,
                               handlers, told, delivered>>
           Replied(q) == /\ net'.up = Tail(net.up) /\ net'.down = Append(net.down, q)
                         /\ net'.state = net.state /\ DOMAIN net' = DOMAIN net /\ net'.torn = net.torn
           TakenOnly == /\ net'.up = Tail(net.up) /\ net'.down = net.down
                        /\ net'.accepted = net.accepted /\ net'.granted = net.granted /\ DOMAIN net' = DOMAIN net
                        /\ net'.torn = net.torn
           Ended == /\ net'.up = <<>> /\ net'.down = net.down
                    /\ net'.accepted = net.accepted /\ net'.granted = net.granted /\ DOMAIN net' = DOMAIN net
                        /\ net'.torn = net.torn
<1>0. /\ AtRest /\ net.state = "open" /\ net.up # <<>> /\ Rest
      /\ DOMAIN net = {"state", "up", "down", "accepted", "granted", "torn"}
      /\ DOMAIN server = {"got", "acked", "subs"}
      /\ (~net.accepted => net.granted = {})
  BY DEF ServerTakes, Others, client, IInv, Shapes, Accepted, NewNet
<1>1. CASE p.type = "CONNECT" /\ ~net.accepted /\ ServerConnects
  <2> DEFINE ok == Fits([type |-> "CONNACK", rc |-> 0])
             no == Fits([type |-> "CONNACK", rc |-> 5])
  <2>1. /\ ok.type = "CONNACK" /\ MQTTDeserialize_connack(ok, SUCCESS) = 0
        /\ no.type = "CONNACK" /\ MQTTDeserialize_connack(no, SUCCESS) = 5
    BY Answered
  <2>2. \/ /\ net' = [[net EXCEPT !.up = Tail(@), !.down = Append(@, ok)] EXCEPT !.accepted = TRUE, !.granted = server'.subs]
           /\ server' = [server EXCEPT !.subs = {}] \/ server' = server
        \/ /\ net' = [[net EXCEPT !.up = Tail(@), !.down = Append(@, no)] EXCEPT !.up = <<>>, !.state = "closed"]
           /\ server' = server
    BY <1>1 DEF ServerConnects, Reply
  <2> HIDE DEF ok, no
  <2>3. /\ DOMAIN server' = DOMAIN server /\ server'.got = server.got /\ server'.acked = server.acked
        /\ DOMAIN net' = DOMAIN net /\ net'.torn = net.torn
    BY <1>0, <2>2
  <2>4. \/ /\ net'.up = Tail(net.up) /\ net'.down = Append(net.down, ok)
           /\ net'.accepted = TRUE
        \/ /\ net'.up = <<>> /\ net'.down = Append(net.down, no)
           /\ net'.accepted = net.accepted /\ net'.granted = net.granted
    BY <1>0, <2>2
  <2>5. /\ net.granted = {}
        /\ ~Answer(ok) /\ ~Answer(no)
    BY <1>0, <1>1, <2>1 DEF Answer
  <2>6. (net'.accepted => (FromServer(ok))') /\ (FromServer(no))'
    BY <2>1, <2>5 DEF FromServer, Answer, SUCCESS
  <2>7. Serves
    BY <1>0, <1>1, <2>3, <2>4, <2>5, <2>6 DEF Serves
  <2> QED BY <2>4, <2>5, <2>7, UnansweredKeeps
<1>2. CASE server' = server /\ net' = Shut("closed")
  <2>1. Ended
    BY <1>0, <1>2 DEF Shut
  <2>2. Serves
    BY <1>0, <1>2, <2>1 DEF Serves
  <2> QED BY <2>1, <2>2, UnansweredKeeps
<1>3. CASE net.accepted /\ ServerServes(p)
  <2>1. CASE p.type = "PUBLISH" /\ p.qos # 1
    <3>1. TakenOnly /\ DOMAIN server' = DOMAIN server /\ server.got \subseteq server'.got
          /\ server'.acked = server.acked
      <4>1. server' = [server EXCEPT !.got = @ \cup {p.m}] /\ net' = [net EXCEPT !.up = Tail(@)]
        BY <1>3, <2>1 DEF ServerServes
      <4> QED BY <1>0, <4>1
    <3>2. Serves
      BY <1>0, <3>1 DEF Serves
    <3> QED BY <3>1, <3>2, UnansweredKeeps
  <2>2. CASE p.type = "PUBLISH" /\ p.qos = 1
    <3>0. PICK q : q = Fits([type |-> "PUBACK", id |-> p.id])
      OBVIOUS
    <3>1. q.type = "PUBACK"
      BY <3>0, Answered
    <3>2. /\ server' = [server EXCEPT !.got = @ \cup {p.m}]
          /\ net' = [net EXCEPT !.up = Tail(@), !.down = Append(@, q)]
      BY <1>3, <2>2, <3>0 DEF ServerServes, Reply
    <3>3. /\ Replied(q) /\ net'.accepted = net.accepted /\ net'.granted = net.granted
          /\ DOMAIN server' = DOMAIN server /\ server'.got = server.got \cup {p.m}
          /\ server'.acked = server.acked
      BY <1>0, <3>2
    <3>4. (FromServer(q))'
      BY <1>3, <3>1, <3>3 DEF FromServer, Answer
    <3>5. Serves
      BY <1>0, <3>3, <3>4 DEF Serves
    <3>6. Request(p) /\ (Mine(p) => (ForMe(q))')
      BY <1>0, <2>2, <3>1, <3>3 DEF Request, Mine, ForMe
    <3> QED BY <1>0, <3>3, <3>5, <3>6, AnsweredKeeps
  <2>3. CASE p.type = "SUBSCRIBE"
    <3>1. PICK g \in {0, 128} :
            LET q == Fits([type |-> "SUBACK", id |-> p.id, granted |-> g, rem_len |-> 3])
            IN \/ /\ g = 0 /\ server' = [server EXCEPT !.subs = @ \cup {p.filter}]
                  /\ net' = [[net EXCEPT !.up = Tail(@), !.down = Append(@, q)] EXCEPT !.granted = @ \cup {p.filter}]
               \/ /\ g = 128 /\ server' = server
                  /\ net' = [net EXCEPT !.up = Tail(@), !.down = Append(@, q)]
      BY <1>3, <2>3 DEF ServerServes, Reply
    <3>0. PICK q : q = Fits([type |-> "SUBACK", id |-> p.id, granted |-> g, rem_len |-> 3])
      OBVIOUS
    <3>2. q.type = "SUBACK" /\ MQTTDeserialize_suback(q, 0) = g
      BY <3>0, Answered
    <3>3. \/ /\ g = 0 /\ server' = [server EXCEPT !.subs = @ \cup {p.filter}]
             /\ net' = [[net EXCEPT !.up = Tail(@), !.down = Append(@, q)] EXCEPT !.granted = @ \cup {p.filter}]
          \/ /\ g = 128 /\ server' = server
             /\ net' = [net EXCEPT !.up = Tail(@), !.down = Append(@, q)]
      BY <3>0, <3>1
    <3>4. /\ Replied(q) /\ net'.accepted = net.accepted /\ net.granted \subseteq net'.granted
          /\ DOMAIN server' = DOMAIN server /\ server'.got = server.got /\ server'.acked = server.acked
          /\ (g # 128 => p.filter \in net'.granted)
      <4>1. CASE /\ g = 0 /\ server' = [server EXCEPT !.subs = @ \cup {p.filter}]
                 /\ net' = [[net EXCEPT !.up = Tail(@), !.down = Append(@, q)] EXCEPT !.granted = @ \cup {p.filter}]
        <5> DEFINE r == [net EXCEPT !.up = Tail(@), !.down = Append(@, q)]
        <5>1. /\ r.up = Tail(net.up) /\ r.down = Append(net.down, q) /\ r.state = net.state
              /\ DOMAIN r = DOMAIN net /\ r.accepted = net.accepted /\ r.granted = net.granted
              /\ r.torn = net.torn
          BY <1>0
        <5>2. net' = [r EXCEPT !.granted = @ \cup {p.filter}]
          BY <4>1
        <5> HIDE DEF r
        <5>3. /\ net'.up = r.up /\ net'.down = r.down /\ net'.state = r.state /\ DOMAIN net' = DOMAIN r
              /\ net'.torn = r.torn
              /\ net'.accepted = r.accepted /\ net'.granted = r.granted \cup {p.filter}
          BY <1>0, <5>1, <5>2
        <5>4. DOMAIN server' = DOMAIN server /\ server'.got = server.got /\ server'.acked = server.acked
          BY <1>0, <4>1
        <5> QED BY <5>1, <5>3, <5>4
      <4>2. CASE g = 128 /\ server' = server /\ net' = [net EXCEPT !.up = Tail(@), !.down = Append(@, q)]
        BY <1>0, <4>2
      <4> QED BY <3>3, <4>1, <4>2
    <3>5. (FromServer(q))'
      BY <1>3, <3>2, <3>4 DEF FromServer, Answer
    <3>6. Serves
      BY <1>0, <1>3, <3>4, <3>5 DEF Serves
    <3>7. Request(p) /\ (Mine(p) => (ForMe(q))')
      BY <1>0, <2>3, <3>2, <3>4 DEF Request, Mine, ForMe
    <3> QED BY <1>0, <3>4, <3>6, <3>7, AnsweredKeeps
  <2>4. CASE p.type = "UNSUBSCRIBE"
    <3>0. PICK q : q = Fits([type |-> "UNSUBACK", id |-> p.id])
      OBVIOUS
    <3>1. q.type = "UNSUBACK"
      BY <3>0, Answered
    <3>2. /\ server' = [server EXCEPT !.subs = @ \ {p.filter}]
          /\ net' = [net EXCEPT !.up = Tail(@), !.down = Append(@, q)]
      BY <1>3, <2>4, <3>0 DEF ServerServes, Reply
    <3>3. /\ Replied(q) /\ net'.accepted = net.accepted /\ net'.granted = net.granted
          /\ DOMAIN server' = DOMAIN server /\ server'.got = server.got /\ server'.acked = server.acked
      BY <1>0, <3>2
    <3>4. (FromServer(q))'
      BY <1>3, <3>1, <3>3 DEF FromServer, Answer
    <3>5. Serves
      BY <1>0, <3>3, <3>4 DEF Serves
    <3>6. Request(p) /\ (Mine(p) => (ForMe(q))')
      BY <1>0, <2>4, <3>1, <3>3 DEF Request, Mine, ForMe
    <3> QED BY <1>0, <3>3, <3>5, <3>6, AnsweredKeeps
  <2>5. CASE p.type = "PUBACK"
    <3>1. TakenOnly /\ DOMAIN server' = DOMAIN server /\ server'.got = server.got
          /\ server'.acked = server.acked \cup {p.m}
      BY <1>0, <1>3, <2>5 DEF ServerServes
    <3>2. Serves
      BY <1>0, <2>5, <3>1 DEF Serves
    <3> QED BY <3>1, <3>2, UnansweredKeeps
  <2>6. CASE p.type = "PINGREQ"
    <3> DEFINE q == Fits([type |-> "PINGRESP", rem_len |-> 0])
    <3>1. q.type = "PINGRESP"
      BY Answered
    <3>2. server' = server /\ net' = [net EXCEPT !.up = Tail(@), !.down = Append(@, q)]
      BY <1>3, <2>6 DEF ServerServes, Reply
    <3> HIDE DEF q
    <3>3. Replied(q) /\ net'.accepted = net.accepted /\ net'.granted = net.granted
      BY <1>0, <3>2
    <3>4. (FromServer(q))' /\ ~Answer(q)
      BY <3>1 DEF FromServer, Answer
    <3>5. Serves
      BY <1>0, <3>2, <3>3, <3>4 DEF Serves
    <3> QED BY <3>3, <3>4, <3>5, UnansweredKeeps
  <2>7. CASE p.type \notin {"PUBLISH", "SUBSCRIBE", "UNSUBSCRIBE", "PUBACK", "PINGREQ"}
    BY <1>2, <1>3, <2>7 DEF ServerServes
  <2> QED BY <2>1, <2>2, <2>3, <2>4, <2>5, <2>6, <2>7
<1> QED BY <1>1, <1>2, <1>3 DEF ServerTakes

\* The server publishing, and connections that end.
LEMMA ServerKeeps ==
  ASSUME IInv, ServerStep
  PROVE  IInv'
<1>0. /\ AtRest /\ net.state # "broken"
      /\ UNCHANGED <<options, call, pc, rc, readbuf, sending, isconnected, cleansession,
                     handlers, told, delivered>>
      /\ DOMAIN net = {"state", "up", "down", "accepted", "granted", "torn"}
      /\ (~net.accepted => net.granted = {})
  BY DEF ServerStep, ServerTakes, ServerPublishes, ConnectionEnds, CloseNoticed, Others, client,
         IInv, Shapes, Accepted, NewNet
<1>1. CASE ServerPublishes
  <2>1. PICK topic \in Topics, qos \in 0..1, size \in {"fits", "long"} :
          net' = [net EXCEPT !.down = Append(@, [type |-> "PUBLISH", topic |-> topic, qos |-> qos, id |-> n.in + 1,
                                                 m |-> n.in + 1, size |-> size, rem_len |-> 2])]
    BY <1>1 DEF ServerPublishes
  <2>0. PICK q : q = [type |-> "PUBLISH", topic |-> topic, qos |-> qos, id |-> n.in + 1,
                      m |-> n.in + 1, size |-> size, rem_len |-> 2]
    OBVIOUS
  <2>2. q.type = "PUBLISH" /\ q.rem_len = 2 /\ net.state = "open" /\ net' = [net EXCEPT !.down = Append(@, q)] /\ server' = server
    BY <1>1, <2>0, <2>1 DEF ServerPublishes
  <2>3. /\ net'.up = net.up /\ net'.down = Append(net.down, q) /\ DOMAIN net' = DOMAIN net
        /\ net'.accepted = net.accepted /\ net'.granted = net.granted /\ net'.torn = net.torn
    BY <1>0, <2>2
  <2>4. (FromServer(q))' /\ ~Answer(q)
    BY <2>2 DEF FromServer, Answer
  <2>5. Serves
    BY <1>0, <2>2, <2>3, <2>4 DEF Serves
  <2> QED BY <2>3, <2>4, <2>5, UnansweredKeeps
<1>2. CASE ConnectionEnds \/ CloseNoticed
  <2>1. /\ net'.up = <<>> /\ net'.down \in {net.down, <<>>} /\ DOMAIN net' = DOMAIN net
        /\ net'.accepted = net.accepted /\ net'.granted = net.granted /\ server' = server
        /\ net'.torn = net.torn /\ (net.state = "open" \/ (net'.state = "broken" /\ net'.down = <<>>))
    BY <1>0, <1>2 DEF ConnectionEnds, CloseNoticed, Shut
  <2>2. Serves
    BY <1>0, <2>1 DEF Serves
  <2> QED BY <2>1, <2>2, UnansweredKeeps
<1> QED BY <1>1, <1>2, TakesKeeps DEF ServerStep

-----------------------------------------------------------------------------
(* The theorems *)

\* The invariant holds at the start, and every step keeps it.
LEMMA InitIInv == Init => IInv
<1> SUFFICES ASSUME Init PROVE IInv
  OBVIOUS
<1>1. /\ net.up = <<>> /\ net.down = <<>> /\ net.torn = FALSE /\ DOMAIN net = DOMAIN NewNet /\ net.granted = {}
      /\ isconnected = FALSE /\ pc = "idle" /\ call.api = "none" /\ readbuf.type = Nothing
      /\ rc = SUCCESS /\ cleansession = TRUE
      /\ DOMAIN server = {"got", "acked", "subs"} /\ server.acked = {} /\ told = {}
      /\ \A i \in DOMAIN handlers : handlers[i] = NoFilter
      /\ options.cleansession \in BOOLEAN
  BY DEF Init, NoNet, NewNet, NoCall, NoPacket
<1>2. Shapes
  BY <1>1, EmptyFacts DEF Shapes
<1>5. AcksBehind /\ Accepted
  BY <1>1, EmptyFacts DEF AcksBehind, Accepted
<1>3. OneRequest /\ Cycling /\ HandlersClean
  BY <1>1 DEF OneRequest, Attended, Cycling, HandlersClean, SUCCESS
<1>4. AcknowledgedIsReceived /\ HandlersWereGranted /\ AckedWasDelivered
  BY <1>1 DEF AcknowledgedIsReceived, HandlersWereGranted, AckedWasDelivered
<1> QED BY <1>2, <1>3, <1>4, <1>5 DEF IInv

\* One case for each kind of step: of the program, the client, time and the server.
LEMMA NextIInv == IInv /\ [Next]_vars => IInv'
<1> SUFFICES ASSUME IInv, [Next]_vars PROVE IInv'
  OBVIOUS
<1>1. CASE Start \/ TimePasses \/ Again \/ UNCHANGED vars
  <2>1. /\ UNCHANGED <<options, call, rc, readbuf, sending, isconnected, cleansession, handlers,
                       net, server, told, delivered>>
        /\ pc' = pc \/ (pc = "wait" /\ pc' = "read")
    BY <1>1 DEF Start, TimePasses, Expire, BeQuiet, PingExpires, Again, vars, client
  <2> QED BY <2>1, TimeKeeps
<1>2. CASE Command
  BY <1>2, CallKeeps
<1>3. CASE Step /\ ~Again
  BY <1>3, WriteKeeps, WriteFailsKeeps, ReadKeeps, HandleKeeps, CycleFailedKeeps, CycledKeeps, LeaveKeeps
     DEF Step
<1>4. CASE ServerStep
  BY <1>4, ServerKeeps
<1> QED BY <1>1, <1>2, <1>3, <1>4 DEF Next

\* The invariant always holds, under either fairness.
LEMMA Invariant == Init /\ [][Next]_vars => []IInv
<1> QED BY InitIInv, NextIInv, PTL

\* What publish, connect and subscribe report is what the server has done: a PUBACK is that
\* of the message, the session is that of the connection, and a handler is of a filter granted
\* on it, for any number of messages, filters, handlers and lost connections.  The exception
\* is the connection whose end cut an answer behind its header byte: this CONNACK or SUBACK
\* counts as a success whatever the server said, in a session whose connection is over.
THEOREM ReportsAreTrue == Spec => []SuccessIsTheServers
<1>1. IInv => SuccessIsTheServers
  BY DEF IInv, Shapes, Accepted, SuccessIsTheServers, ConnectedMeansAccepted
<1> QED BY <1>1, Invariant, PTL DEF Spec, SpecSilent

\* The PUBACK of a message never overtakes its delivery to the handlers.
THEOREM AcksFollowDelivery == Spec => []AckedWasDelivered
<1>1. IInv => AckedWasDelivered
  BY DEF IInv
<1> QED BY <1>1, Invariant, PTL DEF Spec, SpecSilent

\* On a connection that the client counts as its own there is at most one request without
\* its answer, and every answer in it is to the call under way: the reason why the client may
\* leave the identifiers of the answers unread.
THEOREM AnswersBelong == Spec => [](isconnected => Belongs /\ Single)
<1>1. IInv => (isconnected => Belongs /\ Single)
  BY DEF IInv, OneRequest, Attended
<1> QED BY <1>1, Invariant, PTL DEF Spec, SpecSilent
=============================================================================
