------------------------------- MODULE MqttClient -------------------------------
(* MQTT::Client over a blocking socket, and the server at its other end.     *)
(* One thread calls the client; a call writes a packet, and cycles through   *)
(* what arrives until its answer is there or its timer is out.  The server   *)
(* and the network are external: TCP delivers in order, may cut any packet   *)
(* in two, and ends anywhere, with an orderly close (recv gives 0) or an     *)
(* error.                                                                    *)
EXTENDS MqttPacket, FiniteSets

CONSTANTS
    Probes,             \* filters, topics and lengths the packet functions are tried on
    Filters, Topics,    \* what the program subscribes to, and the server publishes, as levels
    MAX_MESSAGE_HANDLERS,
    MaxEvents           \* bound: networks opened, messages, (un)subscriptions, intervals without traffic

VARIABLES
    probe, options,     \* what the program gives connect, the same at every call
    call, pc, timer, rc, readbuf, sending,
    isconnected, cleansession, handlers, packetid, inflight,
    ping_outstanding,   \* "no", "yes", or "overdue": ping_sent has expired
    quiet,              \* last_sent or last_received has expired
    net,                \* the socket: its state, what is under way in it, what the server said on it, and
                        \* whether of a packet read from it only the header had come (torn)
    server,
    n,                  \* how often, for the bounds
    told, delivered     \* history: messages reported as acknowledged, and those taken

client == <<isconnected, cleansession, handlers, packetid, inflight, ping_outstanding>>
vars == <<probe, options, call, pc, timer, rc, readbuf, sending, client, quiet, net, server, n, told, delivered>>

SUCCESS == 0
FAILURE == 0 - 1
BUFFER_OVERFLOW == 0 - 2
Nothing == "nothing"                \* readPacket returned 0
NoCall == [api |-> "none"]
NoPacket == [type |-> Nothing]
NoFilter == <<>>
NotInFlight == [id |-> 0, m |-> 0]
NotSending == [goal |-> "none", packet |-> NoPacket]
Chars(levels) == Joined(levels)

NewNet == [state |-> "open", up |-> <<>>, down |-> <<>>, accepted |-> FALSE, granted |-> {}, torn |-> FALSE]
NoNet == [NewNet EXCEPT !.state = "none"]

(* The client's constructor closes the session it does not have. *)
Init ==
    /\ probe \in Probes /\ options \in [cleansession : BOOLEAN]
    /\ call = NoCall /\ pc = "idle" /\ timer = "stopped" /\ rc = SUCCESS /\ readbuf = NoPacket
    /\ sending = NotSending
    /\ isconnected = FALSE /\ cleansession = TRUE /\ ping_outstanding = "no"
    /\ handlers = [i \in 1..MAX_MESSAGE_HANDLERS |-> NoFilter] /\ packetid = 0 /\ inflight = NotInFlight
    /\ quiet = FALSE
    /\ net = NoNet
    /\ server = [got |-> {}, acked |-> {}, subs |-> {}]
    /\ n = [out |-> 0, in |-> 0, others |-> 0]
    /\ told = {} /\ delivered = {}

-----------------------------------------------------------------------------

Cleaned ==
    /\ handlers' = IF cleansession THEN [i \in DOMAIN handlers |-> NoFilter] ELSE handlers
    /\ inflight' = IF cleansession THEN NotInFlight ELSE inflight
closeSession == ping_outstanding' = "no" /\ isconnected' = FALSE /\ Cleaned /\ UNCHANGED cleansession
CloseSession == closeSession /\ UNCHANGED packetid

getNext == IF packetid = 65535 THEN 1 ELSE packetid + 1

Send(goal, packet) == pc' = "write" /\ sending' = [goal |-> goal, packet |-> packet]
Return(status) == pc' = "return" /\ rc' = status /\ UNCHANGED sending
Refused(close) == Return(FAILURE) /\ IF close THEN CloseSession ELSE UNCHANGED client
Room == n.out + n.in + n.others < MaxEvents
Running == timer' = "running"
World == <<probe, options, net, server, quiet, delivered>>

-----------------------------------------------------------------------------
(* The calls. *)
Ready == probe.kind = "none" /\ pc = "idle"

(* A network is opened for each connection. *)
Connect ==
    /\ Ready /\ Running /\ call' = [api |-> "connect"]
    /\ IF isconnected THEN Refused(FALSE) /\ UNCHANGED <<net, n>>
       ELSE /\ Room /\ n' = [n EXCEPT !.others = @ + 1] /\ net' = NewNet
            /\ cleansession' = options.cleansession
            /\ Send("command", [type |-> "CONNECT", clean |-> options.cleansession])
            /\ UNCHANGED <<rc, isconnected, ping_outstanding, handlers, packetid, inflight>>
    /\ UNCHANGED <<probe, options, readbuf, server, quiet, told, delivered>>

Publish ==
    /\ Ready /\ Running /\ Room
    /\ \E qos \in 0..1, payload \in {8, MAX_MQTT_PACKET_SIZE} :
        LET m == n.out + 1
            id == IF qos = 1 THEN getNext ELSE 0
        IN /\ n' = [n EXCEPT !.out = m]
           /\ call' = [api |-> "publish", qos |-> qos, m |-> m]
           /\ IF ~isconnected THEN Refused(FALSE)
              ELSE /\ packetid' = IF qos = 1 THEN id ELSE packetid
                   /\ IF ~MQTTSerialize_publish([topic |-> 10, payload |-> payload, qos |-> qos]).ok
                      THEN Return(FAILURE) /\ UNCHANGED inflight
                      ELSE /\ Send("command", [type |-> "PUBLISH", qos |-> qos, id |-> id, m |-> m]) /\ rc' = rc
                           /\ inflight' = IF cleansession THEN inflight
                                          ELSE IF id = 0 THEN NotInFlight ELSE [id |-> id, m |-> m]
                   /\ UNCHANGED <<isconnected, cleansession, ping_outstanding, handlers>>
    /\ UNCHANGED <<readbuf, told>> /\ UNCHANGED World

(* SUBSCRIBE and UNSUBSCRIBE; a filter too long for the buffer ends the      *)
(* session.                                                                  *)
Lengths == {3, MAX_MQTT_PACKET_SIZE}
Ask(api, type, fitting) ==
    /\ Ready /\ Running /\ Room
    /\ n' = [n EXCEPT !.others = @ + 1]
    /\ \E filter \in Filters, length \in Lengths :
        /\ call' = [api |-> api, filter |-> filter]
        /\ IF ~isconnected THEN Refused(TRUE)
           ELSE IF length \notin fitting
           THEN Return(FAILURE) /\ packetid' = getNext /\ closeSession
           ELSE /\ packetid' = getNext /\ Send("command", [type |-> type, id |-> getNext, filter |-> filter])
                /\ UNCHANGED <<rc, isconnected, cleansession, ping_outstanding, handlers, inflight>>
    /\ UNCHANGED <<readbuf, told>> /\ UNCHANGED World
Subscribe == Ask("subscribe", "SUBSCRIBE", {l \in Lengths : MQTTSerialize_subscribe([topic |-> l]).ok})
Unsubscribe ==
    Ask("unsubscribe", "UNSUBSCRIBE", {l \in Lengths : MQTTSerialize_unsubscribe([topic |-> l]).ok})

Yield ==
    /\ Ready /\ Running /\ call' = [api |-> "yield"] /\ pc' = "wait" /\ rc' = SUCCESS
    /\ UNCHANGED <<readbuf, sending, client, n, told>> /\ UNCHANGED World

Disconnect ==
    /\ Ready /\ isconnected /\ Running /\ call' = [api |-> "disconnect"] /\ Send("command", [type |-> "DISCONNECT"])
    /\ UNCHANGED <<rc, readbuf, client, n, told>> /\ UNCHANGED World

-----------------------------------------------------------------------------
(* sendPacket. *)
Awaited == CASE call.api = "connect" -> "CONNACK"
             [] call.api = "subscribe" -> "SUBACK"
             [] call.api = "unsubscribe" -> "UNSUBACK"
             [] call.api = "yield" -> "none"
             [] OTHER -> "PUBACK"

Sent ==
    CASE sending.goal = "ack" -> pc' = "keepalive" /\ UNCHANGED <<rc, client, told, sending>>
      [] sending.goal = "ping" ->
            /\ pc' = "cycled" /\ ping_outstanding' = "yes"
            /\ UNCHANGED <<rc, isconnected, cleansession, handlers, packetid, inflight, told, sending>>
      [] sending.goal = "command" /\ call.api = "disconnect" ->
            Return(SUCCESS) /\ CloseSession /\ UNCHANGED told
      [] sending.goal = "command" /\ call.api = "publish" /\ call.qos = 0 ->
            Return(SUCCESS) /\ UNCHANGED <<client, told>>
      [] OTHER -> pc' = "wait" /\ rc' = SUCCESS /\ UNCHANGED <<client, told, sending>>

NotSent ==
    CASE sending.goal \in {"ack", "ping"} ->
            pc' = "cycled" /\ rc' = FAILURE /\ UNCHANGED <<sending, client>>
      [] sending.goal = "command" /\ call.api = "connect" -> Return(FAILURE) /\ UNCHANGED client
      [] OTHER -> Return(FAILURE) /\ CloseSession

(* All of it, at once or in parts. *)
Write ==
    /\ pc = "write" /\ net.state \in {"open", "closed"}
    /\ net' = IF net.state = "open" THEN [net EXCEPT !.up = Append(@, sending.packet)] ELSE net
    /\ Sent
    /\ quiet' \in IF sending.packet.type = "CONNECT" THEN {FALSE} ELSE {FALSE, quiet}
    /\ UNCHANGED <<probe, options, call, timer, readbuf, server, n, delivered>>

(* A part of it before the timer is out, or an error. *)
WriteFails ==
    /\ pc = "write" /\ NotSent
    /\ \/ net.state = "open" /\ (timer = "expired" \/ sending.goal = "ping")
          /\ net' = [net EXCEPT !.up = Append(@, [type |-> "torn"])]
       \/ net.state # "open" /\ net' = net
    /\ UNCHANGED <<probe, options, call, timer, readbuf, quiet, server, n, told, delivered>>

-----------------------------------------------------------------------------

(* yield and waitfor: another cycle, if there is time. *)
Again ==
    /\ pc = "wait" /\ timer # "expired" /\ pc' = "read"
    /\ UNCHANGED <<probe, options, call, timer, rc, readbuf, sending, client, quiet, net, server, n, told, delivered>>

(* readPacket.  The socket blocks for as long as there is nothing to read,   *)
(* whatever timeout it is given.                                             *)
Reading == pc = "read" /\ UNCHANGED <<probe, options, call, timer, sending, client, server, n, told, delivered>>
Got(packet) ==
    /\ readbuf' = packet /\ rc' = SUCCESS /\ pc' = "handle"
NotGot(status) == rc' = status /\ pc' = "cycled" /\ readbuf' = NoPacket /\ UNCHANGED quiet

ReadPacket ==
    /\ Reading /\ net.down # <<>> /\ Head(net.down).size = "fits"
    /\ Got(Head(net.down)) /\ quiet' \in {FALSE, quiet}
    /\ net' = [net EXCEPT !.down = Tail(@)]
(* Longer than the buffer; or with its body in two pieces, of which the read *)
(* gives one: it still returns the 1 of the read before.  What is left in an *)
(* open socket is not looked at: the model ends the connection there.        *)
LeftUnread == [net EXCEPT !.down = <<>>, !.state = IF @ = "open" THEN "broken" ELSE @]
ReadLong ==
    /\ Reading /\ net.down # <<>> /\ net' = LeftUnread
    /\ \/ Head(net.down).size = "long" /\ NotGot(BUFFER_OVERFLOW)
       \/ Head(net.down).rem_len > 0 /\ NotGot(1)
(* The connection has ended behind the header byte: that there is no length  *)
(* is not noticed, and the packet counts as one of this type with no body.   *)
Header(p) == [type |-> p.type, rem_len |-> 0, qos |-> IF p.type = "PUBLISH" THEN p.qos ELSE 0]
ReadHeader ==
    /\ Reading /\ net.down # <<>> /\ net.state = "closed" /\ Head(net.down).rem_len > 0
    /\ Got(Header(Head(net.down))) /\ quiet' \in {FALSE, quiet}
    /\ net' = [net EXCEPT !.down = <<>>, !.torn = TRUE]
ReadEnd ==
    /\ Reading /\ net.down = <<>> /\ net.state = "closed"
    /\ Got(NoPacket) /\ UNCHANGED <<net, quiet>>
ReadError ==
    /\ Reading /\ net.state \in {"broken", "none"}
    /\ NotGot(FAILURE) /\ UNCHANGED net

-----------------------------------------------------------------------------
(* cycle. *)
Taken(m) == delivered' = delivered \cup {m}
Handlers(topic) == {i \in DOMAIN handlers : handlers[i] # NoFilter /\ Matches(Chars(handlers[i]), Chars(topic))}

(* Of a PUBLISH without a body the topic is empty, which no filter matches,  *)
(* and the identifier that is acknowledged is one nobody set.                *)
Unset == 0
Ack(p) == IF p.rem_len = 0 THEN [type |-> "PUBACK", id |-> Unset, m |-> Unset]
          ELSE [type |-> "PUBACK", id |-> p.id, m |-> p.m]

HandlePublishIfWanted ==
    /\ pc = "handle" /\ readbuf.type = "PUBLISH"
    /\ IF readbuf.rem_len = 0 THEN UNCHANGED delivered
       ELSE IF Handlers(readbuf.topic) = {} THEN UNCHANGED delivered
       ELSE Taken([m |-> readbuf.m, by |-> {handlers[i] : i \in Handlers(readbuf.topic)}])
    /\ IF readbuf.qos = 1 THEN Send("ack", Ack(readbuf))
       ELSE pc' = "keepalive" /\ UNCHANGED sending
    /\ UNCHANGED <<probe, options, call, timer, rc, readbuf, client, quiet, net, server, n, told>>

HandlePublish ==
    /\ pc = "handle" /\ readbuf.type = "PUBLISH"
    /\ IF readbuf.rem_len = 0 THEN UNCHANGED delivered
       ELSE Taken([m |-> readbuf.m, by |-> {handlers[i] : i \in Handlers(readbuf.topic)}])
    /\ IF readbuf.qos = 1 THEN Send("ack", Ack(readbuf))
       ELSE pc' = "keepalive" /\ UNCHANGED sending
    /\ UNCHANGED <<probe, options, call, timer, rc, readbuf, client, quiet, net, server, n, told>>

HandleOther ==
    /\ pc = "handle" /\ readbuf.type # "PUBLISH"
    /\ IF readbuf.type \in {Nothing, "CONNACK", "PUBACK", "SUBACK", "PINGRESP"}
       THEN pc' = "keepalive" /\ UNCHANGED rc
       ELSE pc' = "cycled" /\ rc' = 1
    /\ ping_outstanding' = IF readbuf.type = "PINGRESP" THEN "no" ELSE ping_outstanding
    /\ UNCHANGED <<probe, options, call, timer, readbuf, sending, isconnected, cleansession, handlers, packetid, inflight, quiet,
                   net, server, n, told, delivered>>

KeepaliveUnanswered ==
    /\ pc = "keepalive"
    /\ IF ping_outstanding = "no" /\ quiet THEN Send("ping", [type |-> "PINGREQ"]) /\ UNCHANGED rc
       ELSE pc' = "cycled" /\ UNCHANGED <<rc, sending>>
    /\ UNCHANGED <<probe, options, call, timer, readbuf, client, quiet, net, server, n, told, delivered>>

Keepalive ==
    /\ pc = "keepalive"
    /\ IF ping_outstanding = "overdue" THEN pc' = "cycled" /\ rc' = FAILURE /\ UNCHANGED sending
       ELSE IF ping_outstanding = "no" /\ quiet THEN Send("ping", [type |-> "PINGREQ"]) /\ UNCHANGED rc
       ELSE pc' = "cycled" /\ UNCHANGED <<rc, sending>>
    /\ UNCHANGED <<probe, options, call, timer, readbuf, client, quiet, net, server, n, told, delivered>>

setMessageHandler(filter) ==
    LET same == {i \in DOMAIN handlers : handlers[i] = filter}
        free == {i \in DOMAIN handlers : handlers[i] = NoFilter}
        slots == IF same # {} THEN same ELSE free
    IN [ok |-> slots # {},
        set |-> IF slots = {} THEN handlers
                ELSE [handlers EXCEPT ![CHOOSE i \in slots : \A j \in slots : i <= j] = filter]]

(* connect sends what is in flight, whatever came of its own packet; the     *)
(* answer to that decides.                                                   *)
Resend(status) ==
    IF inflight.id = 0 THEN Return(status) /\ UNCHANGED call
    ELSE /\ call' = [api |-> "resend", m |-> inflight.m] /\ rc' = status
         /\ Send("command", [type |-> "PUBLISH", qos |-> 1, id |-> inflight.id, m |-> inflight.m])
Connected ==
    /\ isconnected' = TRUE /\ ping_outstanding' = "no"
    /\ UNCHANGED <<cleansession, handlers, packetid>>

(* The answer has come. *)
Finish ==
    CASE call.api = "connect" ->
            LET status == IF Parsed(readbuf.rem_len, 2) THEN MQTTDeserialize_connack(readbuf, SUCCESS) ELSE FAILURE IN
            /\ Resend(status)
            /\ IF status = SUCCESS /\ inflight.id = 0 THEN Connected /\ UNCHANGED inflight ELSE UNCHANGED client
            /\ UNCHANGED told
      [] call.api \in {"publish", "resend"} /\ Parsed(readbuf.rem_len, 2) ->
            /\ Return(SUCCESS) /\ told' = told \cup {call.m}
            /\ \E unset \in {Unset, inflight.id} :
                  inflight' = IF inflight.id = MQTTDeserialize_ack(readbuf, unset) THEN NotInFlight ELSE inflight
            /\ IF call.api = "resend" THEN Connected
               ELSE UNCHANGED <<isconnected, cleansession, ping_outstanding, handlers, packetid>>
            /\ UNCHANGED call
      [] call.api = "subscribe" ->
            /\ IF ~Parsed(readbuf.rem_len, 3) \/ MQTTDeserialize_suback(readbuf, 0) = 128
               THEN Return(SUCCESS) /\ UNCHANGED client
               ELSE IF setMessageHandler(call.filter).ok
               THEN /\ Return(SUCCESS) /\ handlers' = setMessageHandler(call.filter).set
                    /\ UNCHANGED <<isconnected, cleansession, ping_outstanding, packetid, inflight>>
               ELSE Return(FAILURE) /\ CloseSession
            /\ UNCHANGED <<call, told>>
      [] call.api = "unsubscribe" ->
            /\ Return(SUCCESS)
            /\ handlers' = [i \in DOMAIN handlers |-> IF handlers[i] = call.filter THEN NoFilter ELSE handlers[i]]
            /\ UNCHANGED <<isconnected, cleansession, ping_outstanding, packetid, inflight>>
            /\ UNCHANGED <<call, told>>
      [] OTHER -> Return(FAILURE) /\ CloseSession /\ UNCHANGED <<call, told>>

GiveUpOpen ==
    /\ UNCHANGED told
    /\ CASE call.api = "connect" -> Resend(FAILURE) /\ UNCHANGED client
         [] call.api = "yield" -> Return(IF rc < 0 THEN FAILURE ELSE SUCCESS) /\ UNCHANGED <<call, client>>
         [] OTHER -> Return(FAILURE) /\ UNCHANGED <<call, client>>

(* It has not, and will not. *)
GiveUp ==
    /\ UNCHANGED told
    /\ CASE call.api = "connect" -> Resend(FAILURE) /\ UNCHANGED client
         [] call.api = "yield" -> Return(IF rc < 0 THEN FAILURE ELSE SUCCESS) /\ UNCHANGED <<call, client>>
         [] OTHER -> Return(FAILURE) /\ CloseSession /\ UNCHANGED call

(* The end of a cycle that failed closes the session, and then the call is   *)
(* told what was read; only a negative status ends its waiting.              *)
CycleFailed ==
    /\ pc = "cycled" /\ rc # SUCCESS /\ isconnected
    /\ CloseSession
    /\ UNCHANGED <<probe, options, call, pc, timer, rc, readbuf, sending, quiet, net, server, n, told, delivered>>

Cycled ==
    /\ pc = "cycled" /\ (rc = SUCCESS \/ ~isconnected)
    /\ IF rc < 0 THEN GiveUp
       ELSE IF readbuf.type = Awaited THEN Finish
       ELSE pc' = "wait" /\ UNCHANGED <<call, rc, sending, client, told>>
    /\ UNCHANGED <<probe, options, timer, readbuf, quiet, net, server, n, delivered>>

TimeIsOut ==
    /\ pc = "wait" /\ timer = "expired" /\ GiveUp
    /\ UNCHANGED <<probe, options, timer, readbuf, quiet, net, server, n, delivered>>

(* The caller has its answer. *)
Leave ==
    /\ pc = "return" /\ pc' = "idle" /\ call' = NoCall /\ timer' = "stopped" /\ readbuf' = NoPacket /\ rc' = SUCCESS
    /\ sending' = NotSending
    /\ UNCHANGED <<probe, options, client, quiet, net, server, n, told, delivered>>

-----------------------------------------------------------------------------
(* Time, and the server, are only looked at where the client waits: between *)
(* these points it depends on neither.                                      *)
AtRest == pc \in {"idle", "write", "read"}

Expire ==
    /\ AtRest /\ timer = "running" /\ timer' = "expired"
    /\ UNCHANGED <<probe, options, call, pc, rc, readbuf, sending, client, quiet, net, server, n, told, delivered>>
BeQuiet ==
    /\ AtRest /\ isconnected /\ ~quiet /\ (net.state = "open" => Room)
    /\ quiet' = TRUE /\ n' = IF net.state = "open" THEN [n EXCEPT !.others = @ + 1] ELSE n
    /\ UNCHANGED <<probe, options, call, pc, timer, rc, readbuf, sending, client, net, server, told, delivered>>
PingExpires ==
    /\ AtRest /\ ping_outstanding = "yes" /\ ping_outstanding' = "overdue"
    /\ UNCHANGED <<probe, options, call, pc, timer, rc, readbuf, sending, isconnected, cleansession, handlers,
                   packetid, inflight, quiet, net, server, n, told, delivered>>

-----------------------------------------------------------------------------
(* The server. *)
Others == <<probe, options, call, pc, timer, rc, readbuf, sending, client, quiet, told, delivered>>
Fits(p) == [f \in DOMAIN p \cup {"size", "rem_len"} |->
                IF f \in DOMAIN p THEN p[f] ELSE IF f = "size" THEN "fits" ELSE 2]
Reply(p) == [net EXCEPT !.up = Tail(@), !.down = Append(@, Fits(p))]
Shut(s) == [net EXCEPT !.up = <<>>, !.state = s]

ServerConnects ==
    \/ /\ server' = IF Head(net.up).clean THEN [server EXCEPT !.subs = {}] ELSE server
       /\ net' = [Reply([type |-> "CONNACK", rc |-> 0]) EXCEPT !.accepted = TRUE, !.granted = server'.subs]
    \/ /\ server' = server
       /\ net' = [Reply([type |-> "CONNACK", rc |-> 5]) EXCEPT !.up = <<>>, !.state = "closed"]

ServerServes(p) ==
    CASE p.type = "PUBLISH" ->
            /\ server' = [server EXCEPT !.got = @ \cup {p.m}]
            /\ net' = IF p.qos = 1 THEN Reply([type |-> "PUBACK", id |-> p.id]) ELSE [net EXCEPT !.up = Tail(@)]
      [] p.type = "SUBSCRIBE" ->
            \/ /\ server' = [server EXCEPT !.subs = @ \cup {p.filter}]
               /\ net' = [Reply([type |-> "SUBACK", id |-> p.id, granted |-> 0, rem_len |-> 3])
                          EXCEPT !.granted = @ \cup {p.filter}]
            \/ /\ server' = server
               /\ net' = Reply([type |-> "SUBACK", id |-> p.id, granted |-> 128, rem_len |-> 3])
      [] p.type = "UNSUBSCRIBE" ->
            /\ server' = [server EXCEPT !.subs = @ \ {p.filter}]
            /\ net' = Reply([type |-> "UNSUBACK", id |-> p.id])
      [] p.type = "PUBACK" -> server' = [server EXCEPT !.acked = @ \cup {p.m}] /\ net' = [net EXCEPT !.up = Tail(@)]
      [] p.type = "PINGREQ" -> server' = server /\ net' = Reply([type |-> "PINGRESP", rem_len |-> 0])
      [] OTHER -> server' = server /\ net' = Shut("closed")

ServerTakes ==
    /\ AtRest /\ net.state = "open" /\ net.up # <<>>
    /\ IF Head(net.up).type = "CONNECT" /\ ~net.accepted THEN ServerConnects
       ELSE IF net.accepted THEN ServerServes(Head(net.up))
       ELSE server' = server /\ net' = Shut("closed")
    /\ UNCHANGED n /\ UNCHANGED Others

ServerPublishes ==
    /\ AtRest /\ net.state = "open" /\ net.accepted /\ Room
    /\ \E topic \in Topics, qos \in 0..1, size \in {"fits", "long"} :
        /\ \E f \in server.subs : Covers(f, topic)
        /\ net' = [net EXCEPT !.down = Append(@, [type |-> "PUBLISH", topic |-> topic, qos |-> qos, id |-> n.in + 1,
                                                  m |-> n.in + 1, size |-> size, rem_len |-> 2])]
    /\ n' = [n EXCEPT !.in = @ + 1]
    /\ UNCHANGED server /\ UNCHANGED Others

(* The server ends the connection, or it breaks. *)
ConnectionEnds ==
    /\ AtRest /\ net.state = "open"
    /\ \/ net' = Shut("closed")
       \/ net' = [Shut("broken") EXCEPT !.down = <<>>]
    /\ UNCHANGED <<server, n>> /\ UNCHANGED Others
(* A peer that has closed answers what is written to it with an error.       *)
CloseNoticed ==
    /\ AtRest /\ net.state = "closed" /\ net' = Shut("broken") /\ net.down = <<>>
    /\ UNCHANGED <<server, n>> /\ UNCHANGED Others

-----------------------------------------------------------------------------
(* The packet functions have been tried; the client is used.                 *)
Start ==
    /\ probe.kind # "none" /\ probe' = [kind |-> "none"]
    /\ UNCHANGED <<options, call, pc, timer, rc, readbuf, sending, client, quiet, net, server, n, told, delivered>>

Command == Connect \/ Publish \/ Subscribe \/ Unsubscribe \/ Yield \/ Disconnect
Read == ReadPacket \/ ReadLong \/ ReadHeader \/ ReadEnd \/ ReadError
Step ==
    \/ Write \/ WriteFails \/ Again \/ Read \/ HandlePublish \/ HandleOther
    \/ Keepalive \/ CycleFailed \/ Cycled \/ TimeIsOut \/ Leave
TimePasses == Expire \/ BeQuiet \/ PingExpires
ServerStep == ServerTakes \/ ServerPublishes \/ ConnectionEnds \/ CloseNoticed
Next == Start \/ Command \/ Step \/ TimePasses \/ ServerStep

(* The client's code runs on, quiet run out, and the program keeps yielding.*)
ClientFairness ==
    /\ WF_vars(Start) /\ WF_vars(Step)
    /\ SF_vars(Expire) /\ SF_vars(BeQuiet) /\ SF_vars(PingExpires) /\ SF_vars(Yield)
(* A server ends a connection on which it hears nothing for long enough, and *)
(* any connection ends some day.                                             *)
SpecSilent == Init /\ [][Next]_vars /\ ClientFairness
Spec == SpecSilent /\ WF_vars(ConnectionEnds)

-----------------------------------------------------------------------------
(* Properties. *)

(* Every variable keeps its type; what is in flight has an identifier that   *)
(* was given out, and a call is under way exactly while its code runs.       *)
TypeOK ==
    /\ pc \in {"idle", "write", "wait", "read", "handle", "keepalive", "cycled", "return"}
    /\ timer \in {"stopped", "running", "expired"} /\ ping_outstanding \in {"no", "yes", "overdue"}
    /\ rc \in (0 - 2)..255 /\ packetid \in 0..65535 /\ inflight.id \in 0..packetid
    /\ {isconnected, cleansession, quiet} \subseteq BOOLEAN
    /\ \A i \in DOMAIN handlers : handlers[i] \in Filters \cup {NoFilter}
    /\ net.state \in {"none", "open", "closed", "broken"} /\ net.granted \subseteq Filters
    /\ (pc = "idle") = (call = NoCall)

(* A topic is matched by exactly the filters MQTT says, as long as none of   *)
(* its levels is empty: a "+" takes at least one character, and "a/#" does   *)
(* not match "a" itself.                                                     *)
TopicsMatch ==
    probe.kind = "match" =>
        LET code == Matches(Chars(probe.filter), Chars(probe.topic))
            Parent == Last(probe.filter) = <<"#">> /\ Len(probe.topic) = Len(probe.filter) - 1
            EmptyLevel == <<>> \in {probe.topic[i] : i \in DOMAIN probe.topic}
        IN /\ code => Covers(probe.filter, probe.topic)
           /\ Covers(probe.filter, probe.topic) /\ ~Parent /\ ~EmptyLevel => code

(* A packet that is written fits the buffer it is written to, every byte     *)
(* announced in its header follows, and only one whose estimated length is   *)
(* above the buffer is refused.                                              *)
PacketsFit ==
    probe.kind = "packet" =>
        LET p == probe.options
            rem_len == CASE probe.type = "connect" -> MQTTSerialize_connectLength(p)
                         [] probe.type = "publish" -> MQTTSerialize_publishLength(p)
                         [] probe.type = "subscribe" -> MQTTSerialize_subscribeLength(p)
                         [] probe.type = "ack" -> 2
                         [] probe.type = "zero" -> 0
                         [] OTHER -> MQTTSerialize_unsubscribeLength(p)
            packet == CASE probe.type = "connect" -> MQTTSerialize_connect(p)
                        [] probe.type = "publish" -> MQTTSerialize_publish(p)
                        [] probe.type = "subscribe" -> MQTTSerialize_subscribe(p)
                        [] probe.type = "ack" -> MQTTSerialize_ack
                        [] probe.type = "zero" -> MQTTSerialize_zero
                        [] OTHER -> MQTTSerialize_unsubscribe(p)
            length == FoldLeft(LAMBDA a, b : a + b, 0, packet.parts)
        IN /\ packet.ok = (MQTTPacket_len(rem_len) <= MAX_MQTT_PACKET_SIZE)
           /\ packet.ok => /\ length = 1 + Len(MQTTPacket_encode(rem_len)) + rem_len
                           /\ length <= MAX_MQTT_PACKET_SIZE

(* The remaining length a peer reads is the one that was written, in the     *)
(* fewest bytes, and the estimate the writers check is never below it.       *)
LengthsRoundTrip ==
    probe.kind = "length" =>
        LET bytes == MQTTPacket_encode(probe.n)
        IN /\ MQTTPacket_decode(bytes) = probe.n /\ Len(bytes) <= MAX_NO_OF_REMAINING_LENGTH_BYTES
           /\ (Len(bytes) = 1) = (probe.n < 128) /\ (Len(bytes) = 2) = (probe.n \in 128..16383)
           /\ MQTTPacket_len(probe.n) >= 1 + Len(bytes) + probe.n

(* The packet functions at the edges of the encodings and of the buffer.     *)
PacketFunctions == TopicsMatch /\ PacketsFit /\ LengthsRoundTrip

(* A message publish reports as acknowledged, or connect as resent, reached  *)
(* the server: no late PUBACK of another message is taken for its own, though *)
(* publish never compares the identifier.                                    *)
AcknowledgedIsReceived == told \subseteq server.got

(* The client counts itself connected only over a connection whose CONNECT   *)
(* the server accepted, whatever was resent, refused or late in between; but *)
(* a CONNACK that ended behind its header byte is a success to connect.      *)
ConnectedMeansAccepted == isconnected => net.accepted \/ (net.torn /\ net.state # "open")

(* In a clean session every handler is of a filter the server granted on     *)
(* this very connection: none is left over from an earlier one.  Again a     *)
(* SUBACK that ended behind its header grants what the server may not have.  *)
HandlersWereGranted ==
    isconnected /\ cleansession =>
        net.torn \/ {handlers[i] : i \in DOMAIN handlers} \ {NoFilter} \subseteq net.granted

(* What the client says succeeded is what the server has done, up to the     *)
(* answer that the end of the connection cut behind its header.              *)
SuccessIsTheServers == AcknowledgedIsReceived /\ ConnectedMeansAccepted /\ HandlersWereGranted

(* A message the server sees acknowledged has been shown to the handlers     *)
(* before: an acknowledgement never overtakes the delivery.                  *)
AckedWasDelivered == server.acked \subseteq {d.m : d \in delivered}

(* Every call of the client returns, as long as the server does not keep a   *)
(* silent connection open for ever.                                          *)
CallsReturn == (pc # "idle") ~> (pc = "idle")

(* A connection that has ended is noticed: some yield later the client no    *)
(* longer counts itself connected, by an error or by the unanswered ping.    *)
ClosedIsNoticed == (net.state \in {"closed", "broken"}) ~> ~isconnected

(* No call hangs, and none hides for ever that the connection has ended.     *)
ReturnsAndNotices == CallsReturn /\ ClosedIsNoticed

(* yield returns some time after its timeout whatever the server does: the   *)
(* header gives "timeout_ms the time to wait".                               *)
YieldReturns == (pc # "idle" /\ call.api = "yield") ~> (pc = "idle")
=============================================================================
