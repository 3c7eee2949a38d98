----------------------------- MODULE MqttSession -----------------------------
(***************************************************************************)
(* The life of the MQTT session: DecadaManager::Connect, Publish,          *)
(* Subscribe and Reconnect as communications_controller_thread and         *)
(* subscription_manager_thread call them on one DecadaManager, with the    *)
(* MQTTNetwork and MQTT::Client objects they create and delete.            *)
(*                                                                         *)
(* Only the first attempt of a reconnection and Publish hold mqtt_mutex;   *)
(* the retries and yield do not, so an object may be deleted while another *)
(* thread is inside it.  What a thread does with a deleted object or a     *)
(* null pointer is undefined: the call fails or the board faults and       *)
(* reboots.  Objects nobody refers to any more are forgotten, so a leak    *)
(* costs no state.                                                         *)
(***************************************************************************)
EXTENDS Integers

CONSTANTS MaxFailed,      \* max_mqtt_failed_reconnections (5 in the code)
          CounterSize     \* values of the counter, a uint8_t (256)

ASSUME MaxFailedAssumption == CounterSize \in Nat /\ MaxFailed \in 1..CounterSize - 1

Threads == {"comms", "submgr"}
Null    == 0
CliIds  == 1..3       \* mqtt_client_ and one client per thread
NetIds  == 1..5       \* mqtt_network_, the networks of three clients, and a new one

VARIABLES
  mqtt_mutex,                    \* the thread that holds it, or "none"
  mqtt_ok,                       \* FLAG_MQTT_OK
  mqtt_network_, mqtt_client_,   \* DecadaManager's pointers
  nets,                          \* MQTTNetwork objects: "freed", "down" or "up"
  clis,                          \* MQTT::Client objects
  failed,                        \* static mqtt_failed_reconnections
  pc, mode,                      \* control; which call of the connection sequence it is in
  this,                          \* the client object a thread is inside
  net_ok, cli_ok,                \* network_is_connected, client_is_connected
  seen,                          \* the counter in a register of the thread
  pub_ok                         \* of communications_controller_thread

shared == <<mqtt_mutex, mqtt_ok, failed, pub_ok>>
heap   == <<mqtt_network_, mqtt_client_, nets, clis>>
local  == <<pc, mode, this, net_ok, cli_ok, seen>>
vars   == <<shared, heap, local>>

Freed  == [net |-> Null, conn |-> FALSE, sub |-> "no", live |-> FALSE]
Client(n) == [net |-> n, conn |-> FALSE, sub |-> "no", live |-> TRUE]

Both(v) == [t \in Threads |-> v]

Init ==
  /\ mqtt_mutex = "none" /\ mqtt_ok = FALSE /\ failed = 0 /\ pub_ok = TRUE
  /\ mqtt_network_ = Null /\ mqtt_client_ = Null
  /\ nets = [n \in NetIds |-> "freed"] /\ clis = [c \in CliIds |-> Freed]
  /\ pc = [comms |-> "new_net", submgr |-> "off"] /\ mode = Both("boot")
  /\ this = Both(Null) /\ net_ok = Both(FALSE) /\ cli_ok = Both(FALSE) /\ seen = Both(0)

\* NVIC_SystemReset or a fault: everything starts again.
Reboot ==
  /\ mqtt_mutex' = "none" /\ mqtt_ok' = FALSE /\ failed' = 0 /\ pub_ok' = TRUE
  /\ mqtt_network_' = Null /\ mqtt_client_' = Null
  /\ nets' = [n \in NetIds |-> "freed"] /\ clis' = [c \in CliIds |-> Freed]
  /\ pc' = [comms |-> "new_net", submgr |-> "off"] /\ mode' = Both("boot")
  /\ this' = Both(Null) /\ net_ok' = Both(FALSE) /\ cli_ok' = Both(FALSE) /\ seen' = Both(0)

-----------------------------------------------------------------------------
(* Objects *)

LiveNet(n) == n # Null /\ nets[n] # "freed"
LiveCli(c) == c # Null /\ clis[c].live

\* A call inside client c can reach the broker.
Usable(c) == LiveCli(c) /\ clis[c].conn /\ LiveNet(clis[c].net) /\ nets[clis[c].net] = "up"

\* What a call inside client c touches is still there.
Sound(c) == LiveCli(c) /\ (clis[c].conn => LiveNet(clis[c].net))

\* closeSession: a clean session also forgets its message handlers.
Closed(c) ==
  IF LiveCli(c) THEN [clis EXCEPT ![c].conn = FALSE, ![c].sub = "no"] ELSE clis

HeldClis == {mqtt_client_} \cup {this[t] : t \in Threads}
HeldNets == {mqtt_network_} \cup {clis[c].net : c \in HeldClis \ {Null}}

\* The heap after a step: objects without a reference are forgotten.
Heap(nn, cc) ==
  LET heldClis == ({mqtt_client_'} \cup {this'[t] : t \in Threads}) \ {Null}
      heldNets == {mqtt_network_'} \cup {cc[c].net : c \in heldClis}
  IN  /\ clis' = [c \in CliIds |-> IF c \in heldClis THEN cc[c] ELSE Freed]
      /\ nets' = [n \in NetIds |-> IF n \in heldNets THEN nn[n] ELSE "freed"]

\* Thread t leaves the client it is inside, which is now as in cc.
Leave(t, cc) ==
  /\ this' = [this EXCEPT ![t] = Null]
  /\ UNCHANGED <<mqtt_network_, mqtt_client_>>
  /\ Heap(nets, cc)

Goto(t, l) == pc' = [pc EXCEPT ![t] = l]

\* Where ReconnectMqttService returns to.
Caller(t) == IF t = "comms" THEN "loop" ELSE "idle"

-----------------------------------------------------------------------------
(* ConnectMqttNetwork and ConnectMqttClient *)

NewNetwork(t) ==
  /\ pc[t] = "new_net"
  /\ LET n == CHOOSE m \in NetIds : m \notin HeldNets IN
       /\ mqtt_network_' = n
       /\ UNCHANGED <<mqtt_client_, this>>
       /\ Heap([nets EXCEPT ![n] = "down"], clis)
  /\ Goto(t, "conn_net")
  /\ UNCHANGED <<shared, mode, net_ok, cli_ok, seen>>

\* Connect skips the client when the network failed, Reconnect does not.
AfterNetwork(t, ok) == IF mode[t] = "boot" /\ ~ok THEN "flag" ELSE "new_cli"

ConnectNetworkOk(t) ==
  /\ pc[t] = "conn_net" /\ LiveNet(mqtt_network_)
  /\ nets' = [nets EXCEPT ![mqtt_network_] = "up"]
  /\ net_ok' = [net_ok EXCEPT ![t] = TRUE]
  /\ Goto(t, AfterNetwork(t, TRUE))
  /\ UNCHANGED <<shared, mqtt_network_, mqtt_client_, clis, mode, this, cli_ok, seen>>

ConnectNetworkFails(t) ==
  /\ pc[t] = "conn_net"
  /\ net_ok' = [net_ok EXCEPT ![t] = FALSE]
  /\ Goto(t, AfterNetwork(t, FALSE))
  /\ UNCHANGED <<shared, heap, mode, this, cli_ok, seen>>

\* The new client refers to whatever network mqtt_network_ points to by now.
NewClient(t) ==
  /\ pc[t] = "new_cli"
  /\ LET c == CHOOSE d \in CliIds : d \notin HeldClis IN
       /\ mqtt_client_' = c
       /\ this' = [this EXCEPT ![t] = c]
       /\ UNCHANGED mqtt_network_
       /\ Heap(nets, [clis EXCEPT ![c] = Client(mqtt_network_)])
  /\ Goto(t, "conn_cli")
  /\ UNCHANGED <<shared, mode, net_ok, cli_ok, seen>>

ConnectClientOk(t) ==
  /\ pc[t] = "conn_cli"
  /\ LET c == this[t] IN
       /\ LiveCli(c) /\ LiveNet(clis[c].net) /\ nets[clis[c].net] = "up"
       /\ Leave(t, [clis EXCEPT ![c].conn = TRUE])
  /\ cli_ok' = [cli_ok EXCEPT ![t] = TRUE]
  /\ Goto(t, IF mode[t] = "boot" THEN "flag" ELSE "subscribe")
  /\ UNCHANGED <<shared, mode, net_ok, seen>>

ConnectClientFails(t) ==
  /\ pc[t] = "conn_cli"
  /\ Leave(t, clis)
  /\ cli_ok' = [cli_ok EXCEPT ![t] = FALSE]
  /\ Goto(t, IF mode[t] = "boot" THEN "flag" ELSE "subscribe")
  /\ UNCHANGED <<shared, mode, net_ok, seen>>

\* event_flags.set, whatever Connect returned.
SetFlag ==
  /\ pc["comms"] = "flag"
  /\ mqtt_ok' = TRUE
  /\ Goto("comms", "subscribe")
  /\ UNCHANGED <<mqtt_mutex, failed, pub_ok, heap, mode, this, net_ok, cli_ok, seen>>

\* Subscribe goes to the client mqtt_client_ points to by now.
Subscribe(t) ==
  /\ pc[t] = "subscribe"
  /\ this' = [this EXCEPT ![t] = mqtt_client_]
  /\ Goto(t, "suback")
  /\ UNCHANGED <<shared, heap, mode, net_ok, cli_ok, seen>>

\* After Subscribe: the main loops start, the lock is given back, or a retry is counted.
AfterSubscribe(t) ==
  pc' = CASE mode[t] = "boot"   -> [comms |-> "loop", submgr |-> "idle"]
          [] mode[t] = "locked" -> [pc EXCEPT ![t] = "unlock"]
          [] mode[t] = "retry"  -> [pc EXCEPT ![t] = "count"]

SubscribeOk(t) ==
  /\ pc[t] = "suback" /\ Usable(this[t])
  /\ Leave(t, [clis EXCEPT ![this[t]].sub = "granted"])
  /\ AfterSubscribe(t)
  /\ UNCHANGED <<shared, mode, net_ok, cli_ok, seen>>

\* The broker refuses (0x80 in the SUBACK, or one that does not parse): the client installs
\* no handler but returns SUCCESS, so the caller takes itself for subscribed.
SubscribeRefused(t) ==
  /\ pc[t] = "suback" /\ Usable(this[t])
  /\ Leave(t, [clis EXCEPT ![this[t]].sub = "refused"])
  /\ AfterSubscribe(t)
  /\ UNCHANGED <<shared, mode, net_ok, cli_ok, seen>>

\* Variant: a failed Subscribe is logged only.
SubscribeFailsSilently(t) ==
  /\ pc[t] = "suback"
  /\ Leave(t, clis)
  /\ AfterSubscribe(t)
  /\ UNCHANGED <<shared, mode, net_ok, cli_ok, seen>>

SubscribeFails(t) ==
  /\ pc[t] = "suback"
  /\ Leave(t, Closed(this[t]))
  /\ cli_ok' = [cli_ok EXCEPT ![t] = FALSE]
  /\ AfterSubscribe(t)
  /\ UNCHANGED <<shared, mode, net_ok, seen>>

-----------------------------------------------------------------------------
(* ReconnectMqttService *)

\* Variant: the first attempt does not take the mutex either.
LockSkipped(t) ==
  /\ pc[t] = "reconnect"
  /\ mode' = [mode EXCEPT ![t] = "locked"]
  /\ Goto(t, "del_net")
  /\ UNCHANGED <<shared, heap, this, net_ok, cli_ok, seen>>

LockReconnect(t) ==
  /\ pc[t] = "reconnect" /\ mqtt_mutex = "none"
  /\ mqtt_mutex' = t
  /\ mode' = [mode EXCEPT ![t] = "locked"]
  /\ Goto(t, "del_net")
  /\ UNCHANGED <<mqtt_ok, failed, pub_ok, heap, this, net_ok, cli_ok, seen>>

\* DisconnectMqttNetwork: the object goes first, the pointer after it.
DeleteNetwork(t) ==
  /\ pc[t] = "del_net"
  /\ nets' = IF LiveNet(mqtt_network_) THEN [nets EXCEPT ![mqtt_network_] = "freed"]
             ELSE nets
  /\ Goto(t, "null_net")
  /\ UNCHANGED <<shared, mqtt_network_, mqtt_client_, clis, mode, this, net_ok, cli_ok, seen>>

NullNetwork(t) ==
  /\ pc[t] = "null_net"
  /\ mqtt_network_' = Null
  /\ UNCHANGED <<mqtt_client_, this>>
  /\ Heap(nets, clis)
  /\ Goto(t, "disc_cli")
  /\ UNCHANGED <<shared, mode, net_ok, cli_ok, seen>>

\* DisconnectMqttClient: unsubscribe, disconnect, delete, null.
DisconnectClient(t) ==
  /\ pc[t] = "disc_cli"
  /\ clis' = Closed(mqtt_client_)
  /\ Goto(t, "del_cli")
  /\ UNCHANGED <<shared, mqtt_network_, mqtt_client_, nets, mode, this, net_ok, cli_ok, seen>>

DeleteClient(t) ==
  /\ pc[t] = "del_cli"
  /\ UNCHANGED <<mqtt_network_, mqtt_client_, this>>
  /\ Heap(nets, IF LiveCli(mqtt_client_) THEN [clis EXCEPT ![mqtt_client_] = Freed] ELSE clis)
  /\ Goto(t, "null_cli")
  /\ UNCHANGED <<shared, mode, net_ok, cli_ok, seen>>

NullClient(t) ==
  /\ pc[t] = "null_cli"
  /\ mqtt_client_' = Null
  /\ UNCHANGED <<mqtt_network_, this>>
  /\ Heap(nets, clis)
  /\ Goto(t, "new_net")
  /\ UNCHANGED <<shared, mode, net_ok, cli_ok, seen>>

Reconnected(t) == net_ok[t] /\ cli_ok[t]

\* mqtt_failed_reconnections = 0 and back to the caller; the locals go.
Return(t) ==
  /\ failed' = 0
  /\ Goto(t, Caller(t))
  /\ mode' = [mode EXCEPT ![t] = "boot"]
  /\ net_ok' = [net_ok EXCEPT ![t] = FALSE] /\ cli_ok' = [cli_ok EXCEPT ![t] = FALSE]

UnlockReconnect(t) ==
  /\ pc[t] = "unlock"
  /\ mqtt_mutex' = "none"
  /\ IF Reconnected(t) THEN Return(t)
     ELSE /\ Goto(t, "new_net") /\ mode' = [mode EXCEPT ![t] = "retry"]
          /\ UNCHANGED <<failed, net_ok, cli_ok>>
  /\ UNCHANGED <<mqtt_ok, pub_ok, heap, this, seen>>

\* Variant: the counter starts over in every retry.
RetryForgets(t) ==
  /\ pc[t] = "count"
  /\ seen' = [seen EXCEPT ![t] = 0]
  /\ Goto(t, "store")
  /\ UNCHANGED <<shared, heap, mode, this, net_ok, cli_ok>>

\* mqtt_failed_reconnections++ and its comparison are not locked: the counter is read, ...
RetryCount(t) ==
  /\ pc[t] = "count"
  /\ seen' = [seen EXCEPT ![t] = failed]
  /\ Goto(t, "store")
  /\ UNCHANGED <<shared, heap, mode, this, net_ok, cli_ok>>

\* ... written, whatever the other thread has made of it by now, ...
RetryStore(t) ==
  /\ pc[t] = "store"
  /\ failed' = (seen[t] + 1) % CounterSize /\ seen' = [seen EXCEPT ![t] = failed']
  /\ Goto(t, "compare")
  /\ UNCHANGED <<mqtt_mutex, mqtt_ok, pub_ok, heap, mode, this, net_ok, cli_ok>>

\* ... and compared: what was written, or what a compiler has read again.
Compared(t) == {seen[t], failed}

\* A retry is counted whatever its result; the last one resets the board.
RetryReset(t) == pc[t] = "compare" /\ MaxFailed \in Compared(t) /\ Reboot

RetryGoesOn(t) ==
  /\ pc[t] = "compare" /\ Compared(t) # {MaxFailed}
  /\ IF Reconnected(t) THEN Return(t)
     ELSE Goto(t, "new_net") /\ UNCHANGED <<failed, mode, net_ok, cli_ok>>
  /\ seen' = [seen EXCEPT ![t] = 0]
  /\ UNCHANGED <<mqtt_mutex, mqtt_ok, pub_ok, heap, this>>

-----------------------------------------------------------------------------
(* communications_controller_thread: a packet or a response, then pub_ok *)

CommsPublish ==
  /\ pc["comms"] = "loop" /\ mqtt_mutex = "none"
  /\ mqtt_mutex' = "comms"
  /\ this' = [this EXCEPT !["comms"] = mqtt_client_]
  /\ Goto("comms", "publish")
  /\ UNCHANGED <<mqtt_ok, failed, pub_ok, heap, mode, net_ok, cli_ok, seen>>

PublishEnds(ok) ==
  /\ pub_ok' = ok
  /\ mqtt_mutex' = "none"
  /\ Goto("comms", "check")
  /\ UNCHANGED <<mqtt_ok, failed, mode, net_ok, cli_ok, seen>>

CommsPublishOk ==
  /\ pc["comms"] = "publish" /\ Usable(this["comms"])
  /\ Leave("comms", clis)
  /\ PublishEnds(TRUE)

\* A send error closes the session; a message that does not fit the buffer does not.
CommsPublishFails ==
  /\ pc["comms"] = "publish"
  /\ \E cc \in {clis, Closed(this["comms"])} : Leave("comms", cc)
  /\ PublishEnds(FALSE)

CommsIdle ==
  /\ pc["comms"] = "loop"
  /\ Goto("comms", "check")
  /\ UNCHANGED <<shared, heap, mode, this, net_ok, cli_ok, seen>>

\* pub_ok keeps the result of the last Publish, also across a reconnection.
CommsCheck ==
  /\ pc["comms"] = "check"
  /\ Goto("comms", IF pub_ok THEN "loop" ELSE "reconnect")
  /\ UNCHANGED <<shared, heap, mode, this, net_ok, cli_ok, seen>>

-----------------------------------------------------------------------------
(* subscription_manager_thread *)

SubYield ==
  /\ pc["submgr"] = "idle" /\ mqtt_ok /\ mqtt_client_ # Null
  /\ this' = [this EXCEPT !["submgr"] = mqtt_client_]
  /\ Goto("submgr", "yield")
  /\ UNCHANGED <<shared, heap, mode, net_ok, cli_ok, seen>>

\* yield finds the session alive or closes it.
SubYieldDone ==
  /\ pc["submgr"] = "yield"
  /\ \E cc \in {clis, Closed(this["submgr"])} : Leave("submgr", cc)
  /\ Goto("submgr", "is_conn")
  /\ UNCHANGED <<shared, mode, net_ok, cli_ok, seen>>

\* isConnected through a null or dangling pointer reads anything.
SubIsConnected ==
  /\ pc["submgr"] = "is_conn"
  /\ \E conn \in IF LiveCli(mqtt_client_) THEN {clis[mqtt_client_].conn} ELSE BOOLEAN :
       Goto("submgr", IF conn THEN "idle" ELSE "reconnect")
  /\ UNCHANGED <<shared, heap, mode, this, net_ok, cli_ok, seen>>

-----------------------------------------------------------------------------
(* Undefined behaviour that ends in a fault handler. *)

Fault(t) ==
  /\ \/ pc[t] = "conn_net" /\ ~LiveNet(mqtt_network_)
     \/ pc[t] = "conn_cli" /\ ~(LiveCli(this[t]) /\ LiveNet(clis[this[t]].net))
     \/ pc[t] \in {"suback", "publish", "yield"} /\ ~Sound(this[t])
     \/ pc[t] = "del_net" /\ ~LiveNet(mqtt_network_)
     \/ pc[t] \in {"disc_cli", "is_conn"} /\ ~Sound(mqtt_client_)
  /\ Reboot

-----------------------------------------------------------------------------
Connect(t) == \/ NewNetwork(t) \/ ConnectNetworkOk(t) \/ ConnectNetworkFails(t)
              \/ NewClient(t) \/ ConnectClientOk(t) \/ ConnectClientFails(t)
              \/ Subscribe(t) \/ SubscribeOk(t) \/ SubscribeRefused(t) \/ SubscribeFails(t)

Reconnect(t) == \/ LockReconnect(t) \/ DeleteNetwork(t) \/ NullNetwork(t)
                \/ DisconnectClient(t) \/ DeleteClient(t) \/ NullClient(t)
                \/ UnlockReconnect(t)
                \/ RetryCount(t) \/ RetryStore(t) \/ RetryReset(t) \/ RetryGoesOn(t)

Comms  == SetFlag \/ CommsPublish \/ CommsPublishOk \/ CommsPublishFails \/ CommsIdle
          \/ CommsCheck
SubMgr == SubYield \/ SubYieldDone \/ SubIsConnected

Next == Comms \/ SubMgr \/ \E t \in Threads : Connect(t) \/ Reconnect(t) \/ Fault(t)

\* Calls that wait for the broker in recv, which has no timeout (MQTTNetwork.h:42): those of a
\* connection that is made or taken down, and yield.
Waits(t) == pc[t] \in {"conn_net", "conn_cli", "suback", "disc_cli"}
Yields(t) == pc[t] = "yield"

\* The threads run while they do not wait for the broker, the sensors keep producing packets
\* and mutexes are handed to the longest waiter; the broker promises nothing, not even to
\* answer or to close the connection.
Fairness ==
  /\ WF_vars(~Waits("comms") /\ (Comms \/ Connect("comms") \/ Reconnect("comms")))
  /\ WF_vars(~Waits("submgr") /\ ~Yields("submgr")
               /\ (SubMgr \/ Connect("submgr") \/ Reconnect("submgr")))
  /\ SF_vars(CommsPublish)
  /\ \A t \in Threads : SF_vars(LockReconnect(t))

Spec     == Init /\ [][Next]_vars
FairSpec == Spec /\ Fairness

-----------------------------------------------------------------------------
(* Properties *)

Labels == {"off", "new_net", "conn_net", "new_cli", "conn_cli", "flag", "subscribe",
           "suback", "loop", "publish", "check", "idle", "yield", "is_conn", "reconnect",
           "del_net", "null_net", "disc_cli", "del_cli", "null_cli", "unlock", "count",
           "store", "compare"}

\* Pointers refer to one of the objects at hand; the counter of retries may hold any value a
\* uint8_t can.
TypeOK ==
  /\ mqtt_mutex \in Threads \cup {"none"}
  /\ mqtt_ok \in BOOLEAN /\ pub_ok \in BOOLEAN
  /\ failed \in 0..CounterSize - 1 /\ seen \in [Threads -> 0..CounterSize - 1]
  /\ mqtt_network_ \in NetIds \cup {Null} /\ mqtt_client_ \in CliIds \cup {Null}
  /\ nets \in [NetIds -> {"freed", "down", "up"}]
  /\ clis \in [CliIds -> [net : NetIds \cup {Null}, conn : BOOLEAN,
                          sub : {"no", "granted", "refused"}, live : BOOLEAN]]
  /\ pc \in [Threads -> Labels]
  /\ mode \in [Threads -> {"boot", "locked", "retry"}]
  /\ this \in [Threads -> CliIds \cup {Null}]
  /\ net_ok \in [Threads -> BOOLEAN] /\ cli_ok \in [Threads -> BOOLEAN]

\* Publish never runs inside a client another thread has deleted: both hold mqtt_mutex,
\* and the retries, which do not, never delete.
PublishInLiveClient ==
  pc["comms"] = "publish" => this["comms"] = Null \/ LiveCli(this["comms"])

SessionUp == LiveCli(mqtt_client_) /\ clis[mqtt_client_].conn

Quiet == /\ pc["comms"] \in {"loop", "publish", "check", "reconnect"}
         /\ pc["submgr"] \in {"idle", "yield", "is_conn", "reconnect"}

\* When no thread is connecting or reconnecting, the broker has answered the subscription
\* to the service topic in every open session: the two threads may replace each other's
\* client at any point, but the last one to create a client has subscribed through it.
ConnectedMeansSubscribed == Quiet /\ SessionUp => clis[mqtt_client_].sub # "no"

\* The other thread counted between an increment and its comparison, which is with ==: the
\* counter goes all the way round.
SteppedOver == failed > MaxFailed

\* A closed session is opened again, or the board reboots and starts over, unless a thread
\* waits for ever for a silent broker, as it may with mqtt_mutex in hand, or the counter of
\* failed attempts steps over its limit again and again.
Recovers ==
  (\A t \in Threads : []<>~Waits(t)) /\ <>[]~SteppedOver
    => (mqtt_ok /\ ~SessionUp ~> SessionUp \/ ~mqtt_ok)

\* FLAG_MQTT_OK is raised when the session is up.
FlagMeansUp == [][~mqtt_ok /\ mqtt_ok' => SessionUp']_vars

\* The board restarts only when the reconnection failed.
ResetOnlyIfFailed == [][\A t \in Threads : RetryReset(t) => ~Reconnected(t)]_vars

\* The client is disconnected through a network that still exists.
DisconnectOverLiveNetwork ==
  \A t \in Threads : pc[t] = "disc_cli" /\ LiveCli(mqtt_client_) => Sound(mqtt_client_)
=============================================================================
