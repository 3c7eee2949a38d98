-------------------------- MODULE MqttSessionProofs --------------------------
(***************************************************************************)
(* Proofs about the two threads that share one MQTT session, for any limit *)
(* on failed reconnections.  The invariant says which thread can be inside *)
(* which object, and who still owes the broker a subscription.             *)
(***************************************************************************)
EXTENDS MqttSession, TLAPS

Connecting == {"new_net", "conn_net", "new_cli", "conn_cli", "subscribe", "suback"}
Deleting   == {"del_net", "null_net", "disc_cli", "del_cli", "null_cli"}
Inside     == {"conn_cli", "suback", "publish", "yield"}
Retrying   == {"count", "store", "compare"}

\* The steps of a retry that is over: the counter is read, written and compared.
Counts(t) == RetryCount(t) \/ RetryStore(t) \/ RetryGoesOn(t)

\* The first attempt of a reconnection and Publish run under mqtt_mutex, the retries never
\* delete, and Connect runs before the other thread is started.
ThreadControl(t) ==
  /\ mode[t] = "locked" => mqtt_mutex = t /\ pc[t] \in Connecting \cup Deleting \cup {"unlock"}
  /\ mode[t] = "retry" => pc[t] \in Connecting \cup Retrying
  /\ mode[t] = "boot" => pc[t] \notin Deleting \cup Retrying \cup {"unlock"}
  /\ mode[t] = "boot" /\ pc[t] \in Connecting \cup {"flag"}
       => t = "comms" /\ pc["submgr"] = "off"
  /\ pc[t] = "publish" => mqtt_mutex = t
  /\ this[t] # Null => pc[t] \in Inside

Control == \A t \in Threads : ThreadControl(t)

\* mqtt_client_ dangles only between the delete and the assignment after it.
DanglesInDelete ==
  mqtt_client_ # Null /\ ~clis[mqtt_client_].live => \E t \in Threads : pc[t] = "null_cli"

\* A client that is connected and not yet answered for has a thread on its way to subscribe.
OwesSubscription(t) ==
  \/ pc[t] \in {"flag", "subscribe"}
  \/ pc[t] = "suback" /\ this[t] = mqtt_client_

SubscriptionOwed ==
  SessionUp /\ clis[mqtt_client_].sub = "no" => \E t \in Threads : OwesSubscription(t)

IInv == TypeOK /\ Control /\ DanglesInDelete /\ PublishInLiveClient /\ SubscriptionOwed
-----------------------------------------------------------------------------
(* Objects *)

Nets == [NetIds -> {"freed", "down", "up"}]
Clis == [CliIds -> [net : NetIds \cup {Null}, conn : BOOLEAN,
                    sub : {"no", "granted", "refused"}, live : BOOLEAN]]

\* A client that is still referred to after the step survives it, the others are forgotten.
LEMMA HeapKeepsHeld ==
  ASSUME NEW nn, NEW cc, Heap(nn, cc),
         NEW c \in CliIds
  PROVE  /\ c = mqtt_client_' \/ (\E t \in Threads : this'[t] = c) => clis'[c] = cc[c]
         /\ clis'[c] \in {cc[c], Freed}
BY DEF Heap, CliIds, Null

\* Forgetting objects leaves a well-formed heap.
LEMMA HeapTyped ==
  ASSUME NEW nn \in Nets, NEW cc \in Clis, Heap(nn, cc)
  PROVE  nets' \in Nets /\ clis' \in Clis
BY DEF Heap, Nets, Clis, Freed, Null

\* Closing the session of a client leaves a well-formed heap and deletes nothing.
LEMMA ClosedFacts ==
  ASSUME TypeOK, NEW c \in CliIds \cup {Null}
  PROVE  /\ Closed(c) \in Clis
         /\ \A d \in CliIds : /\ Closed(c)[d].live = clis[d].live
                              /\ Closed(c)[d].conn => Closed(c)[d] = clis[d]
                              /\ clis[d].live /\ Closed(c)[d].conn => d # c
<1>1. CASE ~LiveCli(c)
  BY <1>1 DEF TypeOK, Clis, Closed, LiveCli, Null, CliIds
<1>2. CASE LiveCli(c)
  <2>1. c \in CliIds
    BY <1>2 DEF LiveCli
  <2>2. Closed(c) = [[clis EXCEPT ![c].conn = FALSE] EXCEPT ![c].sub = "no"]
    BY <1>2 DEF Closed
  <2> DEFINE cc == [clis EXCEPT ![c].conn = FALSE]
  <2>3. cc \in Clis /\ cc[c].conn = FALSE /\ cc[c].live = clis[c].live
    BY <1>2, <2>1 DEF TypeOK, Clis, LiveCli
  <2>4. \A d \in CliIds \ {c} : cc[d] = clis[d]
    BY DEF TypeOK
  <2> HIDE DEF cc
  <2>5. [cc EXCEPT ![c].sub = "no"] \in Clis
    BY <2>1, <2>3 DEF Clis
  <2>6. /\ [cc EXCEPT ![c].sub = "no"][c].conn = FALSE
        /\ [cc EXCEPT ![c].sub = "no"][c].live = clis[c].live
    BY <2>1, <2>3 DEF Clis
  <2>7. \A d \in CliIds \ {c} : [cc EXCEPT ![c].sub = "no"][d] = cc[d]
    BY <2>1, <2>3 DEF Clis
  <2>8. Closed(c) = [cc EXCEPT ![c].sub = "no"]
    BY <2>2 DEF cc
  <2> QED  BY <1>2, <2>1, <2>4, <2>5, <2>6, <2>7, <2>8 DEF LiveCli
<1> QED  BY <1>1, <1>2

\* With the pointer, two threads and three clients there is always a spare network and, for
\* a thread that is inside no client, a spare client.
LEMMA SpareNetwork ==
  ASSUME TypeOK
  PROVE  (CHOOSE m \in NetIds : m \notin HeldNets) \in NetIds
<1>1. \E m \in NetIds : m \notin HeldNets
  <2> DEFINE a == mqtt_network_
             b == IF mqtt_client_ = Null THEN Null ELSE clis[mqtt_client_].net
             d == IF this["comms"] = Null THEN Null ELSE clis[this["comms"]].net
             e == IF this["submgr"] = Null THEN Null ELSE clis[this["submgr"]].net
  <2>1. HeldNets \subseteq {a, b, d, e}
    BY DEF HeldNets, HeldClis, Threads
  <2>2. \E m \in NetIds : m \notin {a, b, d, e}
    <3> HIDE DEF a, b, d, e
    <3> QED  BY DEF NetIds
  <2> QED  BY <2>1, <2>2
<1> QED  BY <1>1

\* There is always a name for the client that ReconnectMqttService is about to make.
LEMMA SpareClient ==
  ASSUME TypeOK, NEW t \in Threads, this[t] = Null
  PROVE  LET c == CHOOSE d \in CliIds : d \notin HeldClis
         IN  /\ c \in CliIds /\ c # mqtt_client_
             /\ \A s \in Threads : this[s] # c
<1>1. \E d \in CliIds : d \notin HeldClis
  BY DEF HeldClis, CliIds, Threads, Null
<1>2. PICK c : c = CHOOSE d \in CliIds : d \notin HeldClis
  OBVIOUS
<1>3. c \in CliIds /\ c \notin HeldClis
  BY <1>1, <1>2
<1> QED  BY <1>2, <1>3 DEF HeldClis

-----------------------------------------------------------------------------
(* Types *)

\* A thread that leaves a client leaves a well-formed heap.
LEMMA LeaveTyped ==
  ASSUME TypeOK, NEW t \in Threads, NEW cc \in Clis, Leave(t, cc)
  PROVE  /\ nets' \in Nets /\ clis' \in Clis
         /\ this' \in [Threads -> CliIds \cup {Null}]
         /\ UNCHANGED <<mqtt_network_, mqtt_client_>>
<1>1. nets \in Nets
  BY DEF TypeOK, Nets
<1> QED  BY <1>1, HeapTyped DEF Leave, TypeOK

\* What a reset leaves behind is well formed.
LEMMA RebootTyped == Reboot => TypeOK'
<1> SUFFICES ASSUME Reboot PROVE TypeOK'
  OBVIOUS
<1>1. [comms |-> "new_net", submgr |-> "off"] \in [Threads -> Labels]
  BY DEF Threads, Labels
<1>2. Freed \in [net : NetIds \cup {Null}, conn : BOOLEAN,
                sub : {"no", "granted", "refused"}, live : BOOLEAN]
  BY DEF Freed, Null
<1>3. 0 \in 0..CounterSize - 1
  BY MaxFailedAssumption
<1> QED  BY <1>1, <1>2, <1>3 DEF Reboot, TypeOK, Both, Null

\* The control variables stay well formed along the connection sequence.
LEMMA AfterSubscribeTyped ==
  ASSUME TypeOK, NEW t \in Threads, AfterSubscribe(t)
  PROVE  pc' \in [Threads -> Labels]
<1>1. mode[t] \in {"boot", "locked", "retry"}
  BY DEF TypeOK
<1>2. \/ pc' = [comms |-> "loop", submgr |-> "idle"]
      \/ pc' = [pc EXCEPT ![t] = "unlock"]
      \/ pc' = [pc EXCEPT ![t] = "count"]
  BY <1>1 DEF AfterSubscribe
<1> QED  BY <1>2 DEF TypeOK, Labels, Threads

\* Connecting: network, session and subscription, at boot and in every reconnection.
LEMMA ConnectTyped ==
  ASSUME TypeOK, Control, NEW t \in Threads, Connect(t)
  PROVE  TypeOK'
<1>a. nets \in Nets /\ clis \in Clis
  BY DEF TypeOK, Nets, Clis
<1>1. CASE NewNetwork(t)
  <2> DEFINE n == CHOOSE m \in NetIds : m \notin HeldNets
  <2>1. n \in NetIds
    BY SpareNetwork
  <2> HIDE DEF n
  <2>2. [nets EXCEPT ![n] = "down"] \in Nets
    BY <1>a, <2>1 DEF Nets
  <2>3. /\ Heap([nets EXCEPT ![n] = "down"], clis)
        /\ mqtt_network_' = n
        /\ UNCHANGED <<mqtt_client_, this, shared, mode, net_ok, cli_ok, seen>>
        /\ Goto(t, "conn_net")
    BY <1>1 DEF NewNetwork, n
  <2>4. nets' \in Nets /\ clis' \in Clis
    BY <1>a, <2>2, <2>3, HeapTyped
  <2> QED  BY <2>1, <2>3, <2>4 DEF TypeOK, Nets, Clis, shared, Goto, Labels
<1>2. CASE ConnectNetworkOk(t) \/ ConnectNetworkFails(t)
  BY <1>2 DEF ConnectNetworkOk, ConnectNetworkFails, AfterNetwork, LiveNet, TypeOK,
              shared, heap, Goto, Labels
<1>3. CASE NewClient(t)
  <2> DEFINE c == CHOOSE d \in CliIds : d \notin HeldClis
  <2>1. c \in CliIds
    BY <1>3, SpareClient DEF NewClient, Control, ThreadControl, Inside
  <2> HIDE DEF c
  <2>2. [clis EXCEPT ![c] = Client(mqtt_network_)] \in Clis
    BY <1>a, <2>1 DEF Clis, Client, TypeOK
  <2>3. /\ Heap(nets, [clis EXCEPT ![c] = Client(mqtt_network_)])
        /\ mqtt_client_' = c /\ this' = [this EXCEPT ![t] = c]
        /\ UNCHANGED <<mqtt_network_, shared, mode, net_ok, cli_ok, seen>>
        /\ Goto(t, "conn_cli")
    BY <1>3 DEF NewClient, c
  <2>4. nets' \in Nets /\ clis' \in Clis
    BY <1>a, <2>2, <2>3, HeapTyped
  <2> QED  BY <2>1, <2>3, <2>4 DEF TypeOK, Nets, Clis, shared, Goto, Labels
<1>4. CASE ConnectClientOk(t) \/ ConnectClientFails(t)
  <2>1. \E cc \in Clis : Leave(t, cc)
    <3>1. CASE ConnectClientOk(t)
      <4>1. this[t] \in CliIds
        BY <3>1 DEF ConnectClientOk, LiveCli, TypeOK
      <4>2. [clis EXCEPT ![this[t]].conn = TRUE] \in Clis
        BY <1>a, <4>1 DEF Clis
      <4> QED  BY <3>1, <4>2 DEF ConnectClientOk
    <3>2. CASE ConnectClientFails(t)
      BY <1>a, <3>2 DEF ConnectClientFails
    <3> QED  BY <1>4, <3>1, <3>2
  <2>2. /\ nets' \in Nets /\ clis' \in Clis
        /\ this' \in [Threads -> CliIds \cup {Null}]
        /\ UNCHANGED <<mqtt_network_, mqtt_client_>>
    BY <2>1, LeaveTyped
  <2> QED  BY <1>4, <2>2 DEF ConnectClientOk, ConnectClientFails, TypeOK, Nets, Clis,
                             shared, Goto, Labels
<1>5. CASE Subscribe(t)
  BY <1>5 DEF Subscribe, TypeOK, shared, heap, Goto, Labels
<1>6. CASE SubscribeOk(t) \/ SubscribeRefused(t) \/ SubscribeFails(t)
  <2>1. \E cc \in Clis : Leave(t, cc)
    <3>1. CASE SubscribeFails(t)
      BY <3>1, ClosedFacts DEF SubscribeFails, TypeOK
    <3>2. CASE SubscribeOk(t) \/ SubscribeRefused(t)
      <4>1. this[t] \in CliIds
        BY <3>2 DEF SubscribeOk, SubscribeRefused, Usable, LiveCli, TypeOK
      <4>2. \A v \in {"granted", "refused"} : [clis EXCEPT ![this[t]].sub = v] \in Clis
        BY <1>a, <4>1 DEF Clis
      <4> QED  BY <3>2, <4>2 DEF SubscribeOk, SubscribeRefused
    <3> QED  BY <1>6, <3>1, <3>2
  <2>2. /\ nets' \in Nets /\ clis' \in Clis
        /\ this' \in [Threads -> CliIds \cup {Null}]
        /\ UNCHANGED <<mqtt_network_, mqtt_client_>>
    BY <2>1, LeaveTyped
  <2>3. pc' \in [Threads -> Labels]
    BY <1>6, AfterSubscribeTyped DEF SubscribeOk, SubscribeRefused, SubscribeFails
  <2>4. /\ UNCHANGED <<shared, mode, net_ok, seen>>
        /\ cli_ok' = cli_ok \/ cli_ok' = [cli_ok EXCEPT ![t] = FALSE]
    BY <1>6 DEF SubscribeOk, SubscribeRefused, SubscribeFails
  <2> QED  BY <2>2, <2>3, <2>4 DEF TypeOK, Nets, Clis, shared
<1> QED  BY <1>1, <1>2, <1>3, <1>4, <1>5, <1>6 DEF Connect

\* ReconnectMqttService: the mutex, the old objects deleted one by one, the retries counted.
LEMMA ReconnectTyped ==
  ASSUME TypeOK, NEW t \in Threads, Reconnect(t)
  PROVE  TypeOK'
<1>a. nets \in Nets /\ clis \in Clis
  BY DEF TypeOK, Nets, Clis
<1>1. CASE LockReconnect(t)
  BY <1>1 DEF LockReconnect, TypeOK, heap, Goto, Labels
<1>2. CASE DeleteNetwork(t)
  BY <1>2 DEF DeleteNetwork, LiveNet, TypeOK, shared, Goto, Labels
<1>3. CASE NullNetwork(t) \/ NullClient(t)
  <2>1. Heap(nets, clis)
    BY <1>3 DEF NullNetwork, NullClient
  <2>2. nets' \in Nets /\ clis' \in Clis
    BY <1>a, <2>1, HeapTyped
  <2> QED  BY <1>3, <2>2 DEF NullNetwork, NullClient, TypeOK, Nets, Clis, shared, Goto, Labels
<1>4. CASE DisconnectClient(t)
  <2>1. clis' \in Clis
    BY <1>4, ClosedFacts DEF DisconnectClient, TypeOK
  <2> QED  BY <1>4, <2>1 DEF DisconnectClient, TypeOK, Clis, shared, Goto, Labels
<1>5. CASE DeleteClient(t)
  <2> DEFINE cc == IF LiveCli(mqtt_client_) THEN [clis EXCEPT ![mqtt_client_] = Freed]
                   ELSE clis
  <2>1. cc \in Clis
    BY <1>a DEF Clis, Freed
  <2>2. Heap(nets, cc)
    BY <1>5 DEF DeleteClient
  <2>3. nets' \in Nets /\ clis' \in Clis
    BY <1>a, <2>1, <2>2, HeapTyped
  <2> QED  BY <1>5, <2>3 DEF DeleteClient, TypeOK, Nets, Clis, shared, Goto, Labels
<1>6. Return(t) => /\ failed' \in 0..CounterSize - 1
                   /\ pc' \in [Threads -> Labels]
                   /\ mode' \in [Threads -> {"boot", "locked", "retry"}]
                   /\ net_ok' \in [Threads -> BOOLEAN] /\ cli_ok' \in [Threads -> BOOLEAN]
  BY MaxFailedAssumption DEF Return, Goto, Caller, Labels, TypeOK
<1>7. CASE UnlockReconnect(t)
  BY <1>6, <1>7 DEF UnlockReconnect, TypeOK, heap, Goto, Labels
<1>8. CASE RetryReset(t)
  BY <1>8, RebootTyped DEF RetryReset
<1>9. CASE RetryCount(t)
  BY <1>9 DEF RetryCount, TypeOK, shared, heap, Goto, Labels
<1>10. CASE RetryStore(t)
  <2>1. (seen[t] + 1) % CounterSize \in 0..CounterSize - 1
    <3>1. \A n, m \in Nat : m > 0 => n % m \in 0..m - 1
      OBVIOUS
    <3>2. seen[t] + 1 \in Nat
      BY DEF TypeOK
    <3> QED  BY <3>1, <3>2, MaxFailedAssumption
  <2>2. /\ failed' \in 0..CounterSize - 1 /\ seen' = [seen EXCEPT ![t] = failed']
        /\ Goto(t, "compare")
        /\ UNCHANGED <<mqtt_mutex, mqtt_ok, pub_ok, heap, mode, this, net_ok, cli_ok>>
    BY <1>10, <2>1 DEF RetryStore
  <2> QED  BY <2>2 DEF TypeOK, heap, Goto, Labels
<1>11. CASE RetryGoesOn(t)
  <2>1. seen' \in [Threads -> 0..CounterSize - 1]
    BY <1>11, MaxFailedAssumption DEF RetryGoesOn, TypeOK
  <2> QED  BY <1>6, <1>11, <2>1 DEF RetryGoesOn, TypeOK, heap, Goto, Labels
<1> QED  BY <1>1, <1>2, <1>3, <1>4, <1>5, <1>7, <1>8, <1>9, <1>10, <1>11
         DEF Reconnect

\* The loops of the two threads: yield, publish and the checks around them.
LEMMA LoopsTyped ==
  ASSUME TypeOK, Comms \/ SubMgr
  PROVE  TypeOK'
<1>a. clis \in Clis /\ "comms" \in Threads /\ "submgr" \in Threads
  BY DEF TypeOK, Clis, Threads
<1>1. CASE SetFlag \/ CommsIdle \/ CommsCheck
  BY <1>1, <1>a DEF SetFlag, CommsIdle, CommsCheck, TypeOK, shared, heap, Goto, Labels
<1>5. CASE CommsPublish
  BY <1>5, <1>a DEF CommsPublish, TypeOK, heap, Goto, Labels
<1>2. CASE CommsPublishOk \/ CommsPublishFails
  <2>1. \E cc \in Clis : Leave("comms", cc)
    BY <1>2, <1>a, ClosedFacts DEF CommsPublishOk, CommsPublishFails, TypeOK
  <2>2. /\ nets' \in Nets /\ clis' \in Clis
        /\ this' \in [Threads -> CliIds \cup {Null}]
        /\ UNCHANGED <<mqtt_network_, mqtt_client_>>
    BY <2>1, <1>a, LeaveTyped
  <2> QED  BY <1>2, <1>a, <2>2 DEF CommsPublishOk, CommsPublishFails, PublishEnds, TypeOK,
                                   Nets, Clis, Goto, Labels
<1>3. CASE SubYield \/ SubIsConnected
  BY <1>3, <1>a DEF SubYield, SubIsConnected, TypeOK, shared, heap, Goto, Labels
<1>4. CASE SubYieldDone
  <2>1. \E cc \in Clis : Leave("submgr", cc)
    BY <1>4, <1>a, ClosedFacts DEF SubYieldDone, TypeOK
  <2>2. /\ nets' \in Nets /\ clis' \in Clis
        /\ this' \in [Threads -> CliIds \cup {Null}]
        /\ UNCHANGED <<mqtt_network_, mqtt_client_>>
    BY <2>1, <1>a, LeaveTyped
  <2> QED  BY <1>4, <1>a, <2>2 DEF SubYieldDone, TypeOK, Nets, Clis, shared, Goto, Labels
<1> QED  BY <1>1, <1>2, <1>3, <1>4, <1>5 DEF Comms, SubMgr

\* No step of any thread leaves the ranges.
LEMMA TypeStep == TypeOK /\ Control /\ [Next]_vars => TypeOK'
<1> SUFFICES ASSUME TypeOK, Control, [Next]_vars
             PROVE  TypeOK'
  OBVIOUS
<1>1. CASE Comms \/ SubMgr
  BY <1>1, LoopsTyped
<1>2. ASSUME NEW t \in Threads, Connect(t)
      PROVE  TypeOK'
  BY <1>2, ConnectTyped
<1>3. ASSUME NEW t \in Threads, Reconnect(t)
      PROVE  TypeOK'
  BY <1>3, ReconnectTyped
<1>4. ASSUME NEW t \in Threads, Fault(t)
      PROVE  TypeOK'
  BY <1>4, RebootTyped DEF Fault
<1>5. CASE UNCHANGED vars
  BY <1>5 DEF vars, shared, heap, local, TypeOK
<1> QED  BY <1>1, <1>2, <1>3, <1>4, <1>5 DEF Next
-----------------------------------------------------------------------------
(* Control *)

\* A board that restarts is back in Connect, with nothing held.
LEMMA RebootEstablishes ==
  Reboot => Control' /\ DanglesInDelete' /\ PublishInLiveClient' /\ SubscriptionOwed'
BY DEF Reboot, Control, ThreadControl, DanglesInDelete, PublishInLiveClient, SubscriptionOwed,
     SessionUp,
       LiveCli, Both, Threads, Connecting, Deleting, Inside, Retrying, Null

\* A step of one thread, once started, disturbs what is known of the other only through the
\* mutex, which it takes when it is free and gives back when it has it.
LEMMA OneThreadMoves ==
  ASSUME TypeOK, Control, NEW t \in Threads, NEW l, NEW m,
         pc[t] # "off", pc' = [pc EXCEPT ![t] = l], mode' = [mode EXCEPT ![t] = m],
         \A s \in Threads \ {t} : this'[s] = this[s],
         mqtt_mutex' = mqtt_mutex \/ mqtt_mutex \in {t, "none"},
         ThreadControl(t)'
  PROVE  Control'
<1> SUFFICES ASSUME NEW s \in Threads \ {t}
             PROVE  ThreadControl(s)'
  BY DEF Control
<1>1. pc'[s] = pc[s] /\ mode'[s] = mode[s] /\ this'[s] = this[s]
  BY DEF TypeOK
<1>2. pc["submgr"] = "off" => pc'["submgr"] = "off"
  BY DEF TypeOK
<1>3. mqtt_mutex = s => mqtt_mutex' = s
  BY DEF Threads
<1> QED  BY <1>1, <1>2, <1>3 DEF Control, ThreadControl

\* No step of the connection sequence leaves its place in it, and only the end of Connect
\* starts the other thread.
LEMMA ConnectControl ==
  ASSUME TypeOK, Control, NEW t \in Threads, Connect(t)
  PROVE  Control'
<1> USE DEF Connecting, Deleting, Inside, Retrying
<1>a. ThreadControl(t) /\ pc[t] \in Labels /\ mode[t] \in {"boot", "locked", "retry"}
  BY DEF Control, TypeOK
<1>b. mode' = [mode EXCEPT ![t] = mode[t]] /\ mqtt_mutex' = mqtt_mutex
  BY DEF Connect, NewNetwork, ConnectNetworkOk, ConnectNetworkFails, NewClient,
         ConnectClientOk, ConnectClientFails, Subscribe, SubscribeOk, SubscribeRefused,
         SubscribeFails, shared, TypeOK
<1>1. CASE NewNetwork(t) \/ ConnectNetworkOk(t) \/ ConnectNetworkFails(t)
  <2>1. PICK l \in {"conn_net", "flag", "new_cli"} :
          /\ pc' = [pc EXCEPT ![t] = l] /\ this' = this
          /\ l = "flag" => mode[t] = "boot"
    BY <1>1 DEF NewNetwork, ConnectNetworkOk, ConnectNetworkFails, AfterNetwork, Goto
  <2>2. pc[t] \in {"new_net", "conn_net"}
    BY <1>1 DEF NewNetwork, ConnectNetworkOk, ConnectNetworkFails
  <2>3. ThreadControl(t)'
    BY <1>a, <1>b, <2>1, <2>2 DEF ThreadControl, TypeOK
  <2> QED  BY <1>b, <2>1, <2>2, <2>3, OneThreadMoves
<1>2. CASE NewClient(t) \/ ConnectClientOk(t) \/ ConnectClientFails(t) \/ Subscribe(t)
  <2>1. PICK l \in {"conn_cli", "flag", "subscribe", "suback"} :
          /\ pc' = [pc EXCEPT ![t] = l]
          /\ l = "flag" => mode[t] = "boot"
          /\ \A s \in Threads \ {t} : this'[s] = this[s]
          /\ l \in {"flag", "subscribe"} => this'[t] = Null
    BY <1>2 DEF NewClient, ConnectClientOk, ConnectClientFails, Subscribe, Leave, Goto, TypeOK
  <2>2. pc[t] \in {"new_cli", "conn_cli", "subscribe"}
    BY <1>2 DEF NewClient, ConnectClientOk, ConnectClientFails, Subscribe
  <2>3. mode[t] = "boot" => t = "comms" /\ pc'["submgr"] = "off"
    BY <1>a, <2>1, <2>2 DEF ThreadControl, TypeOK
  <2>4. ThreadControl(t)'
    BY <1>a, <1>b, <2>1, <2>2, <2>3 DEF ThreadControl, TypeOK
  <2> QED  BY <1>b, <2>1, <2>2, <2>4, OneThreadMoves
<1>3. CASE SubscribeOk(t) \/ SubscribeRefused(t) \/ SubscribeFails(t)
  <2>1. /\ pc[t] = "suback" /\ AfterSubscribe(t) /\ this' = [this EXCEPT ![t] = Null]
    BY <1>3 DEF SubscribeOk, SubscribeRefused, SubscribeFails, Leave
  <2>2. CASE mode[t] = "boot"
    <3>1. pc' = [comms |-> "loop", submgr |-> "idle"] /\ t = "comms" /\ pc["submgr"] = "off"
      BY <1>a, <2>1, <2>2 DEF AfterSubscribe, ThreadControl
    <3>2. mode' = mode /\ mode["submgr"] = "boot" /\ this["submgr"] = Null
      BY <1>b, <3>1 DEF TypeOK, Control, ThreadControl, Threads
    <3>3. this'["comms"] = Null /\ this'["submgr"] = Null
      BY <2>1, <3>1, <3>2 DEF TypeOK, Threads
    <3> QED  BY <2>2, <3>1, <3>2, <3>3 DEF Control, ThreadControl, Threads
  <2>3. CASE mode[t] # "boot"
    <3>1. PICK l \in {"unlock", "count"} :
            /\ pc' = [pc EXCEPT ![t] = l]
            /\ mode[t] = IF l = "unlock" THEN "locked" ELSE "retry"
      BY <1>a, <2>1, <2>3 DEF AfterSubscribe
    <3>2. ThreadControl(t)'
      BY <1>a, <1>b, <2>1, <3>1 DEF ThreadControl, TypeOK
    <3> QED  BY <1>b, <2>1, <3>1, <3>2, OneThreadMoves DEF TypeOK
  <2> QED  BY <2>2, <2>3
<1> QED  BY <1>1, <1>2, <1>3 DEF Connect

\* A reconnection deletes between taking and giving back the mutex.
LEMMA ReconnectControl ==
  ASSUME TypeOK, Control, NEW t \in Threads, Reconnect(t)
  PROVE  Control'
<1> USE DEF Connecting, Deleting, Inside, Retrying
<1>a. ThreadControl(t) /\ pc[t] \in Labels /\ mode[t] \in {"boot", "locked", "retry"}
  BY DEF Control, TypeOK
<1>1. CASE LockReconnect(t)
  <2>1. /\ pc[t] = "reconnect" /\ mqtt_mutex = "none" /\ mqtt_mutex' = t /\ this' = this
        /\ pc' = [pc EXCEPT ![t] = "del_net"] /\ mode' = [mode EXCEPT ![t] = "locked"]
    BY <1>1 DEF LockReconnect, Goto
  <2>2. ThreadControl(t)'
    BY <1>a, <2>1 DEF ThreadControl, TypeOK
  <2> QED  BY <2>1, <2>2, OneThreadMoves
<1>2. CASE DeleteNetwork(t) \/ NullNetwork(t) \/ DisconnectClient(t) \/ DeleteClient(t)
           \/ NullClient(t)
  <2>1. PICK l \in {"null_net", "disc_cli", "del_cli", "null_cli", "new_net"} :
          /\ pc' = [pc EXCEPT ![t] = l] /\ this' = this /\ mqtt_mutex' = mqtt_mutex
          /\ mode' = [mode EXCEPT ![t] = mode[t]]
    BY <1>2 DEF DeleteNetwork, NullNetwork, DisconnectClient, DeleteClient, NullClient, Goto,
                shared, TypeOK
  <2>2. pc[t] \in Deleting
    BY <1>2 DEF DeleteNetwork, NullNetwork, DisconnectClient, DeleteClient, NullClient
  <2>3. ThreadControl(t)'
    BY <1>a, <2>1, <2>2 DEF ThreadControl, TypeOK
  <2> QED  BY <2>1, <2>2, <2>3, OneThreadMoves
<1>3. CASE UnlockReconnect(t) \/ RetryGoesOn(t)
  <2>1. PICK l \in {"loop", "idle", "new_net"}, m \in {"boot", "retry"} :
          /\ pc' = [pc EXCEPT ![t] = l] /\ mode' = [mode EXCEPT ![t] = m] /\ this' = this
          /\ m = IF l = "new_net" THEN "retry" ELSE "boot"
    <3>1. CASE Reconnected(t)
      BY <1>3, <3>1 DEF UnlockReconnect, RetryGoesOn, Return, Caller, Goto, heap
    <3>2. CASE UnlockReconnect(t) /\ ~Reconnected(t)
      BY <3>2 DEF UnlockReconnect, Goto
    <3>3. CASE RetryGoesOn(t) /\ ~Reconnected(t)
      <4>1. mode[t] = "retry"
        BY <1>a, <3>3 DEF RetryGoesOn, ThreadControl
      <4>2. mode' = [mode EXCEPT ![t] = "retry"]
        BY <3>3, <4>1 DEF RetryGoesOn, TypeOK
      <4> QED  BY <3>3, <4>2 DEF RetryGoesOn, Goto
    <3> QED  BY <1>3, <3>1, <3>2, <3>3
  <2>2. /\ pc[t] \in {"unlock", "compare"}
        /\ mqtt_mutex' = mqtt_mutex \/ mqtt_mutex = t
    BY <1>a, <1>3 DEF UnlockReconnect, RetryGoesOn, ThreadControl
  <2>3. ThreadControl(t)'
    BY <1>a, <2>1, <2>2 DEF ThreadControl, TypeOK
  <2> QED  BY <2>1, <2>2, <2>3, OneThreadMoves
<1>4. CASE RetryReset(t)
  BY <1>4, RebootEstablishes DEF RetryReset
<1>5. CASE RetryCount(t) \/ RetryStore(t)
  <2>1. PICK l \in {"store", "compare"} :
          /\ pc' = [pc EXCEPT ![t] = l] /\ this' = this /\ mqtt_mutex' = mqtt_mutex
          /\ mode' = [mode EXCEPT ![t] = mode[t]]
    BY <1>5 DEF RetryCount, RetryStore, Goto, shared, TypeOK
  <2>2. pc[t] \in {"count", "store"} /\ mode[t] = "retry"
    BY <1>a, <1>5 DEF RetryCount, RetryStore, ThreadControl
  <2>3. ThreadControl(t)'
    BY <1>a, <2>1, <2>2 DEF ThreadControl, TypeOK
  <2> QED  BY <2>1, <2>2, <2>3, OneThreadMoves
<1> QED  BY <1>1, <1>2, <1>3, <1>4, <1>5 DEF Reconnect

\* Publish runs under the mutex; the main loops of the two threads delete nothing.
LEMMA LoopsControl ==
  ASSUME TypeOK, Control, Comms \/ SubMgr
  PROVE  Control'
<1> USE DEF Connecting, Deleting, Inside, Retrying
<1>1. ASSUME NEW t \in Threads, NEW l,
             \/ t = "comms" /\ Comms /\ pc[t] \in {"flag", "loop", "publish", "check"}
             \/ t = "submgr" /\ SubMgr /\ pc[t] \in {"idle", "yield", "is_conn"},
             pc' = [pc EXCEPT ![t] = l],
             l \in {"subscribe", "publish", "check", "loop", "reconnect", "yield", "is_conn",
                    "idle"},
             l = "subscribe" => pc[t] = "flag",
             l = "publish" => mqtt_mutex' = t,
             this' = this \/ this' = [this EXCEPT ![t] = Null] \/ l \in {"publish", "yield"},
             \A s \in Threads \ {t} : this'[s] = this[s],
             mqtt_mutex' = mqtt_mutex \/ mqtt_mutex \in {t, "none"},
             this'[t] # Null => l \in {"publish", "yield"}
      PROVE  Control'
  <2>1. mode[t] = "boot" /\ mode' = [mode EXCEPT ![t] = mode[t]]
    BY <1>1 DEF Comms, SubMgr, SetFlag, CommsPublish, CommsPublishOk, CommsPublishFails,
                PublishEnds, CommsIdle, CommsCheck, SubYield, SubYieldDone, SubIsConnected,
                Control, ThreadControl, TypeOK
  <2>2. ThreadControl(t)'
    BY <1>1, <2>1 DEF Control, ThreadControl, TypeOK
  <2> QED  BY <1>1, <2>1, <2>2, OneThreadMoves
<1>a. /\ "comms" \in Threads /\ ThreadControl("comms")
      /\ "submgr" \in Threads /\ ThreadControl("submgr")
  BY DEF Threads, Control
<1>2. CASE SetFlag \/ CommsIdle \/ CommsCheck
  <2>1. PICK l \in {"subscribe", "check", "loop", "reconnect"} :
          /\ pc' = [pc EXCEPT !["comms"] = l]
          /\ l = "subscribe" => pc["comms"] = "flag"
    BY <1>2 DEF SetFlag, CommsIdle, CommsCheck, Goto
  <2>2. /\ this' = this /\ mqtt_mutex' = mqtt_mutex /\ this["comms"] = Null
        /\ pc["comms"] \in {"flag", "loop", "check"}
    BY <1>2, <1>a DEF SetFlag, CommsIdle, CommsCheck, shared, ThreadControl
  <2> QED  BY <1>2, <1>a, <1>1, <2>1, <2>2 DEF Comms
<1>3. CASE CommsPublish
  BY <1>3, <1>a, <1>1 DEF CommsPublish, Goto, Comms, TypeOK
<1>4. CASE CommsPublishOk \/ CommsPublishFails
  <2>1. /\ pc' = [pc EXCEPT !["comms"] = "check"] /\ pc["comms"] = "publish"
        /\ this' = [this EXCEPT !["comms"] = Null]
    BY <1>4 DEF CommsPublishOk, CommsPublishFails, PublishEnds, Leave, Goto
  <2>2. mqtt_mutex = "comms"
    BY <1>a, <2>1 DEF ThreadControl
  <2> QED  BY <1>4, <1>a, <1>1, <2>1, <2>2 DEF Comms, TypeOK
<1>5. CASE SubYield
  BY <1>5, <1>a, <1>1 DEF SubYield, Goto, SubMgr, TypeOK, shared
<1>6. CASE SubYieldDone
  <2>1. /\ pc' = [pc EXCEPT !["submgr"] = "is_conn"] /\ pc["submgr"] = "yield"
        /\ this' = [this EXCEPT !["submgr"] = Null] /\ mqtt_mutex' = mqtt_mutex
    BY <1>6 DEF SubYieldDone, Leave, Goto, shared
  <2> QED  BY <1>6, <1>a, <1>1, <2>1 DEF SubMgr, TypeOK
<1>7. CASE SubIsConnected
  <2>1. PICK l \in {"idle", "reconnect"} : pc' = [pc EXCEPT !["submgr"] = l]
    BY <1>7 DEF SubIsConnected, Goto
  <2>2. /\ this' = this /\ mqtt_mutex' = mqtt_mutex /\ this["submgr"] = Null
        /\ pc["submgr"] = "is_conn"
    BY <1>7, <1>a DEF SubIsConnected, shared, ThreadControl
  <2> QED  BY <1>7, <1>a, <1>1, <2>1, <2>2 DEF SubMgr
<1> QED  BY <1>2, <1>3, <1>4, <1>5, <1>6, <1>7 DEF Comms, SubMgr

\* No step of any thread breaks the agreement of mutex, control points and client.
LEMMA ControlStep == TypeOK /\ Control /\ [Next]_vars => Control'
<1> SUFFICES ASSUME TypeOK, Control, [Next]_vars
             PROVE  Control'
  OBVIOUS
<1>1. CASE Comms \/ SubMgr
  BY <1>1, LoopsControl
<1>2. ASSUME NEW t \in Threads, Connect(t)
      PROVE  Control'
  BY <1>2, ConnectControl
<1>3. ASSUME NEW t \in Threads, Reconnect(t)
      PROVE  Control'
  BY <1>3, ReconnectControl
<1>4. ASSUME NEW t \in Threads, Fault(t)
      PROVE  Control'
  BY <1>4, RebootEstablishes DEF Fault
<1>5. CASE UNCHANGED vars
  BY <1>5 DEF vars, shared, local, Control, ThreadControl
<1> QED  BY <1>1, <1>2, <1>3, <1>4, <1>5 DEF Next

-----------------------------------------------------------------------------
(* Deleted clients *)

\* Only a delete and a reset end the life of a client somebody refers to.
LEMMA ClientsSurvive ==
  ASSUME TypeOK, Control, NEW t \in Threads,
         \/ Connect(t) \/ Comms \/ SubMgr
         \/ Reconnect(t) /\ ~DeleteClient(t) /\ ~RetryReset(t),
         NEW c \in CliIds, clis[c].live,
         c = mqtt_client_' \/ \E s \in Threads : this'[s] = c
  PROVE  clis'[c].live
<1>a. "comms" \in Threads /\ "submgr" \in Threads /\ clis \in Clis
  BY DEF Threads, TypeOK, Clis
<1>1. ASSUME NEW nn, NEW cc, Heap(nn, cc), cc[c].live
      PROVE  clis'[c].live
  BY <1>1, HeapKeepsHeld
<1>2. \A s \in Threads : Closed(this[s])[c].live = clis[c].live
  BY ClosedFacts DEF TypeOK
<1>3. CASE NewNetwork(t) \/ NullNetwork(t) \/ NullClient(t)
  BY <1>1, <1>3 DEF NewNetwork, NullNetwork, NullClient
<1>4. CASE ConnectNetworkOk(t) \/ ConnectNetworkFails(t) \/ Subscribe(t) \/ LockReconnect(t)
           \/ DeleteNetwork(t) \/ UnlockReconnect(t) \/ Counts(t)
  BY <1>4 DEF ConnectNetworkOk, ConnectNetworkFails, Subscribe, LockReconnect, DeleteNetwork,
              UnlockReconnect, Counts, RetryCount, RetryStore, RetryGoesOn, heap
<1>5. CASE NewClient(t)
  <2>1. PICK d : Heap(nets, [clis EXCEPT ![d] = Client(mqtt_network_)])
    BY <1>5 DEF NewClient
  <2>2. [clis EXCEPT ![d] = Client(mqtt_network_)][c].live
    BY <1>a DEF Clis, Client
  <2> QED  BY <1>1, <2>1, <2>2
<1>6. CASE ConnectClientOk(t)
  <2>1. [clis EXCEPT ![this[t]].conn = TRUE][c].live
    BY <1>a DEF Clis
  <2> QED  BY <1>1, <1>6, <2>1 DEF ConnectClientOk, Leave
<1>7. CASE ConnectClientFails(t)
  BY <1>1, <1>7 DEF ConnectClientFails, Leave
<1>8. CASE SubscribeOk(t) \/ SubscribeRefused(t)
  <2>1. \A v : [clis EXCEPT ![this[t]].sub = v][c].live
    BY <1>a DEF Clis
  <2> QED  BY <1>1, <1>8, <2>1 DEF SubscribeOk, SubscribeRefused, Leave
<1>9. CASE SubscribeFails(t)
  BY <1>1, <1>2, <1>9 DEF SubscribeFails, Leave
<1>10. CASE DisconnectClient(t)
  BY <1>10, ClosedFacts DEF DisconnectClient, TypeOK
<1>11. CASE SetFlag \/ CommsPublish \/ CommsIdle \/ CommsCheck \/ SubYield \/ SubIsConnected
  BY <1>11 DEF SetFlag, CommsPublish, CommsIdle, CommsCheck, SubYield, SubIsConnected, heap
<1>12. CASE CommsPublishOk \/ CommsPublishFails \/ SubYieldDone
  <2>1. PICK s \in Threads : Leave(s, clis) \/ Leave(s, Closed(this[s]))
    BY <1>12, <1>a DEF CommsPublishOk, CommsPublishFails, SubYieldDone
  <2> QED  BY <1>1, <1>2, <2>1 DEF Leave
<1> QED  BY <1>3, <1>4, <1>5, <1>6, <1>7, <1>8, <1>9, <1>10, <1>11, <1>12
         DEF Counts, Connect, Reconnect, Comms, SubMgr

\* mqtt_client_ changes when a client is made and when the deleting thread clears it.
LEMMA ClientPointer ==
  ASSUME TypeOK, Control, NEW t \in Threads, Connect(t) \/ Comms \/ SubMgr \/ Reconnect(t)
  PROVE  \/ mqtt_client_' = mqtt_client_
         \/ NewClient(t) \/ NullClient(t) \/ RetryReset(t)
BY DEF Connect, Reconnect, Comms, SubMgr, NewNetwork, ConnectNetworkOk, ConnectNetworkFails,
       ConnectClientOk, ConnectClientFails, Subscribe, SubscribeOk, SubscribeRefused,
       SubscribeFails, LockReconnect, DeleteNetwork, NullNetwork, DisconnectClient,
       DeleteClient, UnlockReconnect, Counts, RetryCount, RetryStore, RetryGoesOn, SetFlag,
       CommsPublish, CommsPublishOk,
       CommsPublishFails, CommsIdle, CommsCheck, SubYield, SubYieldDone, SubIsConnected,
       Leave, heap

\* The client just made is the one the pointer and its maker refer to.
LEMMA NewClientFacts ==
  ASSUME TypeOK, Control, NEW t \in Threads, NewClient(t)
  PROVE  /\ mqtt_client_' \in CliIds
         /\ clis'[mqtt_client_'] = Client(mqtt_network_)
         /\ this' = [this EXCEPT ![t] = mqtt_client_']
         /\ \A s \in Threads : this[s] # mqtt_client_'
<1> DEFINE c == CHOOSE d \in CliIds : d \notin HeldClis
<1>1. c \in CliIds /\ \A s \in Threads : this[s] # c
  BY SpareClient DEF NewClient, Control, ThreadControl, Inside
<1> HIDE DEF c
<1>2. /\ Heap(nets, [clis EXCEPT ![c] = Client(mqtt_network_)])
      /\ mqtt_client_' = c /\ this' = [this EXCEPT ![t] = c]
  BY DEF NewClient, c
<1>3. clis'[c] = [clis EXCEPT ![c] = Client(mqtt_network_)][c]
  BY <1>1, <1>2, HeapKeepsHeld
<1> QED  BY <1>1, <1>2, <1>3 DEF TypeOK

\* The two threads move one at a time, except where Connect ends and starts the other one.
LEMMA OtherStays ==
  ASSUME TypeOK, Control, NEW t \in Threads, NEW s \in Threads,
         \/ (Connect(t) \/ Reconnect(t)) /\ ~RetryReset(t) /\ s # t
         \/ Comms /\ s = "submgr"
         \/ SubMgr /\ s = "comms"
  PROVE  /\ this'[s] = this[s]
         /\ pc'[s] = pc[s] \/ (pc[s] = "off" /\ pc'[s] = "idle")
<1> DEFINE Moves(r)   == \E l : pc' = [pc EXCEPT ![r] = l]
           Handles(r) == this' = this \/ \E c : this' = [this EXCEPT ![r] = c]
<1>1. ASSUME NEW r \in Threads, r # s
      PROVE  /\ Moves(r) => pc'[s] = pc[s]
             /\ Handles(r) => this'[s] = this[s]
  BY <1>1 DEF TypeOK
<1> HIDE DEF Moves, Handles
<1>2. CASE (Connect(t) \/ Reconnect(t)) /\ ~RetryReset(t) /\ s # t
  <2>1. CASE SubscribeOk(t) \/ SubscribeRefused(t) \/ SubscribeFails(t)
    <3>1. /\ pc[t] = "suback" /\ AfterSubscribe(t) /\ this' = [this EXCEPT ![t] = Null]
      BY <2>1 DEF SubscribeOk, SubscribeRefused, SubscribeFails, Leave
    <3>2. CASE mode[t] = "boot"
      BY <1>2, <3>1, <3>2 DEF AfterSubscribe, Control, ThreadControl, Connecting, Threads, TypeOK
    <3>3. CASE mode[t] # "boot"
      <4>1. Moves(t)
        BY <3>1, <3>3 DEF AfterSubscribe, TypeOK, Moves
      <4>2. Handles(t)
        BY <3>1 DEF Handles
      <4> QED  BY <1>1, <1>2, <4>1, <4>2
    <3> QED  BY <3>2, <3>3
  <2>2. CASE ~(SubscribeOk(t) \/ SubscribeRefused(t) \/ SubscribeFails(t))
    <3>1. Moves(t)
      BY <1>2, <2>2 DEF Connect, Reconnect, NewNetwork, ConnectNetworkOk, ConnectNetworkFails,
           NewClient, ConnectClientOk, ConnectClientFails, Subscribe, LockReconnect,
           DeleteNetwork, NullNetwork, DisconnectClient, DeleteClient, NullClient,
           UnlockReconnect, Counts, RetryCount, RetryStore, RetryGoesOn, Return, Goto, Moves
    <3>2. Handles(t)
      BY <1>2, <2>2 DEF Connect, Reconnect, NewNetwork, ConnectNetworkOk, ConnectNetworkFails,
           NewClient, ConnectClientOk, ConnectClientFails, Subscribe, LockReconnect,
           DeleteNetwork, NullNetwork, DisconnectClient, DeleteClient, NullClient,
           UnlockReconnect, Counts, RetryCount, RetryStore, RetryGoesOn, Leave, heap, shared,
           Handles
    <3> QED  BY <1>1, <1>2, <3>1, <3>2
  <2> QED  BY <2>1, <2>2
<1>3. CASE Comms /\ s = "submgr"
  <2>1. Moves("comms")
    BY <1>3 DEF Comms, SetFlag, CommsPublish, CommsPublishOk, CommsPublishFails, PublishEnds,
                CommsIdle, CommsCheck, Goto, Moves
  <2>2. Handles("comms")
    BY <1>3 DEF Comms, SetFlag, CommsPublish, CommsPublishOk, CommsPublishFails,
                CommsIdle, CommsCheck, Leave, Handles
  <2> QED  BY <1>1, <1>3, <2>1, <2>2 DEF Threads
<1>4. CASE SubMgr /\ s = "comms"
  <2>1. Moves("submgr")
    BY <1>4 DEF SubMgr, SubYield, SubYieldDone, SubIsConnected, Goto, Moves
  <2>2. Handles("submgr")
    BY <1>4 DEF SubMgr, SubYield, SubYieldDone, SubIsConnected, Leave, Handles
  <2> QED  BY <1>1, <1>4, <2>1, <2>2 DEF Threads
<1> QED  BY <1>2, <1>3, <1>4

\* A thread that deletes holds the mutex.
LEMMA DeleterHolds ==
  ASSUME TypeOK, Control, NEW t \in Threads, pc[t] \in Deleting
  PROVE  mqtt_mutex = t
BY DEF Control, ThreadControl, Deleting, Connecting, Retrying, TypeOK

\* The connection sequence and the main loops do not reset the board, and no reconnection
\* goes straight into Publish.
LEMMA ConnectNotReset ==
  ASSUME NEW t \in Threads, Connect(t)
  PROVE  ~RetryReset(t)
BY DEF RetryReset, Connect, NewNetwork, ConnectNetworkOk, ConnectNetworkFails, NewClient,
       ConnectClientOk, ConnectClientFails, Subscribe, SubscribeOk, SubscribeRefused,
       SubscribeFails

\* Neither loop is the reset that ends too many retries.
LEMMA CommsNotReset ==
  /\ Comms => ~RetryReset("comms")
  /\ SubMgr => ~RetryReset("submgr")
BY DEF RetryReset, Comms, SubMgr, SetFlag, CommsPublish, CommsPublishOk, CommsPublishFails,
       CommsIdle, CommsCheck, SubYield, SubYieldDone, SubIsConnected

\* Connecting is over before the first publish.
LEMMA ConnectNotPublish ==
  ASSUME TypeOK, NEW t \in Threads, Connect(t) \/ Reconnect(t), ~RetryReset(t)
  PROVE  pc'[t] # "publish"
<1>1. CASE NewNetwork(t) \/ NewClient(t) \/ Subscribe(t)
  BY <1>1 DEF NewNetwork, NewClient, Subscribe, Goto, TypeOK
<1>2. CASE ConnectNetworkOk(t) \/ ConnectNetworkFails(t)
  BY <1>2 DEF ConnectNetworkOk, ConnectNetworkFails, AfterNetwork, Goto, TypeOK
<1>3. CASE ConnectClientOk(t) \/ ConnectClientFails(t)
  BY <1>3 DEF ConnectClientOk, ConnectClientFails, Goto, TypeOK
<1>4. CASE SubscribeOk(t) \/ SubscribeRefused(t) \/ SubscribeFails(t)
  <2>1. AfterSubscribe(t) /\ mode[t] \in {"boot", "locked", "retry"}
    BY <1>4 DEF SubscribeOk, SubscribeRefused, SubscribeFails, TypeOK
  <2> QED  BY <2>1 DEF AfterSubscribe, TypeOK, Threads
<1>5. CASE LockReconnect(t) \/ DeleteNetwork(t) \/ NullNetwork(t)
  BY <1>5 DEF LockReconnect, DeleteNetwork, NullNetwork, Goto, TypeOK
<1>6. CASE DisconnectClient(t) \/ DeleteClient(t) \/ NullClient(t)
  BY <1>6 DEF DisconnectClient, DeleteClient, NullClient, Goto, TypeOK
<1>7. CASE UnlockReconnect(t) \/ Counts(t)
  BY <1>7 DEF UnlockReconnect, Counts, RetryCount, RetryStore, RetryGoesOn, Return, Caller,
       Goto, TypeOK
<1> QED  BY <1>1, <1>2, <1>3, <1>4, <1>5, <1>6, <1>7 DEF Counts, Connect, Reconnect

\* The deleting thread holds the mutex, so the pointer dangles for Reconnect only, and no
\* Publish starts then or is under way.
LEMMA LiveStep ==
  /\ TypeOK /\ Control /\ DanglesInDelete /\ PublishInLiveClient /\ [Next]_vars
  => DanglesInDelete' /\ PublishInLiveClient'
<1> SUFFICES ASSUME TypeOK, Control, DanglesInDelete, PublishInLiveClient, [Next]_vars
             PROVE  DanglesInDelete' /\ PublishInLiveClient'
  OBVIOUS
<1>a. "comms" \in Threads /\ "submgr" \in Threads
  BY DEF Threads
<1>b. TypeOK'
  BY TypeStep
<1>1. CASE UNCHANGED vars
  BY <1>1 DEF vars, shared, heap, local, DanglesInDelete, PublishInLiveClient, LiveCli
<1>2. ASSUME NEW t \in Threads, Fault(t) \/ RetryReset(t)
      PROVE  DanglesInDelete' /\ PublishInLiveClient'
  BY <1>2, RebootEstablishes DEF Fault, RetryReset
<1>3. ASSUME NEW t \in Threads, DeleteClient(t)
      PROVE  DanglesInDelete' /\ PublishInLiveClient'
  <2>1. pc' = [pc EXCEPT ![t] = "null_cli"] /\ this' = this /\ pc[t] = "del_cli"
    BY <1>3 DEF DeleteClient, Goto
  <2>2. pc'[t] = "null_cli"
    BY <2>1 DEF TypeOK
  <2>3. pc'["comms"] # "publish"
    <3>1. mqtt_mutex = t
      BY <2>1, DeleterHolds DEF Deleting
    <3>2. pc["comms"] = "publish" => t = "comms"
      BY <1>a, <3>1 DEF Control, ThreadControl
    <3> QED  BY <1>a, <2>1, <3>2 DEF TypeOK
  <2> QED  BY <2>2, <2>3 DEF DanglesInDelete, PublishInLiveClient
<1>4. ASSUME NEW t \in Threads,
             \/ Connect(t) \/ Comms \/ SubMgr
             \/ Reconnect(t) /\ ~DeleteClient(t) /\ ~RetryReset(t)
      PROVE  DanglesInDelete' /\ PublishInLiveClient'
  <2>1. \A c \in CliIds : /\ clis[c].live
                          /\ c = mqtt_client_' \/ \E s \in Threads : this'[s] = c
                          => clis'[c].live
    BY <1>4, ClientsSurvive
  <2>2. DanglesInDelete'
    <3>1. CASE NewClient(t)
      BY <3>1, NewClientFacts DEF Client, DanglesInDelete
    <3>2. CASE NullClient(t)
      BY <3>2 DEF NullClient, DanglesInDelete
    <3>3. CASE ~NewClient(t) /\ ~NullClient(t)
      <4>1. mqtt_client_' = mqtt_client_
        BY <1>4, <3>3, ClientPointer DEF Connect, NewNetwork, ConnectNetworkOk,
           ConnectNetworkFails, ConnectClientOk, ConnectClientFails, Subscribe, SubscribeOk,
           SubscribeRefused, SubscribeFails, Leave, heap, Comms, SubMgr, SetFlag,
           CommsPublish, CommsPublishOk, CommsPublishFails, CommsIdle, CommsCheck, SubYield,
           SubYieldDone, SubIsConnected
      <4> SUFFICES ASSUME mqtt_client_' # Null, ~clis'[mqtt_client_'].live
                   PROVE  \E s \in Threads : pc'[s] = "null_cli"
        BY DEF DanglesInDelete
      <4>2. mqtt_client_ \in CliIds /\ ~clis[mqtt_client_].live
        BY <2>1, <4>1 DEF TypeOK
      <4>3. PICK s \in Threads : pc[s] = "null_cli"
        BY <4>2 DEF DanglesInDelete, CliIds, Null
      <4>4. pc[s] \notin {"flag", "loop", "publish", "check", "idle", "yield", "is_conn", "off"}
        BY <4>3
      <4>5. Comms => s = "submgr"
        BY <4>4 DEF Comms, SetFlag, CommsPublish, CommsPublishOk, CommsPublishFails,
                    CommsIdle, CommsCheck, Threads
      <4>6. SubMgr => s = "comms"
        BY <4>4 DEF SubMgr, SubYield, SubYieldDone, SubIsConnected, Threads
      <4>7. Connect(t) \/ Reconnect(t) => s # t
        BY <3>3, <4>3 DEF Connect, Reconnect, NewNetwork, ConnectNetworkOk,
           ConnectNetworkFails, ConnectClientOk, ConnectClientFails, Subscribe, SubscribeOk,
           SubscribeRefused, SubscribeFails, LockReconnect, DeleteNetwork, NullNetwork,
           DisconnectClient, DeleteClient, UnlockReconnect, RetryReset, Counts, RetryCount,
           RetryStore, RetryGoesOn
      <4> QED  BY <1>4, <4>3, <4>4, <4>5, <4>6, <4>7, ConnectNotReset, OtherStays
    <3> QED  BY <3>1, <3>2, <3>3
  <2>3. PublishInLiveClient'
    <3> SUFFICES ASSUME pc'["comms"] = "publish", this'["comms"] # Null
                 PROVE  this'["comms"] # Null /\ clis'[this'["comms"]].live
      BY DEF PublishInLiveClient, LiveCli
    <3>1. this'["comms"] \in CliIds
      BY <1>a, <1>b DEF TypeOK
    <3>2. CASE CommsPublish
      <4>1. this' = [this EXCEPT !["comms"] = mqtt_client_] /\ mqtt_mutex = "none"
        BY <3>2 DEF CommsPublish
      <4>2. this'["comms"] = mqtt_client_
        BY <1>a, <4>1 DEF TypeOK
      <4>3. \A s \in Threads : pc[s] # "null_cli"
        BY <4>1, DeleterHolds DEF Deleting, Threads
      <4>4. clis[mqtt_client_].live
        BY <3>1, <4>2, <4>3 DEF DanglesInDelete, CliIds, Null
      <4> QED  BY <1>a, <2>1, <3>1, <4>2, <4>4 DEF CliIds, Null
    <3>3. CASE ~CommsPublish
      <4>1. pc["comms"] = "publish" /\ this'["comms"] = this["comms"]
        <5>1. CASE Comms
          BY <1>a, <3>3, <5>1 DEF Comms, SetFlag, CommsPublishOk, CommsPublishFails,
             PublishEnds, CommsIdle, CommsCheck, Goto, TypeOK
        <5>2. CASE SubMgr
          BY <1>a, <5>2, OtherStays
        <5>3. CASE (Connect(t) \/ Reconnect(t)) /\ ~RetryReset(t) /\ t = "comms"
          BY <5>3, ConnectNotPublish
        <5>4. CASE (Connect(t) \/ Reconnect(t)) /\ ~RetryReset(t) /\ t = "submgr"
          BY <1>a, <5>4, OtherStays
        <5> QED  BY <1>4, <5>1, <5>2, <5>3, <5>4, ConnectNotReset DEF Threads
      <4> QED  BY <1>a, <2>1, <3>1, <4>1 DEF PublishInLiveClient, LiveCli
    <3> QED  BY <3>2, <3>3
  <2> QED  BY <2>2, <2>3
<1> QED  BY <1>1, <1>2, <1>3, <1>4, <1>a DEF Next

-----------------------------------------------------------------------------
(* Subscriptions *)

\* The step that leaves the client at hand connected and unanswered did nothing to it: it was
\* not the answer to the subscription, and it did not close the session.
LEMMA ClientUntouched ==
  ASSUME TypeOK, Control, NEW t \in Threads, ~RetryReset(t),
         \/ Connect(t) /\ ~NewClient(t) /\ ~ConnectClientOk(t)
         \/ Reconnect(t) /\ ~NullClient(t) /\ ~DeleteClient(t)
         \/ Comms \/ SubMgr,
         NEW c \in CliIds, c = mqtt_client_, c = mqtt_client_',
         clis'[c].live, clis'[c].conn, clis'[c].sub = "no"
  PROVE  /\ clis'[c] = clis[c]
         /\ SubscribeOk(t) \/ SubscribeRefused(t) \/ SubscribeFails(t) => this[t] # c
<1>a. "comms" \in Threads /\ "submgr" \in Threads /\ clis \in Clis
  BY DEF Threads, TypeOK, Clis
<1>1. ASSUME NEW nn, NEW cc, Heap(nn, cc)
      PROVE  clis'[c] = cc[c]
  BY <1>1, HeapKeepsHeld
<1>2. ASSUME NEW d \in CliIds \cup {Null}, clis'[c] = Closed(d)[c]
      PROVE  clis'[c] = clis[c] /\ d # c
  BY <1>2, ClosedFacts
<1>3. CASE SubscribeOk(t) \/ SubscribeRefused(t)
  <2>1. PICK v \in {"granted", "refused"} :
          Heap(nets, [clis EXCEPT ![this[t]].sub = v])
    BY <1>3 DEF SubscribeOk, SubscribeRefused, Leave
  <2>2. clis'[c] = [clis EXCEPT ![this[t]].sub = v][c]
    BY <1>1, <2>1
  <2>3. this[t] # c
    BY <1>a, <2>2 DEF Clis
  <2>4. clis'[c] = clis[c]
    BY <1>a, <2>2, <2>3 DEF Clis
  <2>5. ~SubscribeFails(t) \/ this[t] # c
    BY <2>3
  <2> QED  BY <2>3, <2>4
<1>4. CASE SubscribeFails(t)
  <2>1. clis'[c] = Closed(this[t])[c]
    BY <1>1, <1>4 DEF SubscribeFails, Leave
  <2> QED  BY <1>2, <2>1 DEF TypeOK
<1>5. CASE ~(SubscribeOk(t) \/ SubscribeRefused(t) \/ SubscribeFails(t))
  <2>1. CASE NewNetwork(t) \/ NullNetwork(t) \/ ConnectClientFails(t)
    <3>1. \E nn : Heap(nn, clis)
      BY <2>1 DEF NewNetwork, NullNetwork, ConnectClientFails, Leave
    <3> QED  BY <1>1, <1>5, <3>1
  <2>2. CASE \/ ConnectNetworkOk(t) \/ ConnectNetworkFails(t) \/ Subscribe(t)
             \/ LockReconnect(t) \/ DeleteNetwork(t) \/ UnlockReconnect(t) \/ Counts(t)
    BY <1>5, <2>2 DEF ConnectNetworkOk, ConnectNetworkFails, Subscribe, LockReconnect,
                      DeleteNetwork, UnlockReconnect, Counts, RetryCount, RetryStore,
                      RetryGoesOn, heap
  <2>3. CASE DisconnectClient(t)
    BY <1>2, <1>5, <2>3 DEF DisconnectClient, TypeOK
  <2>4. CASE SetFlag \/ CommsPublish \/ CommsIdle \/ CommsCheck \/ SubYield \/ SubIsConnected
    BY <1>5, <2>4 DEF SetFlag, CommsPublish, CommsIdle, CommsCheck, SubYield, SubIsConnected,
                      heap
  <2>5. CASE CommsPublishOk \/ CommsPublishFails \/ SubYieldDone
    <3>1. PICK s \in Threads : Heap(nets, clis) \/ Heap(nets, Closed(this[s]))
      BY <2>5, <1>a DEF CommsPublishOk, CommsPublishFails, SubYieldDone, Leave
    <3>2. clis'[c] = clis[c] \/ clis'[c] = Closed(this[s])[c]
      BY <1>1, <3>1
    <3> QED  BY <1>2, <1>5, <3>2 DEF TypeOK
  <2> QED  BY <1>5, <2>1, <2>2, <2>3, <2>4, <2>5
           DEF Counts, Connect, Reconnect,
           Comms, SubMgr
<1> QED  BY <1>3, <1>4, <1>5

\* Whoever connects a client is on its way to Subscribe, and Subscribe through the client at
\* hand ends with an answer or with the session closed.
LEMMA OwedStep ==
  TypeOK /\ Control /\ SubscriptionOwed /\ [Next]_vars => SubscriptionOwed'
<1> SUFFICES ASSUME TypeOK, Control, SubscriptionOwed, [Next]_vars,
                    mqtt_client_' # Null, clis'[mqtt_client_'].live,
                    clis'[mqtt_client_'].conn, clis'[mqtt_client_'].sub = "no"
             PROVE  \E t \in Threads : OwesSubscription(t)'
  BY DEF SubscriptionOwed, SessionUp, LiveCli
<1>a. "comms" \in Threads /\ "submgr" \in Threads
  BY DEF Threads
<1>b. TypeOK'
  BY TypeStep
<1> DEFINE c == mqtt_client_'
<1>c. c \in CliIds /\ clis \in Clis
  BY <1>b DEF TypeOK, Clis
<1>1. CASE UNCHANGED vars
  BY <1>1 DEF vars, shared, heap, local, SubscriptionOwed, SessionUp, LiveCli,
              OwesSubscription
<1>2. ASSUME NEW t \in Threads, Fault(t) \/ RetryReset(t) \/ NullClient(t)
      PROVE  FALSE
  BY <1>2 DEF Fault, RetryReset, Reboot, NullClient
<1>3. ASSUME NEW t \in Threads, NewClient(t)
      PROVE  FALSE
  BY <1>3, NewClientFacts DEF Client
<1>4. ASSUME NEW t \in Threads, DeleteClient(t)
      PROVE  FALSE
  <2> DEFINE cc == IF LiveCli(mqtt_client_) THEN [clis EXCEPT ![mqtt_client_] = Freed]
                   ELSE clis
  <2>1. mqtt_client_ = c /\ Heap(nets, cc)
    BY <1>4 DEF DeleteClient
  <2>2. ~cc[c].live
    BY <1>c, <2>1 DEF Clis, Freed, LiveCli, CliIds, Null
  <2>3. clis'[c] = cc[c]
    BY <1>c, <2>1, HeapKeepsHeld
  <2> QED  BY <2>2, <2>3
<1>5. ASSUME NEW t \in Threads, ConnectClientOk(t)
      PROVE  \E s \in Threads : OwesSubscription(s)'
  BY <1>5 DEF ConnectClientOk, Goto, TypeOK, OwesSubscription
<1>6. ASSUME NEW t \in Threads, ~RetryReset(t),
             \/ Connect(t) /\ ~NewClient(t) /\ ~ConnectClientOk(t)
             \/ Reconnect(t) /\ ~NullClient(t) /\ ~DeleteClient(t)
             \/ t = "comms" /\ Comms
             \/ t = "submgr" /\ SubMgr
      PROVE  \E s \in Threads : OwesSubscription(s)'
  <2>1. mqtt_client_ = c
    BY <1>2, <1>3, <1>6, ClientPointer
  <2>2. /\ clis'[c] = clis[c]
        /\ SubscribeOk(t) \/ SubscribeRefused(t) \/ SubscribeFails(t) => this[t] # c
    BY <1>6, <1>c, <2>1, ClientUntouched
  <2>3. PICK s \in Threads : OwesSubscription(s)
    BY <2>1, <2>2 DEF SubscriptionOwed, SessionUp, LiveCli
  <2>4. CASE s # t
    <3>1. this'[s] = this[s] /\ pc'[s] = pc[s]
      BY <1>6, <2>3, <2>4, OtherStays, ConnectNotReset DEF OwesSubscription, Threads
    <3> QED  BY <2>1, <2>3, <3>1 DEF OwesSubscription
  <2>5. CASE s = t /\ pc[t] = "flag"
    <3>1. SetFlag
      BY <1>6, <2>5 DEF Connect, Reconnect, Comms, SubMgr, NewNetwork, ConnectNetworkOk,
         ConnectNetworkFails, ConnectClientFails, Subscribe, SubscribeOk, SubscribeRefused,
         SubscribeFails, LockReconnect, DeleteNetwork, NullNetwork, DisconnectClient,
         UnlockReconnect, RetryReset, Counts, RetryCount, RetryStore, RetryGoesOn,
         CommsPublish, CommsPublishOk,
         CommsPublishFails, CommsIdle, CommsCheck, SubYield, SubYieldDone, SubIsConnected
    <3> QED  BY <1>a, <3>1 DEF SetFlag, Goto, TypeOK, OwesSubscription
  <2>6. CASE s = t /\ pc[t] = "subscribe"
    <3>1. Subscribe(t)
      BY <1>6, <2>6 DEF Connect, Reconnect, Comms, SubMgr, NewNetwork, ConnectNetworkOk,
         ConnectNetworkFails, ConnectClientFails, SubscribeOk, SubscribeRefused,
         SubscribeFails, LockReconnect, DeleteNetwork, NullNetwork, DisconnectClient,
         UnlockReconnect, RetryReset, Counts, RetryCount, RetryStore, RetryGoesOn, SetFlag,
         CommsPublish, CommsPublishOk,
         CommsPublishFails, CommsIdle, CommsCheck, SubYield, SubYieldDone, SubIsConnected
    <3>2. pc'[t] = "suback" /\ this'[t] = c
      BY <2>1, <3>1 DEF Subscribe, Goto, TypeOK
    <3> QED  BY <3>2 DEF OwesSubscription
  <2>7. CASE s = t /\ pc[t] = "suback" /\ this[t] = mqtt_client_
    <3>1. SubscribeOk(t) \/ SubscribeRefused(t) \/ SubscribeFails(t)
      BY <1>6, <2>7 DEF Connect, Reconnect, Comms, SubMgr, NewNetwork, ConnectNetworkOk,
         ConnectNetworkFails, ConnectClientFails, Subscribe,
         LockReconnect, DeleteNetwork, NullNetwork, DisconnectClient,
         UnlockReconnect, RetryReset, Counts, RetryCount, RetryStore, RetryGoesOn, SetFlag,
         CommsPublish, CommsPublishOk,
         CommsPublishFails, CommsIdle, CommsCheck, SubYield, SubYieldDone, SubIsConnected
    <3> QED  BY <2>1, <2>2, <2>7, <3>1
  <2> QED  BY <2>3, <2>4, <2>5, <2>6, <2>7 DEF OwesSubscription
<1> QED  BY <1>1, <1>2, <1>3, <1>4, <1>5, <1>6, <1>a, ConnectNotReset,
             CommsNotReset DEF Next

-----------------------------------------------------------------------------
(* Theorems *)

\* A board that has just started.
LEMMA InitEstablishes == Init => IInv
<1> SUFFICES ASSUME Init PROVE IInv
  OBVIOUS
<1>1. [comms |-> "new_net", submgr |-> "off"] \in [Threads -> Labels]
  BY DEF Threads, Labels
<1>2. Freed \in [net : NetIds \cup {Null}, conn : BOOLEAN,
                sub : {"no", "granted", "refused"}, live : BOOLEAN]
  BY DEF Freed, Null
<1>3. 0 \in 0..CounterSize - 1
  BY MaxFailedAssumption
<1>4. TypeOK
  BY <1>1, <1>2, <1>3 DEF Init, TypeOK, Both, Null
<1>5. Control /\ DanglesInDelete /\ PublishInLiveClient /\ SubscriptionOwed
  BY DEF Init, Control, ThreadControl, DanglesInDelete, PublishInLiveClient,
         SubscriptionOwed, SessionUp, LiveCli, Both, Threads, Connecting, Deleting, Inside,
         Retrying, Null
<1> QED  BY <1>4, <1>5 DEF IInv

\* The invariant the theorems rest on holds of the two threads from boot to boot.
LEMMA Invariance == Spec => []IInv
<1>1. IInv /\ [Next]_vars => IInv'
  BY TypeStep, ControlStep, LiveStep, OwedStep DEF IInv
<1> QED  BY InitEstablishes, <1>1, PTL DEF Spec

\* DecadaManager and its two threads, for any limit of retries and any width of the counter:
\* the pointers always refer to one of the objects at hand or to none, although a thread makes
\* new ones while the other is still inside an old one, and there is always room for them.
THEOREM TypeCorrect == Spec => []TypeOK
BY Invariance, PTL DEF IInv

\* DecadaManager::Publish is never inside a client that ReconnectMqttService deletes.
THEOREM PublishSafe == Spec => []PublishInLiveClient
BY Invariance, PTL DEF IInv

\* Whatever the order in which the unlocked retries of the two threads replace each other's
\* client, an open session has been answered for the service topic once both are done.
THEOREM SubscribedWhenConnected == Spec => []ConnectedMeansSubscribed
<1>1. IInv => ConnectedMeansSubscribed
  BY DEF IInv, SubscriptionOwed, ConnectedMeansSubscribed, Quiet, OwesSubscription, Threads
<1> QED  BY Invariance, <1>1, PTL
=============================================================================
