---------------------------- MODULE CommandsProofs ----------------------------
(***************************************************************************)
(* Proofs about the command path, for any messages, any mailbox sizes and  *)
(* any width of int.  Two ideas carry them: as long as no block was freed  *)
(* twice, the blocks nobody owns are closed under the links of the free    *)
(* list; and a command moves from stage to stage without overtaking.       *)
(***************************************************************************)
EXTENDS Commands, TLAPS, FiniteSetTheorems

\* What the threads have in hand at each control point.
Hands ==
  /\ c_block => callback # <<>>
  /\ event = "fill" <=> e_block \in Blocks
  /\ sensor = "loop" <=> s_block = NoBlock
  /\ sensor \in {"respond", "put", "free_accepted", "write"} => Accepts(s_mail)
  /\ comms \in {"packet", "response", "reconnect"} => reply = NoReply
  /\ comms = "free" => reply # NoReply

-----------------------------------------------------------------------------
(* The pool of sensor_control_mail_box *)

Queued(b) == \E i \in 1..Len(ctl_box) : ctl_box[i] = b
Owned(b)  == Queued(b) \/ e_block = b \/ (s_block = b /\ SensorOwnsBlock)
FreeSet   == {b \in Blocks : ~Owned(b)}

\* No block is queued twice or has two owners, and used_blocks counts the owned ones.
Unshared ==
  /\ \A i, j \in 1..Len(ctl_box) : ctl_box[i] = ctl_box[j] => i = j
  /\ ~Queued(e_block)
  /\ SensorOwnsBlock => ~Queued(s_block) /\ s_block # e_block
  /\ ctl_used = Len(ctl_box) + Count(event = "fill") + Count(SensorOwnsBlock)

\* The links lead from free block to free block, and no two lead to the same one.
FreeList ==
  /\ heads \in FreeSet \cup {NULL}
  /\ \A b \in FreeSet : word[b] \in FreeSet \cup {NULL}
  /\ \A b \in FreeSet : word[b] # NULL => word[b] # heads
  /\ \A a, b \in FreeSet : word[a] = word[b] /\ word[a] # NULL => a = b

PoolSound == ~tainted => Unshared /\ FreeList

\* The second free of an accepted command makes used_blocks too small, never too large.
Counted == ctl_used <= InHand

-----------------------------------------------------------------------------
(* The order of commands *)

\* The commands at each stage of the path, from the broker's end of it back to the callback.
Stage(k) ==
  CASE k = 1 -> {answered}
    [] k = 2 -> IF reply # NoReply /\ comms # "free" THEN {reply} ELSE {}
    [] k = 3 -> {responses[i] : i \in 1..Len(responses)}
    [] k = 4 -> IF sensor \in {"respond", "put"} THEN {s_mail.n} ELSE {}
    [] k = 5 -> {mem[ctl_box[i]].n : i \in 1..Len(ctl_box)}
    [] k = 6 -> IF event \in {"calloc", "fill"} THEN {e_mail.n} ELSE {}
    [] k = 7 -> {arrived[i].n : i \in 1..Len(arrived)}
    [] k = 8 -> {callback[i].n : i \in 1..Len(callback)}

Stages == 1..8

\* No command has arrived yet that is not counted.
Bounded ==
  /\ answered <= arrivals /\ reply <= arrivals
  /\ \A i \in 1..Len(responses) : responses[i] <= arrivals
  /\ s_mail.n <= arrivals /\ e_mail.n <= arrivals
  /\ \A b \in Blocks : mem[b].n <= arrivals
  /\ \A i \in 1..Len(arrived) : arrived[i].n <= arrivals
  /\ \A i \in 1..Len(callback) : callback[i].n <= arrivals

StagesOrdered ==
  \A j, k \in Stages : j < k => \A a \in Stage(j), b \in Stage(k) : a < b

QueuesOrdered ==
  /\ \A i, j \in 1..Len(responses) : i < j => responses[i] < responses[j]
  /\ \A i, j \in 1..Len(ctl_box) : i < j => mem[ctl_box[i]].n < mem[ctl_box[j]].n
  /\ \A i, j \in 1..Len(arrived) : i < j => arrived[i].n < arrived[j].n
  /\ \A i, j \in 1..Len(callback) : i < j => callback[i].n < callback[j].n

InOrder == ~tainted => StagesOrdered /\ QueuesOrdered

-----------------------------------------------------------------------------
(* The interval in flash *)

AboutToWrite == AboutToStore => acked = s_mail.value

IInv == /\ TypeOK /\ MailAccounting /\ Hands
        /\ PoolSound /\ Counted
        /\ Bounded /\ InOrder
        /\ AboutToWrite /\ IntervalAsAnswered
-----------------------------------------------------------------------------
(* Sequences *)

\* Taking the head of a mailbox.
LEMMA TakeFacts ==
  ASSUME NEW S, NEW q \in Seq(S), q # <<>>
  PROVE  /\ Len(q) \in Nat \ {0} /\ Head(q) = q[1] /\ Head(q) \in S
         /\ Tail(q) \in Seq(S) /\ Len(Tail(q)) = Len(q) - 1
         /\ \A i \in 1..Len(Tail(q)) : i + 1 \in 1..Len(q) /\ Tail(q)[i] = q[i + 1]
OBVIOUS

\* Looking at a mail in a mailbox.
LEMMA ElementFacts ==
  ASSUME NEW S, NEW q \in Seq(S), NEW i \in 1..Len(q)
  PROVE  q[i] \in S
OBVIOUS

\* Putting a mail at the end of a mailbox.
LEMMA PutFacts ==
  ASSUME NEW S, NEW q \in Seq(S), NEW x \in S
  PROVE  /\ Append(q, x) \in Seq(S) /\ Len(Append(q, x)) = Len(q) + 1 /\ Len(q) \in Nat
         /\ Append(q, x)[Len(q) + 1] = x
         /\ \A i \in 1..Len(q) : Append(q, x)[i] = q[i]
OBVIOUS

-----------------------------------------------------------------------------
(* Types *)

\* The sizes of the pools are numbers.
LEMMA Sizes ==
  /\ ArrivedSize \in Nat /\ ControlSize \in Nat /\ ResponseSize \in Nat
  /\ ArrivedSize > 0 /\ ControlSize > 0 /\ ResponseSize > 0
BY SizeAssumption

\* The product of an interval stays an int, whatever its width.
LEMMA IntervalTyped == \A v \in Int : Interval(v) \in Int
BY DataAssumption DEF Interval, Wrap

\* A string is read as some int.
LEMMA StringTyped == \A text \in Texts : StringToInt(text) \subseteq Int
BY DataAssumption DEF Texts, StringToInt

\* A block that is freed leaves a well-formed pool.
LEMMA FreedTyped ==
  ASSUME TypeOK, NEW b \in 0..ControlSize, PoolBecomes(Freed(Pool, b))
  PROVE  heads' \in 0..Heap /\ word' \in [Blocks -> 0..Heap] /\ ctl_used' \in 0..ControlSize
<1>1. CASE ctl_used = 0
  BY <1>1 DEF TypeOK, PoolBecomes, Freed, Pool
<1>2. CASE ctl_used # 0
  <2>1. heads' = b /\ word' = [word EXCEPT ![b] = heads] /\ ctl_used' = ctl_used - 1
    BY <1>2 DEF PoolBecomes, Freed, Pool
  <2>2. word' \in [Blocks -> 0..Heap]
    BY <2>1 DEF TypeOK
  <2>3. heads' \in 0..Heap /\ ctl_used' \in 0..ControlSize
    BY <1>2, <2>1, Sizes DEF TypeOK, Heap
  <2> QED  BY <2>2, <2>3
<1> QED  BY <1>1, <1>2

\* A board that restarts has everything well formed, nothing in hand and one free list.
LEMMA RestartEstablishes ==
  ASSUME TypeOK, Bounded, AboutToWrite, IntervalAsAnswered, Restart
  PROVE  IInv'
<1>1. TypeOK'
  <2>1. NoMail \in Mail
    BY DEF NoMail, Mail
  <2>2. [b \in Blocks |-> IF b = ControlSize THEN NULL ELSE b + 1] \in [Blocks -> 0..Heap]
    BY Sizes DEF Blocks, NULL, Heap
  <2>3. 1 \in 0..Heap /\ 0 \in 0..ArrivedSize /\ 0 \in 0..ResponseSize /\ 0 \in 0..ControlSize
    BY Sizes DEF Heap
  <2>4. cut' \in BOOLEAN
    BY DEF Restart, TypeOK
  <2>5. /\ callback' \in Seq(Parameter) /\ arrived' \in Seq(Parameter)
        /\ ctl_box' \in Seq(Blocks) /\ responses' \in Seq(Nat)
    BY DEF Restart
  <2>6. mem' \in [Blocks -> Mail]
    BY <2>1 DEF Restart
  <2>7. heads' \in 0..Heap /\ word' \in [Blocks -> 0..Heap] /\ ctl_used' \in 0..ControlSize
    BY <2>2, <2>3 DEF Restart
  <2>8. /\ arrived_used' \in 0..ArrivedSize /\ resp_used' \in 0..ResponseSize
        /\ e_block' \in 0..ControlSize /\ s_block' \in 0..ControlSize
        /\ e_mail' \in Mail /\ s_mail' \in Mail
    BY <2>1, <2>3 DEF Restart, NoBlock, NULL
  <2>9. /\ sent' \in Nat /\ arrivals' \in Nat /\ c_block' \in BOOLEAN /\ answered' \in Nat
        /\ acked' \in Int /\ written' \in Int /\ tainted' \in BOOLEAN /\ failed' \in BOOLEAN
    BY DEF Restart, TypeOK
  <2>10. /\ current_cycle_interval' \in Int /\ stored' \in Int /\ reply' \in Nat \cup {NoReply}
         /\ resets' \in Nat /\ event' = "loop" /\ sensor' = "loop" /\ comms' = "packet"
    BY DEF Restart, TypeOK
  <2> QED  BY <2>4, <2>5, <2>6, <2>7, <2>8, <2>9, <2>10 DEF TypeOK
<1>2. MailAccounting'
  BY DEF Restart, MailAccounting, Count
<1>3. Hands'
  BY DEF Restart, Hands, NoBlock, NULL, Blocks
<1>4. PoolSound'
  <2>1. Unshared'
    BY DEF Restart, Unshared, Queued, SensorOwnsBlock, Count
  <2>2. FreeSet' = Blocks
    BY DEF Restart, FreeSet, Owned, Queued, SensorOwnsBlock, NoBlock, NULL, Blocks
  <2>3. FreeList'
    BY <2>2, Sizes DEF Restart, FreeList, Blocks, NULL
  <2> QED  BY <2>1, <2>3 DEF PoolSound
<1>5. Bounded'
  BY DEF Restart, Bounded, TypeOK, NoMail, NoReply
<1>9. Counted'
  BY DEF Restart, Counted, InHand, SensorOwnsBlock, Count
<1>6. StagesOrdered'
  <2>1. \A k \in Stages : k # 1 => Stage(k)' = {}
    BY DEF Restart, Stage, Stages
  <2> QED  BY <2>1 DEF StagesOrdered, Stages
<1>7. QueuesOrdered'
  BY DEF Restart, QueuesOrdered
<1>8. AboutToWrite' /\ IntervalAsAnswered'
  <2>1. AboutToWrite' /\ StoredWasAccepted'
    BY DEF Restart, AboutToWrite, AboutToStore, IntervalAsAnswered, StoredWasAccepted
  <2>2. cut \/ AboutToStore => cut'
    BY DEF Restart, AboutToStore
  <2>3. acked' = acked /\ stored' = stored /\ failed' = failed /\ current_cycle_interval' = stored
    BY DEF Restart
  <2>4. AnswerMeansStored' /\ UsedAsStored'
    BY <2>2, <2>3 DEF IntervalAsAnswered, AnswerMeansStored, UsedAsStored
  <2> QED  BY <2>1, <2>4 DEF IntervalAsAnswered
<1> QED  BY <1>1, <1>2, <1>3, <1>4, <1>5, <1>6, <1>7, <1>8, <1>9 DEF IInv, InOrder

\* The callback, for any messages.
LEMMA CallbackTyped ==
  ASSUME TypeOK, MailAccounting, Hands, Arrive \/ Callback
  PROVE  TypeOK'
<1> USE DEF TypeOK
<1>1. CASE Arrive
  <2>1. PICK m \in Messages :
          /\ sent' = sent + 1 /\ arrivals' = arrivals + Len(m)
          /\ callback' = [i \in 1..Len(m) |->
                            [n |-> arrivals + i, param |-> m[i].param, text |-> m[i].text]]
    BY <1>1 DEF Arrive
  <2>2. m \in Seq([param : Names, text : Texts])
    BY DataAssumption
  <2>3. \A i \in 1..Len(m) : m[i].param \in Names /\ m[i].text \in Texts
    <3>1. \A i \in 1..Len(m) : m[i] \in [param : Names, text : Texts]
      BY <2>2, ElementFacts
    <3> QED  BY <3>1
  <2>4. callback' \in Seq(Parameter)
    BY <2>1, <2>2, <2>3 DEF Parameter
  <2> QED  BY <1>1, <2>1, <2>2, <2>4
           DEF Arrive, arrVars, evVars, ctlVars, poolVars, senVars, respVars, comVars, history
<1>2. CASE CallbackCalloc
  BY <1>2, Sizes DEF CallbackCalloc, evVars, ctlVars, poolVars, senVars, respVars, comVars,
                     history
<1>3. CASE CallbackPut
  <2>1. callback # <<>>
    BY <1>3 DEF CallbackPut, Hands
  <2>2. callback' \in Seq(Parameter) /\ arrived' \in Seq(Parameter)
    BY <1>3, <2>1, TakeFacts, PutFacts DEF CallbackPut
  <2>3. /\ UNCHANGED <<sent, arrivals, arrived_used, evVars, ctlVars, poolVars, senVars, stored>>
        /\ UNCHANGED <<respVars, comVars, history>> /\ c_block' = FALSE
    BY <1>3 DEF CallbackPut, ctlVars
  <2>4. /\ sent' \in Nat /\ arrivals' \in Nat /\ arrived_used' \in 0..ArrivedSize
        /\ c_block' \in BOOLEAN
    BY <2>3
  <2> QED  BY <2>2, <2>3, <2>4 DEF evVars, ctlVars, poolVars, senVars, respVars, comVars, history
<1> QED  BY <1>1, <1>2, <1>3 DEF Callback

\* event_manager_thread, for any value an uninitialised int may hold.
LEMMA EventTyped ==
  ASSUME TypeOK, MailAccounting, Hands, Event
  PROVE  TypeOK'
<1> USE DEF TypeOK
<1>1. CASE EventGet
  <2>1. arrived \in Seq(Parameter) /\ arrived # <<>>
    BY <1>1 DEF EventGet
  <2>2. Head(arrived) \in Parameter /\ Tail(arrived) \in Seq(Parameter)
    BY <2>1, TakeFacts
  <2>3. PICK v \in StringToInt(Head(arrived).text) :
          e_mail' = [n |-> Head(arrived).n, param |-> Head(arrived).param, value |-> v]
    BY <1>1 DEF EventGet
  <2>4. v \in Int
    BY <2>2, <2>3, StringTyped DEF Parameter
  <2>5. e_mail' \in Mail
    BY <2>2, <2>3, <2>4 DEF Parameter, Mail
  <2> QED  BY <1>1, <2>2, <2>5 DEF EventGet, cbVars, ctlVars, poolVars, senVars, respVars,
                                   comVars, history
<1>2. CASE EventCalloc
  <2>1. /\ heads' \in 0..Heap /\ word' \in [Blocks -> 0..Heap] /\ ctl_used' \in 0..ControlSize
        /\ heads \in 0..ControlSize
    BY <1>2, Sizes DEF EventCalloc, PoolAlloc, Heap, NULL, Blocks
  <2> QED  BY <1>2, <2>1 DEF EventCalloc, cbVars, arrVars, senVars, respVars, comVars, history
<1>3. CASE EventPut
  <2>1. e_block \in Blocks
    BY <1>3 DEF EventPut, Hands
  <2>2. ctl_box' \in Seq(Blocks)
    BY <1>3, <2>1, PutFacts DEF EventPut
  <2>3. word' \in [Blocks -> 0..Heap] /\ mem' \in [Blocks -> Mail] /\ e_block' \in 0..ControlSize
    <3>1. Heap \in 0..Heap /\ 0 \in 0..ControlSize
      BY Sizes DEF Heap
    <3> QED  BY <1>3, <3>1 DEF EventPut, NoBlock, NULL
  <2> QED  BY <1>3, <2>2, <2>3 DEF EventPut, cbVars, arrVars, senVars, respVars, comVars, history
<1>4. CASE EventFree
  <2>1. arrived_used' \in 0..ArrivedSize
    BY <1>4, Sizes DEF EventFree, MailAccounting, Count
  <2>2. e_mail' \in Mail
    BY <1>4 DEF EventFree, NoMail, Mail
  <2> QED  BY <1>4, <2>1, <2>2 DEF EventFree, cbVars, ctlVars, poolVars, senVars, respVars,
                                   comVars, history
<1> QED  BY <1>1, <1>2, <1>3, <1>4 DEF Event

\* sensor_thread, whatever the product of an interval comes to.
LEMMA SensorTyped ==
  ASSUME TypeOK, MailAccounting, Hands, Sensor
  PROVE  TypeOK'
<1> USE DEF TypeOK
<1>1. CASE SensorGet
  <2>1. Head(ctl_box) \in Blocks /\ Tail(ctl_box) \in Seq(Blocks)
    BY <1>1, TakeFacts DEF SensorGet
  <2> QED  BY <1>1, <2>1, Sizes, SMTT(30) DEF SensorGet, Blocks, cbVars, arrVars, evVars, poolVars,
                                    respVars, comVars, history
<1>2. CASE SensorRespondCalloc
  BY <1>2, Sizes DEF SensorRespondCalloc, cbVars, arrVars, evVars, ctlVars, poolVars, comVars,
                     history
<1>3. CASE SensorRespondPut
  <2>1. s_mail.n \in Nat /\ s_mail.value \in Int
    BY DEF Mail
  <2>2. responses' \in Seq(Nat)
    BY <1>3, <2>1, PutFacts DEF SensorRespondPut
  <2> QED  BY <1>3, <2>1, <2>2 DEF SensorRespondPut, cbVars, arrVars, evVars, ctlVars, poolVars,
                             comVars
<1>4. CASE SensorFreeAccepted
  <2>1. heads' \in 0..Heap /\ word' \in [Blocks -> 0..Heap] /\ ctl_used' \in 0..ControlSize
    BY <1>4, FreedTyped DEF SensorFreeAccepted
  <2> QED  BY <1>4, <2>1 DEF SensorFreeAccepted, cbVars, arrVars, evVars, respVars, comVars,
                             history
<1>5. CASE SensorWrite
  <2>1. Interval(s_mail.value) \in Int /\ s_mail.value \in Int
    BY IntervalTyped DEF Mail
  <2>2. stored' \in Int /\ written' \in Int
    BY <1>5, <2>1 DEF SensorWrite
  <2>3. failed' \in BOOLEAN
    BY <1>5 DEF SensorWrite
  <2> QED  BY <1>5, <2>1, <2>2, <2>3 DEF SensorWrite, cbVars, arrVars, evVars, ctlVars, poolVars,
                             respVars, comVars
<1>6. CASE SensorFree
  <2>1. heads' \in 0..Heap /\ word' \in [Blocks -> 0..Heap] /\ ctl_used' \in 0..ControlSize
    BY <1>6, FreedTyped DEF SensorFree
  <2>2. s_mail' \in Mail /\ s_block' \in 0..ControlSize /\ tainted' \in BOOLEAN
    BY <1>6, Sizes DEF SensorFree, NoMail, Mail, NoBlock, NULL
  <2> QED  BY <1>6, <2>1, <2>2 DEF SensorFree, cbVars, arrVars, evVars, respVars, comVars
<1> QED  BY <1>1, <1>2, <1>3, <1>4, <1>5, <1>6 DEF Sensor

\* What communications_controller_thread leaves alone.
LEMMA CommsFrame ==
  ASSUME Comms \/ CommsWait
  PROVE  UNCHANGED <<cbVars, arrVars, evVars, ctlVars, senVars, stored, history>>
BY DEF Comms, CommsPacket, CommsGet, CommsGetNothing, CommsPublish, CommsFree, CommsWait,
       CommsLockMqtt, CommsLockStdio, CommsReconnect

\* The steps of communications_controller_thread that touch neither a response nor its mailbox.
LEMMA CommsMoves ==
  ASSUME CommsPacket \/ CommsGetNothing \/ CommsWait
  PROVE  /\ UNCHANGED <<respVars, reply, answered>>
         /\ comms # "free" /\ comms' # "free"
         /\ comms' \in {"packet", "response", "lock_mqtt", "lock_stdio", "publish", "reconnect"}
         /\ comms' \in {"packet", "response", "reconnect"}
              => comms \in {"packet", "response", "reconnect"}
BY DEF CommsPacket, CommsGetNothing, CommsWait, CommsLockMqtt, CommsLockStdio, CommsReconnect

\* The publishing half of communications_controller_thread.
LEMMA CommsTyped ==
  ASSUME TypeOK, MailAccounting, Hands, Comms \/ CommsWait
  PROVE  TypeOK'
<1>a. UNCHANGED <<cbVars, arrVars, evVars, ctlVars, senVars, stored, history>>
  BY CommsFrame
<1>b. ASSUME responses' \in Seq(Nat), resp_used' \in 0..ResponseSize,
             reply' \in Nat \cup {NoReply}, answered' \in Nat,
             comms' \in {"packet", "response", "lock_mqtt", "lock_stdio", "publish", "free",
                        "reconnect"}
      PROVE  TypeOK'
  BY <1>a, <1>b DEF TypeOK, cbVars, arrVars, evVars, ctlVars, poolVars, senVars, history
<1> USE DEF TypeOK
<1>1. CASE CommsGet
  <2>1. reply' \in Nat /\ responses' \in Seq(Nat)
    BY <1>1, TakeFacts DEF CommsGet
  <2> QED  BY <1>1, <1>b, <2>1 DEF CommsGet
<1>2. CASE CommsPublish
  BY <1>2, <1>b DEF CommsPublish, respVars
<1>3. CASE CommsFree
  <2>1. resp_used' \in 0..ResponseSize
    BY <1>3, Sizes DEF CommsFree, Hands, MailAccounting, Count
  <2> QED  BY <1>3, <1>b, <2>1 DEF CommsFree
<1>4. CASE CommsPacket \/ CommsGetNothing \/ CommsWait
  BY <1>4, <1>b, CommsMoves DEF respVars
<1> QED  BY <1>1, <1>2, <1>3, <1>4 DEF Comms

-----------------------------------------------------------------------------
(* Accounting *)

\* The callback and event_manager_thread leak no block of mqtt_arrived_mail_box, sensor_thread
\* and communications_controller_thread none of service_response_mail_box.
LEMMA MailAccountingStep ==
  ASSUME TypeOK, MailAccounting, Hands,
         Arrive \/ Callback \/ Event \/ Sensor \/ Comms \/ CommsWait
  PROVE  MailAccounting'
<1> DEFINE ArrivedHeld   == Count(c_block) + Count(event # "loop")
           ResponseHeld == Count(sensor = "put") + Count(reply # NoReply)
<1>a. /\ Len(arrived) \in Nat /\ Len(responses) \in Nat /\ arrived_used \in Int
      /\ resp_used \in Int /\ c_block \in BOOLEAN
  BY Sizes DEF TypeOK
<1>c. /\ Count(c_block) \in Int /\ Count(event # "loop") \in Int
      /\ Count(sensor = "put") \in Int /\ Count(reply # NoReply) \in Int
  BY DEF Count
<1>f. /\ Count(c_block)' \in Int /\ Count(event # "loop")' \in Int
      /\ Count(sensor = "put")' \in Int /\ Count(reply # NoReply)' \in Int
  BY DEF Count
<1>d. ArrivedHeld \in Int /\ ResponseHeld \in Int
  BY <1>c
<1>b. /\ arrived_used = Len(arrived) + ArrivedHeld
      /\ resp_used = Len(responses) + ResponseHeld
  BY <1>a, <1>c DEF MailAccounting
<1>e. ASSUME arrived_used' = Len(arrived') + ArrivedHeld',
             resp_used' = Len(responses') + ResponseHeld',
             Len(arrived') \in Int, Len(responses') \in Int
      PROVE  MailAccounting'
  BY <1>e, <1>f DEF MailAccounting
<1> HIDE DEF ArrivedHeld, ResponseHeld
<1>1. CASE Arrive \/ EventCalloc \/ EventPut \/ SensorGet \/ SensorFreeAccepted \/ SensorWrite
           \/ SensorFree
  <2>1. /\ UNCHANGED <<c_block, reply, arrVars, respVars>>
        /\ (event = "loop") = (event' = "loop")
        /\ (sensor = "put") = (sensor' = "put")
    BY <1>1 DEF Arrive, EventCalloc, EventPut, SensorGet, SensorFreeAccepted, SensorWrite,
                SensorFree, cbVars, arrVars, evVars, respVars, senVars, comVars
  <2>2. ArrivedHeld' = ArrivedHeld /\ ResponseHeld' = ResponseHeld
    BY <2>1 DEF ArrivedHeld, ResponseHeld, Count
  <2> QED  BY <1>a, <1>b, <1>e, <2>1, <2>2 DEF arrVars, respVars
<1>2. CASE CallbackCalloc
  <2>1. ArrivedHeld' = ArrivedHeld + 1 /\ ResponseHeld' = ResponseHeld
    BY <1>2 DEF ArrivedHeld, ResponseHeld, CallbackCalloc, Count, evVars, senVars, comVars
  <2> QED  BY <1>2, <1>a, <1>b, <1>d, <1>e, <2>1 DEF CallbackCalloc, respVars
<1>3. CASE CallbackPut
  <2>1. callback # <<>>
    BY <1>3 DEF CallbackPut, Hands
  <2>2. Len(arrived') = Len(arrived) + 1
    BY <1>3, <2>1, TakeFacts, PutFacts DEF CallbackPut, TypeOK
  <2>3. ArrivedHeld' = ArrivedHeld - 1 /\ ResponseHeld' = ResponseHeld
    BY <1>3 DEF ArrivedHeld, ResponseHeld, CallbackPut, Count, evVars, senVars, comVars
  <2> QED  BY <1>3, <1>a, <1>b, <1>d, <1>e, <2>2, <2>3 DEF CallbackPut, respVars
<1>4. CASE EventGet
  <2>1. Len(arrived') = Len(arrived) - 1
    BY <1>4, TakeFacts DEF EventGet, TypeOK
  <2>2. ArrivedHeld' = ArrivedHeld + 1 /\ ResponseHeld' = ResponseHeld
    BY <1>4 DEF ArrivedHeld, ResponseHeld, EventGet, Count, cbVars, senVars, comVars
  <2> QED  BY <1>4, <1>a, <1>b, <1>d, <1>e, <2>1, <2>2 DEF EventGet, respVars
<1>5. CASE EventFree
  <2>1. ArrivedHeld' = ArrivedHeld - 1 /\ ResponseHeld' = ResponseHeld
    BY <1>5 DEF ArrivedHeld, ResponseHeld, EventFree, Count, cbVars, senVars, comVars
  <2> QED  BY <1>5, <1>a, <1>b, <1>d, <1>e, <2>1 DEF EventFree, respVars
<1>6. CASE SensorRespondCalloc
  <2>1. ArrivedHeld' = ArrivedHeld /\ ResponseHeld' = ResponseHeld + 1
    BY <1>6 DEF ArrivedHeld, ResponseHeld, SensorRespondCalloc, Count, cbVars, evVars, comVars
  <2> QED  BY <1>6, <1>a, <1>b, <1>d, <1>e, <2>1 DEF SensorRespondCalloc, arrVars
<1>7. CASE SensorRespondPut
  <2>1. Len(responses') = Len(responses) + 1
    BY <1>7, PutFacts DEF SensorRespondPut, TypeOK, Mail
  <2>2. ArrivedHeld' = ArrivedHeld /\ ResponseHeld' = ResponseHeld - 1
    BY <1>7 DEF ArrivedHeld, ResponseHeld, SensorRespondPut, Count, cbVars, evVars, comVars
  <2> QED  BY <1>7, <1>a, <1>b, <1>d, <1>e, <2>1, <2>2 DEF SensorRespondPut, arrVars
<1>8. CASE CommsGet
  <2>1. Len(responses') = Len(responses) - 1
    BY <1>8, TakeFacts DEF CommsGet, TypeOK
  <2>2. ArrivedHeld' = ArrivedHeld /\ ResponseHeld' = ResponseHeld + 1
    <3>1. reply = NoReply /\ reply' # NoReply
      BY <1>8, TakeFacts DEF CommsGet, Hands, TypeOK, NoReply
    <3> QED  BY <1>8, <3>1 DEF ArrivedHeld, ResponseHeld, CommsGet, Count, cbVars, evVars, senVars
  <2> QED  BY <1>8, <1>a, <1>b, <1>d, <1>e, <2>1, <2>2 DEF CommsGet, arrVars
<1>9. CASE CommsFree
  <2>1. ArrivedHeld' = ArrivedHeld /\ ResponseHeld' = ResponseHeld - 1
    BY <1>9 DEF ArrivedHeld, ResponseHeld, CommsFree, Count, cbVars, evVars, senVars, Hands
  <2> QED  BY <1>9, <1>a, <1>b, <1>d, <1>e, <2>1 DEF CommsFree, arrVars
<1>10. CASE CommsPublish \/ CommsPacket \/ CommsGetNothing \/ CommsWait
  <2>1. UNCHANGED <<cbVars, evVars, senVars, arrVars, respVars, reply>>
    BY <1>10, CommsFrame, CommsMoves DEF Comms, CommsPublish
  <2>2. ArrivedHeld' = ArrivedHeld /\ ResponseHeld' = ResponseHeld
    BY <2>1 DEF ArrivedHeld, ResponseHeld, Count, cbVars, evVars, senVars
  <2> QED  BY <1>a, <1>b, <1>e, <2>1, <2>2 DEF arrVars, respVars
<1> QED  BY <1>1, <1>2, <1>3, <1>4, <1>5, <1>6, <1>7, <1>8, <1>9, <1>10
         DEF Callback, Event, Sensor, Comms

\* Each thread has a block in hand exactly where the code does.
LEMMA HandsStep ==
  ASSUME TypeOK, Hands, Arrive \/ Callback \/ Event \/ Sensor \/ Comms \/ CommsWait
  PROVE  Hands'
<1> USE DEF Hands, comVars
<1>1. CASE Arrive \/ Callback
  BY <1>1 DEF Arrive, Callback, CallbackCalloc, CallbackPut, arrVars, evVars, senVars
<1>2. CASE EventGet \/ EventFree
  BY <1>2 DEF EventGet, EventFree, cbVars, senVars
<1>3. CASE EventCalloc \/ EventPut
  BY <1>3 DEF EventCalloc, EventPut, PoolAlloc, NoBlock, NULL, Blocks, cbVars, senVars
<1>4. CASE SensorGet
  <2>1. Head(ctl_box) \in Blocks
    BY <1>4, TakeFacts DEF SensorGet, TypeOK
  <2> QED  BY <1>4, <2>1 DEF SensorGet, NoBlock, NULL, Blocks, cbVars, evVars
<1>5. CASE SensorRespondCalloc \/ SensorRespondPut \/ SensorFreeAccepted
  BY <1>5 DEF SensorRespondCalloc, SensorRespondPut, SensorFreeAccepted, cbVars, evVars
<1>6. CASE SensorWrite \/ SensorFree
  BY <1>6 DEF SensorWrite, SensorFree, cbVars, evVars
<1>7. CASE Comms \/ CommsWait
  <2>1. UNCHANGED <<cbVars, evVars, senVars>>
    BY <1>7, CommsFrame
  <2>2. CASE CommsGet
    <3>1. reply' # NoReply
      BY <2>2, TakeFacts DEF CommsGet, TypeOK, NoReply
    <3> QED  BY <2>1, <2>2, <3>1 DEF CommsGet, cbVars, evVars, senVars
  <2>3. CASE CommsPublish \/ CommsFree
    BY <2>1, <2>3 DEF CommsPublish, CommsFree, cbVars, evVars, senVars
  <2>4. CASE CommsPacket \/ CommsGetNothing \/ CommsWait
    BY <2>1, <2>4, CommsMoves DEF cbVars, evVars, senVars
  <2> QED  BY <1>7, <2>2, <2>3, <2>4 DEF Comms
<1> QED  BY <1>1, <1>2, <1>3, <1>4, <1>5, <1>6, <1>7 DEF Event, Sensor

-----------------------------------------------------------------------------
(* The pool *)

\* Freeing a block puts it before the head of the list.
LEMMA FreePush ==
  ASSUME TypeOK, FreeList, NEW b \in Blocks, b \notin FreeSet,
         heads' = b, word' = [word EXCEPT ![b] = heads], FreeSet' = FreeSet \cup {b}
  PROVE  FreeList'
<1>1. NULL \notin Blocks /\ FreeSet \subseteq Blocks
  BY DEF NULL, Blocks, FreeSet
<1>2. word'[b] = heads /\ \A x \in FreeSet : word'[x] = word[x]
  BY <1>1 DEF TypeOK
<1>3. \A x \in FreeSet' : word'[x] \in FreeSet \cup {NULL}
  BY <1>2 DEF FreeList
<1>4. \A x \in FreeSet' : word'[x] # NULL => word'[x] # heads'
  BY <1>1, <1>3
<1>5. \A x, y \in FreeSet' : word'[x] = word'[y] /\ word'[x] # NULL => x = y
  <2>1. \A x \in FreeSet : word'[x] # NULL => word'[x] # word'[b]
    BY <1>2 DEF FreeList
  <2>2. \A x, y \in FreeSet : word'[x] = word'[y] /\ word'[x] # NULL => x = y
    BY <1>2 DEF FreeList
  <2> QED  BY <2>1, <2>2
<1> QED  BY <1>3, <1>4, <1>5 DEF FreeList

\* try_calloc takes the head, which no other free block links to.
LEMMA FreePop ==
  ASSUME TypeOK, FreeList, heads \in Blocks,
         heads' = word[heads], word' = [word EXCEPT ![heads] = NULL],
         FreeSet' = FreeSet \ {heads}
  PROVE  FreeList'
<1>1. NULL \notin Blocks /\ heads \in FreeSet
  BY DEF NULL, Blocks, FreeList
<1>2. \A x \in FreeSet' : word'[x] = word[x] /\ x \in FreeSet /\ x # heads
  BY DEF TypeOK, FreeSet
<1>3. heads' \in FreeSet \cup {NULL} /\ (heads' # NULL => heads' # heads)
  BY <1>1 DEF FreeList
<1>4. heads' \in FreeSet' \cup {NULL}
  BY <1>3
<1>5. \A x \in FreeSet' : word'[x] \in FreeSet' \cup {NULL}
  BY <1>2 DEF FreeList
<1>6. \A x \in FreeSet' : word'[x] # NULL => word'[x] # heads'
  BY <1>1, <1>2 DEF FreeList
<1>7. \A x, y \in FreeSet' : word'[x] = word'[y] /\ word'[x] # NULL => x = y
  BY <1>2 DEF FreeList
<1> QED  BY <1>4, <1>5, <1>6, <1>7 DEF FreeList

\* What happens outside the pool, the queue and the hands of the two threads does not matter.
LEMMA PoolFrame ==
  ASSUME PoolSound, UNCHANGED <<poolVars, ctl_box, e_block, s_block, tainted>>,
         event = "fill" <=> event' = "fill", SensorOwnsBlock <=> SensorOwnsBlock'
  PROVE  PoolSound'
BY DEF PoolSound, Unshared, FreeList, FreeSet, Owned, Queued, Count, poolVars

\* The block a thread takes leaves the free list and gets its first owner.
LEMMA PoolCalloc ==
  ASSUME TypeOK, Hands, PoolSound, EventCalloc
  PROVE  PoolSound'
<1> SUFFICES ASSUME ~tainted
             PROVE  Unshared' /\ FreeList'
  BY DEF EventCalloc, PoolSound, history
<1>1. Unshared /\ FreeList
  BY DEF PoolSound
<1>2. /\ heads \in Blocks /\ e_block' = heads /\ event' = "fill" /\ event = "calloc"
      /\ heads' = word[heads] /\ word' = [word EXCEPT ![heads] = NULL]
      /\ ctl_used' = ctl_used + 1
      /\ UNCHANGED <<ctl_box, sensor, s_block, s_mail>>
  BY DEF EventCalloc, PoolAlloc, senVars
<1>3. e_block \notin Blocks /\ heads \in FreeSet
  BY <1>1, <1>2 DEF Hands, FreeList, NULL, Blocks
<1>4. /\ \A b : Queued(b)' <=> Queued(b)
      /\ SensorOwnsBlock' <=> SensorOwnsBlock
  BY <1>2 DEF Queued, SensorOwnsBlock
<1>5. FreeSet' = FreeSet \ {heads}
  BY <1>2, <1>3, <1>4 DEF FreeSet, Owned
<1>6. FreeList'
  BY <1>1, <1>2, <1>5, FreePop
<1>7. /\ ~Queued(heads) /\ (SensorOwnsBlock => s_block # heads)
  BY <1>3 DEF FreeSet, Owned
<1>8. ctl_used' = Len(ctl_box') + Count(event = "fill")' + Count(SensorOwnsBlock)'
  BY <1>1, <1>2 DEF Unshared, Count, SensorOwnsBlock, TypeOK
<1>9. Unshared'
  BY <1>1, <1>2, <1>4, <1>7, <1>8 DEF Unshared
<1> QED  BY <1>6, <1>9

\* The block goes from event_manager_thread to the queue.
LEMMA PoolPut ==
  ASSUME TypeOK, Hands, PoolSound, EventPut
  PROVE  PoolSound'
<1> SUFFICES ASSUME ~tainted
             PROVE  Unshared' /\ FreeList'
  BY DEF EventPut, PoolSound, history
<1>1. Unshared /\ FreeList
  BY DEF PoolSound
<1>2. /\ event = "fill" /\ event' = "free" /\ e_block \in Blocks /\ e_block' = NoBlock
      /\ word' = [word EXCEPT ![e_block] = Heap] /\ ctl_box' = Append(ctl_box, e_block)
      /\ UNCHANGED <<heads, ctl_used, sensor, s_block, s_mail>>
  BY DEF EventPut, senVars, Hands
<1>3. /\ Len(ctl_box') = Len(ctl_box) + 1 /\ Len(ctl_box) \in Nat
      /\ ctl_box'[Len(ctl_box) + 1] = e_block
      /\ \A i \in 1..Len(ctl_box) : ctl_box'[i] = ctl_box[i] /\ ctl_box[i] \in Blocks
  BY <1>2, PutFacts, ElementFacts DEF TypeOK
<1>4. \A b : Queued(b)' <=> Queued(b) \/ b = e_block
  BY <1>3 DEF Queued
<1>5. SensorOwnsBlock' <=> SensorOwnsBlock
  BY <1>2 DEF SensorOwnsBlock
<1>6. FreeSet' = FreeSet /\ e_block \notin FreeSet
  BY <1>2, <1>4, <1>5 DEF FreeSet, Owned, NoBlock, NULL, Blocks
<1>7. FreeList'
  <2>1. \A x \in FreeSet : word'[x] = word[x]
    BY <1>2, <1>6 DEF TypeOK, FreeSet
  <2> QED  BY <1>1, <1>2, <1>6, <2>1 DEF FreeList
<1>8. \A i, j \in 1..Len(ctl_box') : ctl_box'[i] = ctl_box'[j] => i = j
  BY <1>1, <1>3 DEF Unshared, Queued
<1>9. ~Queued(e_block)'
  BY <1>2, <1>3, <1>4 DEF Queued, NoBlock, NULL, Blocks
<1>10. SensorOwnsBlock' => ~Queued(s_block)' /\ s_block' # e_block'
  <2>1. SensorOwnsBlock => s_block # 0
    BY DEF Hands, SensorOwnsBlock, NoBlock, NULL
  <2> QED  BY <1>1, <1>2, <1>4, <1>5, <2>1 DEF Unshared, NoBlock, NULL, Queued
<1>11. ctl_used' = Len(ctl_box') + Count(event = "fill")' + Count(SensorOwnsBlock)'
  BY <1>1, <1>2, <1>3 DEF Unshared, Count, SensorOwnsBlock, TypeOK
<1> QED  BY <1>7, <1>8, <1>9, <1>10, <1>11 DEF Unshared

\* The block goes from the queue to sensor_thread.
LEMMA PoolGet ==
  ASSUME TypeOK, Hands, PoolSound, SensorGet
  PROVE  PoolSound'
<1> SUFFICES ASSUME ~tainted
             PROVE  Unshared' /\ FreeList'
  BY DEF SensorGet, PoolSound, history
<1>1. Unshared /\ FreeList
  BY DEF PoolSound
<1> DEFINE b == Head(ctl_box)
<1>2. /\ sensor = "loop" /\ ctl_box # <<>> /\ s_block' = b /\ s_mail' = mem[b]
      /\ sensor' = IF Accepts(mem[b]) THEN "respond" ELSE "free"
      /\ ctl_box' = Tail(ctl_box)
      /\ UNCHANGED <<heads, word, ctl_used, event, e_block>>
  BY DEF SensorGet, evVars, poolVars
<1>3. /\ Len(ctl_box') = Len(ctl_box) - 1 /\ Len(ctl_box) \in Nat \ {0}
      /\ b = ctl_box[1] /\ b \in Blocks
      /\ \A i \in 1..Len(ctl_box') : i + 1 \in 1..Len(ctl_box) /\ ctl_box'[i] = ctl_box[i + 1]
  BY <1>2, TakeFacts DEF TypeOK
<1> HIDE DEF b
<1>4. \A x : Queued(x)' <=> Queued(x) /\ x # b
  <2>1. \A x : Queued(x)' => Queued(x) /\ x # b
    BY <1>1, <1>3 DEF Queued, Unshared
  <2>2. ASSUME NEW x, Queued(x), x # b
        PROVE  Queued(x)'
    <3>1. PICK i \in 1..Len(ctl_box) : ctl_box[i] = x
      BY <2>2 DEF Queued
    <3>2. i - 1 \in 1..Len(ctl_box')
      BY <1>3, <2>2, <3>1
    <3>3. (i - 1) + 1 = i
      BY <1>3
    <3>4. ctl_box'[i - 1] = x
      BY <1>3, <3>1, <3>2, <3>3
    <3> QED  BY <3>2, <3>4 DEF Queued
  <2> QED  BY <2>1, <2>2
<1>5. SensorOwnsBlock' /\ ~SensorOwnsBlock
  BY <1>2 DEF SensorOwnsBlock
<1>6. \A x : Owned(x)' <=> Owned(x)
  <2>1. Queued(b)
    BY <1>3 DEF Queued
  <2>2. \A x : Owned(x)' <=> Queued(x)' \/ e_block = x \/ b = x
    BY <1>2, <1>5 DEF Owned
  <2>3. \A x : Owned(x) <=> Queued(x) \/ e_block = x
    BY <1>5 DEF Owned
  <2> QED  BY <1>4, <2>1, <2>2, <2>3
<1>7. FreeList'
  <2>1. FreeSet' = FreeSet
    BY <1>6 DEF FreeSet
  <2> QED  BY <1>1, <1>2, <2>1 DEF FreeList
<1>8. \A i, j \in 1..Len(ctl_box') : ctl_box'[i] = ctl_box'[j] => i = j
  BY <1>1, <1>3 DEF Unshared
<1>9. ~Queued(e_block)'
  BY <1>1, <1>2, <1>4 DEF Unshared
<1>10. ~Queued(s_block)' /\ s_block' # e_block'
  BY <1>1, <1>2, <1>3, <1>4 DEF Unshared, Queued
<1>11. ctl_used' = Len(ctl_box') + Count(event = "fill")' + Count(SensorOwnsBlock)'
  <2>1. Count(SensorOwnsBlock) = 0 /\ Count(SensorOwnsBlock)' = 1
    BY <1>5 DEF Count
  <2>2. Count(event = "fill")' = Count(event = "fill") /\ Count(event = "fill") \in Int
    BY <1>2 DEF Count
  <2>3. ctl_used = Len(ctl_box) + Count(event = "fill") + 0
    BY <1>1, <2>1 DEF Unshared
  <2> QED  BY <1>2, <1>3, <2>1, <2>2, <2>3
<1> QED  BY <1>7, <1>8, <1>9, <1>10, <1>11 DEF Unshared

\* A block its owner frees returns to the list: used_blocks cannot be zero then.
LEMMA PoolFree ==
  ASSUME TypeOK, Hands, Unshared, FreeList, SensorOwnsBlock, ~SensorOwnsBlock',
         PoolBecomes(Freed(Pool, s_block)), UNCHANGED <<ctl_box, event, e_block>>
  PROVE  Unshared' /\ FreeList'
<1>1. s_block \in Blocks /\ Owned(s_block) /\ s_block \notin FreeSet
  <2>1. s_block # 0 /\ s_block \in 0..ControlSize
    BY DEF Hands, SensorOwnsBlock, NoBlock, NULL, TypeOK
  <2>2. s_block \in Blocks
    BY <2>1, Sizes DEF Blocks
  <2> QED  BY <2>2 DEF Owned, FreeSet
<1>2. ctl_used = Len(ctl_box) + Count(event = "fill") + 1 /\ Len(ctl_box) \in Nat
  BY DEF Unshared, Count, TypeOK
<1>3. ctl_used # 0
  BY <1>2 DEF Count
<1>4. heads' = s_block /\ word' = [word EXCEPT ![s_block] = heads] /\ ctl_used' = ctl_used - 1
  BY <1>3 DEF PoolBecomes, Freed, Pool
<1>5. \A x : Queued(x)' <=> Queued(x)
  BY DEF Queued
<1>6. FreeSet' = FreeSet \cup {s_block}
  <2>1. ~Queued(s_block) /\ s_block # e_block
    BY DEF Unshared
  <2> QED  BY <1>1, <1>5, <2>1 DEF FreeSet, Owned
<1>7. FreeList'
  BY <1>1, <1>4, <1>6, FreePush
<1>8. ctl_used' = Len(ctl_box') + Count(event = "fill")' + Count(SensorOwnsBlock)'
  BY <1>2, <1>4 DEF Count
<1>9. Unshared'
  BY <1>5, <1>8 DEF Unshared
<1> QED  BY <1>7, <1>9

\* As long as the second free of an accepted command found the pool empty, every block is in
\* the free list or has one owner.
LEMMA PoolStep ==
  ASSUME TypeOK, Hands, PoolSound,
         Arrive \/ Callback \/ Event \/ Sensor \/ Comms \/ CommsWait
  PROVE  PoolSound'
<1>1. CASE Arrive \/ Callback \/ Comms \/ CommsWait
  <2>1. /\ UNCHANGED <<poolVars, ctl_box, e_block, s_block, tainted, event, sensor, s_mail>>
    BY <1>1, CommsFrame DEF Arrive, Callback, CallbackCalloc, CallbackPut, evVars, ctlVars,
                            senVars, history
  <2> QED  BY <2>1, PoolFrame DEF SensorOwnsBlock
<1>2. CASE EventGet \/ EventFree
  <2>1. /\ UNCHANGED <<poolVars, ctl_box, e_block, s_block, tainted, sensor, s_mail>>
        /\ event # "fill" /\ event' # "fill"
    BY <1>2 DEF EventGet, EventFree, ctlVars, senVars, history
  <2> QED  BY <2>1, PoolFrame DEF SensorOwnsBlock
<1>3. CASE SensorRespondCalloc \/ SensorRespondPut \/ SensorWrite
  <2>1. /\ UNCHANGED <<poolVars, ctl_box, e_block, s_block, tainted, event, s_mail>>
    BY <1>3 DEF SensorRespondCalloc, SensorRespondPut, SensorWrite, evVars, ctlVars, history
  <2>2. SensorOwnsBlock <=> SensorOwnsBlock'
    BY <1>3, <2>1 DEF SensorRespondCalloc, SensorRespondPut, SensorWrite, SensorOwnsBlock, Hands
  <2> QED  BY <2>1, <2>2, PoolFrame
<1>4. CASE SensorFreeAccepted
  <2>1. /\ SensorOwnsBlock /\ ~SensorOwnsBlock' /\ PoolBecomes(Freed(Pool, s_block))
        /\ UNCHANGED <<ctl_box, event, e_block, tainted>>
    BY <1>4 DEF SensorFreeAccepted, SensorOwnsBlock, evVars, history
  <2> QED  BY <2>1, PoolFree DEF PoolSound
<1>5. CASE SensorFree
  <2>1. /\ sensor = "free" /\ sensor' = "loop" /\ PoolBecomes(Freed(Pool, s_block))
        /\ tainted' = (tainted \/ (Accepts(s_mail) /\ ctl_used > 0))
        /\ UNCHANGED <<ctl_box, event, e_block>>
    BY <1>5 DEF SensorFree, evVars
  <2>2. ~SensorOwnsBlock'
    BY <2>1 DEF SensorOwnsBlock
  <2>3. CASE ~Accepts(s_mail)
    <3>1. SensorOwnsBlock
      BY <2>1, <2>3 DEF SensorOwnsBlock
    <3>2. ~tainted' => ~tainted
      BY <2>1
    <3> QED  BY <2>1, <2>2, <3>1, <3>2, PoolFree DEF PoolSound
  <2>4. CASE Accepts(s_mail)
    <3> SUFFICES ASSUME ~tainted'
                 PROVE  Unshared' /\ FreeList'
      BY DEF PoolSound
    <3>1. ~tainted /\ ctl_used = 0
      <4>1. ~tainted /\ ~(ctl_used > 0)
        BY <2>1, <2>4
      <4> QED  BY <4>1, Sizes DEF TypeOK
    <3>2. UNCHANGED <<heads, word, ctl_used>>
      BY <2>1, <3>1 DEF PoolBecomes, Freed, Pool
    <3>3. ~SensorOwnsBlock
      BY <2>1, <2>4 DEF SensorOwnsBlock
    <3> QED  BY <2>1, <2>2, <3>1, <3>2, <3>3
             DEF PoolSound, Unshared, FreeList, FreeSet, Owned, Queued, Count
  <2> QED  BY <2>3, <2>4
<1> QED  BY <1>1, <1>2, <1>3, <1>4, <1>5, PoolCalloc, PoolPut, PoolGet DEF Event, Sensor

\* used_blocks never counts a block that nobody has: a free lowers it, and only a thread that
\* takes a block raises it.
LEMMA CountedStep ==
  ASSUME TypeOK, Hands, Counted,
         Arrive \/ Callback \/ Event \/ Sensor \/ Comms \/ CommsWait
  PROVE  Counted'
<1> DEFINE E == Count(event = "fill")
           S == Count(SensorOwnsBlock)
<1>a. /\ ctl_used \in Int /\ ctl_used >= 0 /\ Len(ctl_box) \in Nat
      /\ ctl_used <= Len(ctl_box) + E + S
  BY Sizes DEF TypeOK, Counted, InHand
<1>b. E \in {0, 1} /\ S \in {0, 1} /\ E' \in {0, 1} /\ S' \in {0, 1}
  BY DEF Count
<1>c. ASSUME ctl_used' <= Len(ctl_box') + E' + S'
      PROVE  Counted'
  BY <1>c DEF Counted, InHand
<1>d. /\ (event = "fill" <=> event' = "fill") => E' = E
      /\ (SensorOwnsBlock <=> SensorOwnsBlock') => S' = S
  BY DEF Count
<1>e. ASSUME PoolBecomes(Freed(Pool, s_block))
      PROVE  ctl_used' = IF ctl_used = 0 THEN 0 ELSE ctl_used - 1
  BY <1>e DEF PoolBecomes, Freed, Pool
<1>f. /\ event = "fill" => E = 1
      /\ event' = "fill" => E' = 1
      /\ event # "fill" => E = 0
      /\ event' # "fill" => E' = 0
      /\ SensorOwnsBlock => S = 1
      /\ SensorOwnsBlock' => S' = 1
      /\ ~SensorOwnsBlock => S = 0
      /\ ~SensorOwnsBlock' => S' = 0
  BY DEF Count
<1> HIDE DEF E, S
<1>1. CASE Arrive \/ Callback \/ Comms \/ CommsWait \/ EventGet \/ EventFree
  <2>1. UNCHANGED <<ctl_used, ctl_box, sensor, s_mail>> /\ (event = "fill" <=> event' = "fill")
    BY <1>1, CommsFrame DEF Arrive, Callback, CallbackCalloc, CallbackPut, EventGet, EventFree,
                            evVars, ctlVars, poolVars, senVars
  <2>2. SensorOwnsBlock <=> SensorOwnsBlock'
    BY <2>1 DEF SensorOwnsBlock
  <2> QED  BY <1>a, <1>c, <1>d, <2>1, <2>2
<1>2. CASE EventCalloc
  <2>1. /\ ctl_used' = ctl_used + 1 /\ event = "calloc" /\ event' = "fill"
        /\ UNCHANGED <<ctl_box, sensor, s_mail>>
    BY <1>2 DEF EventCalloc, PoolAlloc, senVars
  <2>2. SensorOwnsBlock <=> SensorOwnsBlock'
    BY <2>1 DEF SensorOwnsBlock
  <2> QED  BY <1>a, <1>b, <1>c, <1>d, <1>f, <2>1, <2>2
<1>3. CASE EventPut
  <2>1. /\ event = "fill" /\ event' = "free" /\ e_block \in Blocks
        /\ ctl_box' = Append(ctl_box, e_block) /\ UNCHANGED <<ctl_used, sensor, s_mail>>
    BY <1>3 DEF EventPut, Hands, senVars
  <2>2. Len(ctl_box') = Len(ctl_box) + 1
    BY <2>1, PutFacts DEF TypeOK
  <2>3. SensorOwnsBlock <=> SensorOwnsBlock'
    BY <2>1 DEF SensorOwnsBlock
  <2> QED  BY <1>a, <1>b, <1>c, <1>d, <1>f, <2>1, <2>2, <2>3
<1>4. CASE SensorGet
  <2>1. Len(ctl_box') = Len(ctl_box) - 1 /\ ctl_used' = ctl_used /\ event' = event
    BY <1>4, TakeFacts DEF SensorGet, TypeOK, evVars, poolVars
  <2>2. ~SensorOwnsBlock /\ SensorOwnsBlock'
    BY <1>4 DEF SensorGet, SensorOwnsBlock
  <2> QED  BY <1>a, <1>b, <1>c, <1>d, <1>f, <2>1, <2>2
<1>5. CASE SensorRespondCalloc \/ SensorRespondPut \/ SensorWrite
  <2>1. UNCHANGED <<ctl_used, ctl_box, event, s_mail>>
    BY <1>5 DEF SensorRespondCalloc, SensorRespondPut, SensorWrite, evVars, ctlVars, poolVars
  <2>2. SensorOwnsBlock <=> SensorOwnsBlock'
    BY <1>5, <2>1 DEF SensorRespondCalloc, SensorRespondPut, SensorWrite, SensorOwnsBlock, Hands
  <2> QED  BY <1>a, <1>c, <1>d, <2>1, <2>2
<1>6. CASE SensorFreeAccepted \/ SensorFree
  <2>1. UNCHANGED <<ctl_box, event>> /\ PoolBecomes(Freed(Pool, s_block)) /\ ~SensorOwnsBlock'
    BY <1>6 DEF SensorFreeAccepted, SensorFree, SensorOwnsBlock, evVars
  <2> QED  BY <1>a, <1>b, <1>c, <1>d, <1>e, <1>f, <2>1
<1> QED  BY <1>1, <1>2, <1>3, <1>4, <1>5, <1>6 DEF Event, Sensor

-----------------------------------------------------------------------------
(* The order of commands *)

\* The eight stages, before and after a step.
LEMMA StageIs ==
  /\ Stage(1) = {answered} /\ Stage(1)' = {answered'}
  /\ Stage(2) = IF reply # NoReply /\ comms # "free" THEN {reply} ELSE {}
  /\ Stage(2)' = IF reply' # NoReply /\ comms' # "free" THEN {reply'} ELSE {}
  /\ Stage(3) = {responses[i] : i \in 1..Len(responses)}
  /\ Stage(3)' = {responses'[i] : i \in 1..Len(responses')}
  /\ Stage(4) = IF sensor \in {"respond", "put"} THEN {s_mail.n} ELSE {}
  /\ Stage(4)' = IF sensor' \in {"respond", "put"} THEN {s_mail'.n} ELSE {}
  /\ Stage(5) = {mem[ctl_box[i]].n : i \in 1..Len(ctl_box)}
  /\ Stage(5)' = {mem'[ctl_box'[i]].n : i \in 1..Len(ctl_box')}
  /\ Stage(6) = IF event \in {"calloc", "fill"} THEN {e_mail.n} ELSE {}
  /\ Stage(6)' = IF event' \in {"calloc", "fill"} THEN {e_mail'.n} ELSE {}
  /\ Stage(7) = {arrived[i].n : i \in 1..Len(arrived)}
  /\ Stage(7)' = {arrived'[i].n : i \in 1..Len(arrived')}
  /\ Stage(8) = {callback[i].n : i \in 1..Len(callback)}
  /\ Stage(8)' = {callback'[i].n : i \in 1..Len(callback')}
BY DEF Stage

\* Stages are numbered 1 to 8.
LEMMA StageNumbers == Stages = {1, 2, 3, 4, 5, 6, 7, 8}
BY DEF Stages

\* A stage whose variables do not change stays as it is.
LEMMA StageFrame ==
  /\ answered' = answered => Stage(1)' \subseteq Stage(1)
  /\ UNCHANGED <<comms, reply>> => Stage(2)' \subseteq Stage(2)
  /\ responses' = responses => Stage(3)' \subseteq Stage(3)
  /\ UNCHANGED <<sensor, s_mail>> => Stage(4)' \subseteq Stage(4)
  /\ UNCHANGED <<mem, ctl_box>> => Stage(5)' \subseteq Stage(5)
  /\ UNCHANGED <<event, e_mail>> => Stage(6)' \subseteq Stage(6)
  /\ arrived' = arrived => Stage(7)' \subseteq Stage(7)
  /\ callback' = callback => Stage(8)' \subseteq Stage(8)
<1>1. answered' = answered => Stage(1)' \subseteq Stage(1)
  BY StageIs
<1>2. UNCHANGED <<comms, reply>> => Stage(2)' \subseteq Stage(2)
  BY StageIs
<1>3. responses' = responses => Stage(3)' \subseteq Stage(3)
  BY StageIs
<1>4. UNCHANGED <<sensor, s_mail>> => Stage(4)' \subseteq Stage(4)
  BY StageIs
<1>5. UNCHANGED <<mem, ctl_box>> => Stage(5)' \subseteq Stage(5)
  BY StageIs
<1>6. UNCHANGED <<event, e_mail>> => Stage(6)' \subseteq Stage(6)
  BY StageIs
<1>7. arrived' = arrived => Stage(7)' \subseteq Stage(7)
  BY StageIs
<1>8. callback' = callback => Stage(8)' \subseteq Stage(8)
  BY StageIs
<1> QED  BY <1>1, <1>2, <1>3, <1>4, <1>5, <1>6, <1>7, <1>8

\* The oldest command of a stage can go to the next one without overtaking.
LEMMA MovedInOrder ==
  ASSUME StagesOrdered, NEW i \in 2..8, NEW x \in Stage(i),
         \A k \in Stages \ {i - 1} : Stage(k)' \subseteq Stage(k),
         Stage(i - 1)' \subseteq Stage(i - 1) \cup {x},
         \A y \in Stage(i)' : x < y
  PROVE  StagesOrdered'
<1> SUFFICES ASSUME NEW j \in Stages, NEW k \in Stages, j < k,
                    NEW a \in Stage(j)', NEW b \in Stage(k)'
             PROVE  a < b
  BY DEF StagesOrdered
<1>a. i - 1 \in Stages /\ i \in Stages
  BY DEF Stages
<1>1. CASE j # i - 1 /\ k # i - 1
  BY <1>1 DEF StagesOrdered
<1>2. CASE j = i - 1 /\ k # i - 1
  <2>1. CASE a \in Stage(j)
    BY <1>2, <2>1 DEF StagesOrdered
  <2>2. CASE a = x /\ k = i
    BY <2>2
  <2>3. CASE a = x /\ k # i
    <3>1. i < k
      BY <1>2, <2>3 DEF Stages
    <3> QED  BY <1>a, <1>2, <2>3, <3>1 DEF StagesOrdered
  <2> QED  BY <1>2, <2>1, <2>2, <2>3
<1>3. CASE k = i - 1
  <2>1. j < i /\ j # i - 1
    BY <1>3 DEF Stages
  <2>2. a \in Stage(j)
    BY <2>1
  <2>3. b \in Stage(k) \/ b = x
    BY <1>3
  <2> QED  BY <1>a, <2>1, <2>2, <2>3 DEF StagesOrdered
<1> QED  BY <1>1, <1>2, <1>3

\* Commands that are dropped disturb no order.
LEMMA DroppedInOrder ==
  ASSUME StagesOrdered, \A k \in Stages : Stage(k)' \subseteq Stage(k)
  PROVE  StagesOrdered'
BY DEF StagesOrdered

\* Every command has a number.
LEMMA NumbersTyped ==
  ASSUME TypeOK
  PROVE  /\ answered \in Nat /\ s_mail.n \in Nat /\ e_mail.n \in Nat
         /\ reply \in Nat \cup {NoReply} /\ reply \in Int
         /\ \A b \in Blocks : mem[b].n \in Nat
         /\ \A i \in 1..Len(ctl_box) : ctl_box[i] \in Blocks
         /\ \A i \in 1..Len(responses) : responses[i] \in Nat
         /\ \A i \in 1..Len(arrived) : arrived[i].n \in Nat
         /\ \A i \in 1..Len(callback) : callback[i].n \in Nat
<1>1. /\ answered \in Nat /\ s_mail.n \in Nat /\ e_mail.n \in Nat
      /\ reply \in Nat \cup {NoReply} /\ reply \in Int
      /\ \A b \in Blocks : mem[b].n \in Nat
  BY DEF TypeOK, Mail, NoReply
<1>2. \A i \in 1..Len(ctl_box) : ctl_box[i] \in Blocks
  BY ElementFacts DEF TypeOK
<1>3. \A i \in 1..Len(responses) : responses[i] \in Nat
  BY ElementFacts DEF TypeOK
<1>4. \A p \in Parameter : p.n \in Nat
  BY DEF Parameter
<1>5. \A i \in 1..Len(arrived) : arrived[i] \in Parameter
  BY ElementFacts DEF TypeOK
<1>6. \A i \in 1..Len(callback) : callback[i] \in Parameter
  BY ElementFacts DEF TypeOK
<1> QED  BY <1>1, <1>2, <1>3, <1>4, <1>5, <1>6

\* Commands are numbered as they arrive.
LEMMA StageBounded ==
  ASSUME TypeOK, Bounded, NEW k \in Stages, NEW a \in Stage(k)
  PROVE  a \in Nat /\ a <= arrivals
<1>6. CASE k \in {1, 2, 4, 6}
  <2>2. a \in {answered, reply, s_mail.n, e_mail.n} /\ a # NoReply
    <3> USE NumbersTyped DEF NoReply
    <3>1. CASE k = 1
      BY <3>1, StageIs
    <3>2. CASE k = 2
      BY <3>2, StageIs
    <3>3. CASE k = 4
      BY <3>3, StageIs
    <3>4. CASE k = 6
      BY <3>4, StageIs
    <3> QED  BY <1>6, <3>1, <3>2, <3>3, <3>4
  <2> QED  BY <2>2, NumbersTyped DEF Bounded
<1>7. CASE k = 3
  BY <1>7, NumbersTyped, StageIs DEF Bounded
<1>8. CASE k = 5
  BY <1>8, NumbersTyped, StageIs DEF Bounded
<1>9. CASE k = 7
  BY <1>9, NumbersTyped, StageIs DEF Bounded
<1>10. CASE k = 8
  BY <1>10, NumbersTyped, StageIs DEF Bounded
<1> QED  BY <1>6, <1>7, <1>8, <1>9, <1>10, StageNumbers

\* A message is numbered after everything that arrived before it.
LEMMA ArriveInOrder ==
  ASSUME TypeOK, Bounded, InOrder, Arrive
  PROVE  Bounded' /\ InOrder'
<1>1. PICK m \in Messages :
        /\ arrivals' = arrivals + Len(m)
        /\ callback' = [i \in 1..Len(m) |->
                          [n |-> arrivals + i, param |-> m[i].param, text |-> m[i].text]]
  BY DEF Arrive
<1>2. m \in Seq([param : Names, text : Texts]) /\ Len(m) \in Nat /\ arrivals \in Nat
  <2>1. m \in Seq([param : Names, text : Texts])
    BY DataAssumption
  <2> QED  BY <2>1 DEF TypeOK
<1>3. Len(callback') = Len(m) /\ \A i \in 1..Len(m) : callback'[i].n = arrivals + i
  BY <1>1, <1>2
<1>4. UNCHANGED <<answered, comms, reply, responses, sensor, s_mail, mem, ctl_box, event, e_mail,
                  arrived, tainted>>
  BY DEF Arrive, arrVars, evVars, ctlVars, senVars, respVars, comVars, history
<1>5. Bounded'
  <2>1. arrivals <= arrivals' /\ arrivals' \in Nat
    BY <1>1, <1>2
  <2>2. \A i \in 1..Len(callback') : callback'[i].n <= arrivals'
    BY <1>1, <1>2, <1>3
  <2>3. \A n \in Int : n <= arrivals => n <= arrivals'
    BY <1>2, <2>1
  <2>4. /\ \A b \in Blocks : mem[b].n <= arrivals'
        /\ \A i \in 1..Len(responses) : responses[i] <= arrivals'
        /\ \A i \in 1..Len(arrived) : arrived[i].n <= arrivals'
    BY <2>3, NumbersTyped DEF Bounded
  <2>5. /\ answered <= arrivals' /\ reply <= arrivals'
        /\ s_mail.n <= arrivals' /\ e_mail.n <= arrivals'
    BY <2>3, NumbersTyped DEF Bounded
  <2> QED  BY <1>4, <2>2, <2>4, <2>5 DEF Bounded
<1>6. ASSUME ~tainted, StagesOrdered, QueuesOrdered
      PROVE  StagesOrdered'
  <2>1. \A k \in Stages : k # 8 => Stage(k)' \subseteq Stage(k)
    BY <1>4, StageFrame, StageNumbers
  <2>2. \A b \in Stage(8)' : b > arrivals /\ b \in Nat
    BY <1>2, <1>3, StageIs
  <2>3. \A k \in Stages : \A a \in Stage(k) : a \in Nat /\ a <= arrivals
    BY StageBounded
  <2> SUFFICES ASSUME NEW j \in Stages, NEW k \in Stages, j < k,
                      NEW a \in Stage(j)', NEW b \in Stage(k)'
               PROVE  a < b
    BY DEF StagesOrdered
  <2>4. j # 8 /\ a \in Stage(j)
    BY <2>1 DEF Stages
  <2>5. CASE k = 8
    <3>1. a \in Nat /\ a <= arrivals /\ b > arrivals /\ b \in Nat
      BY <2>2, <2>3, <2>4, <2>5
    <3> QED  BY <1>2, <3>1
  <2>6. CASE k # 8
    BY <1>6, <2>1, <2>4, <2>6 DEF StagesOrdered
  <2> QED  BY <2>5, <2>6
<1>7. ASSUME QueuesOrdered
      PROVE  QueuesOrdered'
  <2>1. \A i, j \in 1..Len(callback') : i < j => callback'[i].n < callback'[j].n
    BY <1>2, <1>3
  <2> QED  BY <1>4, <1>7, <2>1 DEF QueuesOrdered
<1> QED  BY <1>4, <1>5, <1>6, <1>7 DEF InOrder

\* The callback queues the parameters in the order in which they came.
LEMMA CallbackInOrder ==
  ASSUME TypeOK, Hands, Bounded, InOrder, Callback
  PROVE  Bounded' /\ InOrder'
<1>a. UNCHANGED <<arrivals, answered, comms, reply, responses, sensor, s_mail, mem, ctl_box,
                  event, e_mail, tainted>>
  BY DEF Callback, CallbackCalloc, CallbackPut, evVars, ctlVars, senVars, respVars, comVars,
         history
<1>1. CASE CallbackCalloc
  <2>1. UNCHANGED <<arrived, callback>>
    BY <1>1 DEF CallbackCalloc
  <2>2. Bounded'
    BY <1>a, <2>1 DEF Bounded
  <2>3. \A k \in Stages : Stage(k)' \subseteq Stage(k)
    BY <1>a, <2>1, StageFrame, StageNumbers
  <2>4. QueuesOrdered => QueuesOrdered'
    BY <1>a, <2>1 DEF QueuesOrdered
  <2> QED  BY <1>a, <2>2, <2>3, <2>4, DroppedInOrder DEF InOrder
<1>2. CASE CallbackPut
  <2> DEFINE x == Head(callback).n
  <2>1. /\ callback # <<>> /\ arrived' = Append(arrived, Head(callback))
        /\ callback' = Tail(callback)
    BY <1>2 DEF CallbackPut, Hands
  <2>2. /\ Len(callback) \in Nat \ {0} /\ Head(callback) = callback[1]
        /\ Head(callback) \in Parameter
        /\ Len(callback') = Len(callback) - 1
        /\ \A i \in 1..Len(callback') : i + 1 \in 1..Len(callback)
                                       /\ callback'[i] = callback[i + 1]
    BY <2>1, TakeFacts DEF TypeOK
  <2>3. /\ Len(arrived) \in Nat /\ Len(arrived') = Len(arrived) + 1
        /\ arrived'[Len(arrived) + 1].n = x
        /\ \A i \in 1..Len(arrived) : arrived'[i] = arrived[i]
    BY <2>1, <2>2, PutFacts DEF TypeOK
  <2>4. x \in Stage(8) /\ x <= arrivals
    BY <2>2, StageIs DEF Bounded
  <2> HIDE DEF x
  <2>5. Bounded'
    <3>1. \A i \in 1..Len(arrived') : arrived'[i].n <= arrivals'
      BY <1>a, <2>3, <2>4 DEF Bounded
    <3>2. \A i \in 1..Len(callback') : callback'[i].n <= arrivals'
      BY <1>a, <2>2 DEF Bounded
    <3> QED  BY <1>a, <3>1, <3>2 DEF Bounded
  <2>6. Stage(7)' \subseteq Stage(7) \cup {x} /\ Stage(8)' \subseteq Stage(8)
    <3>1. \A i \in 1..Len(arrived') : arrived'[i].n = x \/ arrived'[i].n \in Stage(7)
      BY <2>3, StageIs
    <3>2. \A i \in 1..Len(callback') : callback'[i].n \in Stage(8)
      BY <2>2, StageIs
    <3> QED  BY <3>1, <3>2, StageIs
  <2>7. ASSUME StagesOrdered, QueuesOrdered
        PROVE  StagesOrdered' /\ QueuesOrdered'
    <3>1. \A i \in 1..Len(callback') : x < callback'[i].n
      BY <2>2, <2>7 DEF QueuesOrdered, x
    <3>2. \A y \in Stage(8)' : x < y
      BY <3>1, StageIs
    <3>3. \A k \in Stages \ {7} : Stage(k)' \subseteq Stage(k)
      BY <1>a, <2>6, StageFrame, StageNumbers
    <3>4. StagesOrdered'
      BY <2>4, <2>6, <2>7, <3>2, <3>3, MovedInOrder
    <3>5. \A i \in 1..Len(arrived) : arrived[i].n < x
      <4>1. \A a \in Stage(7) : a < x
        BY <2>4, <2>7, StageNumbers DEF StagesOrdered
      <4> QED  BY <4>1, StageIs
    <3>6. \A i, j \in 1..Len(arrived') : i < j => arrived'[i].n < arrived'[j].n
      <4>1. \A i, j \in 1..Len(arrived) : i < j => arrived'[i].n < arrived'[j].n
        BY <2>3, <2>7 DEF QueuesOrdered
      <4>2. \A i \in 1..Len(arrived) : arrived'[i].n < arrived'[Len(arrived) + 1].n
        BY <2>3, <3>5
      <4> QED  BY <2>3, <4>1, <4>2
    <3>7. \A i, j \in 1..Len(callback') : i < j => callback'[i].n < callback'[j].n
      BY <2>2, <2>7 DEF QueuesOrdered
    <3> QED  BY <1>a, <2>7, <3>4, <3>6, <3>7 DEF QueuesOrdered
  <2> QED  BY <1>a, <2>5, <2>7 DEF InOrder
<1> QED  BY <1>1, <1>2 DEF Callback

\* event_manager_thread hands commands on in the order in which it takes them out.
LEMMA EventGetInOrder ==
  ASSUME TypeOK, Bounded, InOrder, EventGet
  PROVE  Bounded' /\ InOrder'
<1>a. UNCHANGED <<arrivals, answered, comms, reply, responses, sensor, s_mail, mem, ctl_box,
                  callback, tainted>>
  BY DEF EventGet, cbVars, ctlVars, senVars, respVars, comVars, history
<1> DEFINE x == Head(arrived).n
<1>1. arrived # <<>> /\ arrived' = Tail(arrived) /\ e_mail'.n = x
  BY DEF EventGet
<1>2. /\ Len(arrived) \in Nat \ {0} /\ Head(arrived) = arrived[1]
      /\ Len(arrived') = Len(arrived) - 1
      /\ \A i \in 1..Len(arrived') : i + 1 \in 1..Len(arrived) /\ arrived'[i] = arrived[i + 1]
  BY <1>1, TakeFacts DEF TypeOK
<1>3. x \in Stage(7) /\ x <= arrivals
  BY <1>2, StageIs DEF Bounded
<1>4. ASSUME QueuesOrdered
      PROVE  QueuesOrdered' /\ \A i \in 1..Len(arrived') : x < arrived'[i].n
  <2>1. \A i \in 1..Len(arrived') : x < arrived'[i].n
    BY <1>2, <1>4 DEF QueuesOrdered
  <2>2. \A i, j \in 1..Len(arrived') : i < j => arrived'[i].n < arrived'[j].n
    BY <1>2, <1>4 DEF QueuesOrdered
  <2> QED  BY <1>a, <1>4, <2>1, <2>2 DEF QueuesOrdered
<1> HIDE DEF x
<1>5. Bounded'
  <2>1. \A i \in 1..Len(arrived') : arrived'[i].n <= arrivals'
    BY <1>a, <1>2 DEF Bounded
  <2> QED  BY <1>a, <1>1, <1>3, <2>1 DEF Bounded
<1>6. ASSUME StagesOrdered, QueuesOrdered
      PROVE  StagesOrdered'
  <2>1. Stage(6)' \subseteq Stage(6) \cup {x}
    BY <1>1, StageIs
  <2>2. Stage(7)' \subseteq Stage(7)
    <3>1. \A i \in 1..Len(arrived') : arrived'[i].n \in Stage(7)
      BY <1>2, StageIs
    <3> QED  BY <3>1, StageIs
  <2>3. \A y \in Stage(7)' : x < y
    BY <1>4, <1>6, StageIs
  <2>4. \A k \in Stages \ {6} : Stage(k)' \subseteq Stage(k)
    BY <1>a, <2>2, StageFrame, StageNumbers
  <2> QED  BY <1>3, <1>6, <2>1, <2>3, <2>4, MovedInOrder
<1> QED  BY <1>a, <1>4, <1>5, <1>6 DEF InOrder

\* A command is put into a block that no command in the queue is in.
LEMMA EventPutInOrder ==
  ASSUME TypeOK, Hands, PoolSound, Bounded, InOrder, EventPut
  PROVE  Bounded' /\ InOrder'
<1>a. UNCHANGED <<arrivals, answered, comms, reply, responses, sensor, s_mail, arrived, e_mail,
                  callback, tainted>>
  BY DEF EventPut, cbVars, arrVars, senVars, respVars, comVars, history
<1> DEFINE x == e_mail.n
           N(i) == mem[ctl_box[i]].n
           M(i) == mem'[ctl_box'[i]].n
<1>1. /\ event = "fill" /\ event' = "free" /\ e_block \in Blocks
      /\ mem' = [mem EXCEPT ![e_block] = e_mail] /\ ctl_box' = Append(ctl_box, e_block)
  BY DEF EventPut, Hands
<1>2. /\ Len(ctl_box) \in Nat /\ Len(ctl_box') = Len(ctl_box) + 1
      /\ ctl_box'[Len(ctl_box) + 1] = e_block
      /\ \A i \in 1..Len(ctl_box) : ctl_box'[i] = ctl_box[i] /\ ctl_box[i] \in Blocks
  BY <1>1, PutFacts, ElementFacts DEF TypeOK
<1>3. /\ mem'[e_block] = e_mail /\ \A b \in Blocks : b # e_block => mem'[b] = mem[b]
  BY <1>1 DEF TypeOK
<1>4. x \in Stage(6) /\ x <= arrivals
  BY <1>1, StageIs DEF Bounded
<1>5. Bounded'
  <2>1. \A b \in Blocks : mem'[b].n <= arrivals'
    BY <1>a, <1>3 DEF Bounded
  <2> QED  BY <1>a, <2>1 DEF Bounded
<1>6. ASSUME ~tainted, StagesOrdered, QueuesOrdered
      PROVE  StagesOrdered' /\ QueuesOrdered'
  <2>1. \A i \in 1..Len(ctl_box) : ctl_box[i] # e_block
    BY <1>6 DEF PoolSound, Unshared, Queued
  <2>2. \A i \in 1..Len(ctl_box) : M(i) = N(i)
    BY <1>2, <1>3, <2>1
  <2>3. M(Len(ctl_box) + 1) = x
    BY <1>2, <1>3
  <2>4. Stage(5) = {N(i) : i \in 1..Len(ctl_box)} /\ Stage(5)' = {M(i) : i \in 1..Len(ctl_box')}
    BY StageIs
  <2>5. \A i, j \in 1..Len(ctl_box) : i < j => N(i) < N(j)
    BY <1>6 DEF QueuesOrdered
  <2> HIDE DEF x, N, M
  <2>6. Stage(5)' \subseteq Stage(5) \cup {x}
    <3>1. \A i \in 1..Len(ctl_box') : M(i) = x \/ M(i) \in Stage(5)
      BY <1>2, <2>2, <2>3, <2>4
    <3> QED  BY <3>1, <2>4
  <2>7. Stage(6)' = {}
    BY <1>1, StageIs
  <2>8. \A k \in Stages \ {5} : Stage(k)' \subseteq Stage(k)
    BY <1>a, <2>7, StageFrame, StageNumbers
  <2>9. StagesOrdered'
    BY <1>4, <1>6, <2>6, <2>7, <2>8, MovedInOrder
  <2>10. \A i \in 1..Len(ctl_box) : N(i) < x
    <3>1. \A a \in Stage(5) : a < x
      BY <1>4, <1>6, StageNumbers DEF StagesOrdered
    <3> QED  BY <3>1, <2>4
  <2>11. \A i, j \in 1..Len(ctl_box') : i < j => M(i) < M(j)
    BY <1>2, <2>2, <2>3, <2>5, <2>10
  <2>12. \A i, j \in 1..Len(ctl_box') : i < j => mem'[ctl_box'[i]].n < mem'[ctl_box'[j]].n
    BY <2>11 DEF M
  <2>13. QueuesOrdered'
    BY <1>a, <1>6, <2>12 DEF QueuesOrdered
  <2> QED  BY <2>9, <2>13
<1> QED  BY <1>a, <1>5, <1>6 DEF InOrder

\* All of event_manager_thread.
LEMMA EventInOrder ==
  ASSUME TypeOK, Hands, PoolSound, Bounded, InOrder, Event
  PROVE  Bounded' /\ InOrder'
<1>1. CASE EventCalloc \/ EventFree
  <2>1. UNCHANGED <<arrivals, answered, comms, reply, responses, sensor, s_mail, arrived, mem,
                    ctl_box, callback, tainted>>
    BY <1>1 DEF EventCalloc, EventFree, cbVars, arrVars, ctlVars, senVars, respVars, comVars,
                history
  <2>2. e_mail'.n \in {e_mail.n, 0} /\ Stage(6)' \subseteq Stage(6)
    <3>1. CASE EventCalloc
      <4>1. event = "calloc" /\ e_mail' = e_mail
        BY <3>1 DEF EventCalloc
      <4> QED  BY <4>1, StageIs
    <3>2. CASE EventFree
      <4>1. e_mail'.n = 0 /\ event' = "loop"
        BY <3>2 DEF EventFree, NoMail
      <4> QED  BY <4>1, StageIs
    <3> QED  BY <1>1, <3>1, <3>2
  <2>3. Bounded'
    <3>1. e_mail'.n <= arrivals
      BY <2>2 DEF Bounded, TypeOK
    <3> QED  BY <2>1, <3>1 DEF Bounded
  <2>4. \A k \in Stages : Stage(k)' \subseteq Stage(k)
    BY <2>1, <2>2, StageFrame, StageNumbers
  <2>5. QueuesOrdered => QueuesOrdered'
    BY <2>1 DEF QueuesOrdered
  <2> QED  BY <2>1, <2>3, <2>4, <2>5, DroppedInOrder DEF InOrder
<1> QED  BY <1>1, EventGetInOrder, EventPutInOrder DEF Event

\* execute_sensor_control takes the oldest command out of its mailbox.
LEMMA SensorGetInOrder ==
  ASSUME TypeOK, Bounded, InOrder, SensorGet
  PROVE  Bounded' /\ InOrder'
<1>a. UNCHANGED <<arrivals, answered, comms, reply, responses, mem, event, e_mail, arrived,
                  callback, tainted>>
  BY DEF SensorGet, cbVars, arrVars, evVars, respVars, comVars, history
<1> DEFINE x == s_mail'.n
           N(i) == mem[ctl_box[i]].n
           M(i) == mem'[ctl_box'[i]].n
<1>1. ctl_box # <<>> /\ ctl_box' = Tail(ctl_box) /\ s_mail' = mem[Head(ctl_box)]
  BY DEF SensorGet
<1>2. /\ Len(ctl_box) \in Nat \ {0} /\ Head(ctl_box) = ctl_box[1] /\ Head(ctl_box) \in Blocks
      /\ Len(ctl_box') = Len(ctl_box) - 1
      /\ \A i \in 1..Len(ctl_box') : i + 1 \in 1..Len(ctl_box) /\ ctl_box'[i] = ctl_box[i + 1]
  BY <1>1, TakeFacts DEF TypeOK
<1>3. x = N(1) /\ \A i \in 1..Len(ctl_box') : M(i) = N(i + 1)
  BY <1>a, <1>1, <1>2
<1>4. Bounded'
  BY <1>a, <1>1, <1>2 DEF Bounded
<1>5. ASSUME StagesOrdered, QueuesOrdered
      PROVE  StagesOrdered' /\ QueuesOrdered'
  <2>1. Stage(5) = {N(i) : i \in 1..Len(ctl_box)} /\ Stage(5)' = {M(i) : i \in 1..Len(ctl_box')}
    BY StageIs
  <2>2. Stage(4)' \subseteq Stage(4) \cup {x}
    BY StageIs
  <2>3. \A i, j \in 1..Len(ctl_box) : i < j => N(i) < N(j)
    BY <1>5 DEF QueuesOrdered
  <2> HIDE DEF x, N, M
  <2>4. x \in Stage(5)
    BY <1>2, <1>3, <2>1
  <2>5. Stage(5)' \subseteq Stage(5)
    <3>1. \A i \in 1..Len(ctl_box') : M(i) \in Stage(5)
      BY <1>2, <1>3, <2>1
    <3> QED  BY <3>1, <2>1
  <2>6. \A y \in Stage(5)' : x < y
    <3>1. \A i \in 1..Len(ctl_box') : x < M(i)
      BY <1>2, <1>3, <2>3
    <3> QED  BY <3>1, <2>1
  <2>7. \A k \in Stages \ {4} : Stage(k)' \subseteq Stage(k)
    BY <1>a, <2>5, StageFrame, StageNumbers
  <2>8. StagesOrdered'
    BY <1>5, <2>2, <2>4, <2>6, <2>7, MovedInOrder
  <2>9. \A i, j \in 1..Len(ctl_box') : i < j => M(i) < M(j)
    BY <1>2, <1>3, <2>3
  <2>10. \A i, j \in 1..Len(ctl_box') : i < j => mem'[ctl_box'[i]].n < mem'[ctl_box'[j]].n
    BY <2>9 DEF M
  <2> QED  BY <1>a, <1>5, <2>8, <2>10 DEF QueuesOrdered
<1> QED  BY <1>a, <1>4, <1>5 DEF InOrder

\* DecadaServiceResponse queues the answer to the command in hand.
LEMMA RespondInOrder ==
  ASSUME TypeOK, Bounded, InOrder, SensorRespondPut
  PROVE  Bounded' /\ InOrder'
<1>a. UNCHANGED <<arrivals, answered, comms, reply, s_mail, mem, ctl_box, event, e_mail, arrived,
                  callback, tainted>>
  BY DEF SensorRespondPut, cbVars, arrVars, evVars, ctlVars, comVars
<1> DEFINE x == s_mail.n
<1>1. /\ sensor = "put" /\ sensor' = "free_accepted" /\ x \in Nat
      /\ responses' = Append(responses, x)
  BY NumbersTyped DEF SensorRespondPut
<1>2. /\ Len(responses) \in Nat /\ Len(responses') = Len(responses) + 1
      /\ responses'[Len(responses) + 1] = x
      /\ \A i \in 1..Len(responses) : responses'[i] = responses[i]
  BY <1>1, PutFacts DEF TypeOK
<1>3. x \in Stage(4) /\ x <= arrivals /\ Stage(4)' = {}
  BY <1>1, StageIs DEF Bounded
<1> HIDE DEF x
<1>4. Bounded'
  <2>1. \A i \in 1..Len(responses') : responses'[i] <= arrivals'
    BY <1>a, <1>2, <1>3 DEF Bounded
  <2> QED  BY <1>a, <2>1 DEF Bounded
<1>5. ASSUME StagesOrdered, QueuesOrdered
      PROVE  StagesOrdered' /\ QueuesOrdered'
  <2>1. Stage(3)' \subseteq Stage(3) \cup {x}
    <3>1. \A i \in 1..Len(responses') : responses'[i] = x \/ responses'[i] \in Stage(3)
      BY <1>2, StageIs
    <3> QED  BY <3>1, StageIs
  <2>2. \A k \in Stages \ {3} : Stage(k)' \subseteq Stage(k)
    BY <1>a, <1>3, StageFrame, StageNumbers
  <2>3. StagesOrdered'
    BY <1>3, <1>5, <2>1, <2>2, MovedInOrder
  <2>4. \A i \in 1..Len(responses) : responses[i] < x
    <3>1. \A a \in Stage(3) : a < x
      BY <1>3, <1>5, StageNumbers DEF StagesOrdered
    <3> QED  BY <3>1, StageIs
  <2>5. \A i, j \in 1..Len(responses') : i < j => responses'[i] < responses'[j]
    BY <1>2, <1>5, <2>4 DEF QueuesOrdered
  <2> QED  BY <1>a, <1>5, <2>3, <2>5 DEF QueuesOrdered
<1> QED  BY <1>a, <1>4, <1>5 DEF InOrder

\* All of execute_sensor_control.
LEMMA SensorInOrder ==
  ASSUME TypeOK, Bounded, InOrder, Sensor
  PROVE  Bounded' /\ InOrder'
<1>1. CASE SensorRespondCalloc \/ SensorFreeAccepted \/ SensorWrite \/ SensorFree
  <2>1. UNCHANGED <<arrivals, answered, comms, reply, responses, mem, ctl_box, event, e_mail,
                    arrived, callback>>
    BY <1>1 DEF SensorRespondCalloc, SensorFreeAccepted, SensorWrite, SensorFree, cbVars,
                arrVars, evVars, ctlVars, respVars, comVars
  <2>2. ~tainted' => ~tainted
    BY <1>1 DEF SensorRespondCalloc, SensorFreeAccepted, SensorWrite, SensorFree, history
  <2>3. s_mail' \in {s_mail, NoMail} /\ Stage(4)' \subseteq Stage(4)
    <3>1. CASE SensorFree
      BY <3>1, StageIs DEF SensorFree
    <3>2. CASE SensorRespondCalloc \/ SensorFreeAccepted \/ SensorWrite
      <4>1. s_mail' = s_mail /\ (sensor' \in {"respond", "put"} => sensor \in {"respond", "put"})
        BY <3>2 DEF SensorRespondCalloc, SensorFreeAccepted, SensorWrite
      <4> QED  BY <4>1, StageIs
    <3> QED  BY <1>1, <3>1, <3>2
  <2>4. s_mail'.n <= arrivals
    BY <2>3 DEF Bounded, TypeOK, NoMail
  <2>5. Bounded'
    BY <2>1, <2>4 DEF Bounded
  <2>6. \A k \in Stages : Stage(k)' \subseteq Stage(k)
    BY <2>1, <2>3, StageFrame, StageNumbers
  <2>7. QueuesOrdered => QueuesOrdered'
    BY <2>1 DEF QueuesOrdered
  <2> QED  BY <2>2, <2>5, <2>6, <2>7, DroppedInOrder DEF InOrder
<1> QED  BY <1>1, SensorGetInOrder, RespondInOrder DEF Sensor

\* communications_controller_thread publishes the answers in the order of its mailbox, and a
\* lost one is not made up for.
LEMMA CommsInOrder ==
  ASSUME TypeOK, Hands, Bounded, InOrder, Comms \/ CommsWait
  PROVE  Bounded' /\ InOrder'
<1>a. UNCHANGED <<arrivals, sensor, s_mail, mem, ctl_box, event, e_mail, arrived, callback,
                  tainted>>
  BY CommsFrame DEF cbVars, arrVars, evVars, ctlVars, senVars, history
<1>1. CASE CommsGet
  <2>1. /\ responses # <<>> /\ responses' = Tail(responses) /\ reply' = Head(responses)
        /\ answered' = answered
    BY <1>1 DEF CommsGet
  <2>2. /\ Len(responses) \in Nat \ {0} /\ reply' = responses[1]
        /\ Len(responses') = Len(responses) - 1
        /\ \A i \in 1..Len(responses') : i + 1 \in 1..Len(responses)
                                        /\ responses'[i] = responses[i + 1]
    BY <2>1, TakeFacts DEF TypeOK
  <2>3. Bounded'
    BY <1>a, <2>1, <2>2 DEF Bounded
  <2>4. ASSUME StagesOrdered, QueuesOrdered
        PROVE  StagesOrdered' /\ QueuesOrdered'
    <3>1. Stage(2)' \subseteq Stage(2) \cup {reply'} /\ reply' \in Stage(3)
      BY <2>2, StageIs
    <3>2. Stage(3)' \subseteq Stage(3)
      <4>1. \A i \in 1..Len(responses') : responses'[i] \in Stage(3)
        BY <2>2, StageIs
      <4> QED  BY <4>1, StageIs
    <3>3. \A y \in Stage(3)' : reply' < y
      <4>1. \A i \in 1..Len(responses') : reply' < responses'[i]
        BY <2>2, <2>4 DEF QueuesOrdered
      <4> QED  BY <4>1, StageIs
    <3>4. \A k \in Stages \ {2} : Stage(k)' \subseteq Stage(k)
      BY <1>a, <2>1, <3>2, StageFrame, StageNumbers
    <3>5. StagesOrdered'
      BY <2>4, <3>1, <3>3, <3>4, MovedInOrder
    <3>6. \A i, j \in 1..Len(responses') : i < j => responses'[i] < responses'[j]
      BY <2>2, <2>4 DEF QueuesOrdered
    <3> QED  BY <1>a, <2>4, <3>5, <3>6 DEF QueuesOrdered
  <2> QED  BY <1>a, <2>3, <2>4 DEF InOrder
<1>2. CASE CommsPublish /\ reply # NoReply
  <2>1. /\ comms = "publish" /\ comms' = "free" /\ responses' = responses
        /\ answered' \in {answered, reply} /\ reply' = reply
    BY <1>2 DEF CommsPublish, respVars
  <2>2. Bounded'
    BY <1>a, <2>1 DEF Bounded, TypeOK
  <2>3. ASSUME StagesOrdered, QueuesOrdered
        PROVE  StagesOrdered' /\ QueuesOrdered'
    <3>1. Stage(1)' \subseteq Stage(1) \cup {reply} /\ reply \in Stage(2) /\ Stage(2)' = {}
      BY <1>2, <2>1, StageIs
    <3>2. \A k \in Stages \ {1} : Stage(k)' \subseteq Stage(k)
      BY <1>a, <2>1, <3>1, StageFrame, StageNumbers
    <3>3. StagesOrdered'
      BY <2>3, <3>1, <3>2, MovedInOrder
    <3> QED  BY <1>a, <2>1, <2>3, <3>3 DEF QueuesOrdered
  <2> QED  BY <1>a, <2>2, <2>3 DEF InOrder
<1>3. CASE \/ CommsPublish /\ reply = NoReply
           \/ CommsFree \/ CommsPacket \/ CommsGetNothing \/ CommsWait
  <2>1. /\ UNCHANGED <<responses, answered>> /\ reply' \in {reply, NoReply}
        /\ reply' # NoReply => comms # "free"
    <3>1. CASE CommsPublish /\ reply = NoReply
      BY <3>1 DEF CommsPublish, respVars
    <3>2. CASE CommsFree
      BY <3>2 DEF CommsFree
    <3>3. CASE CommsPacket \/ CommsGetNothing \/ CommsWait
      BY <3>3, CommsMoves DEF respVars
    <3> QED  BY <1>3, <3>1, <3>2, <3>3
  <2>2. Bounded'
    <3>1. reply' <= arrivals
      BY <2>1 DEF Bounded, TypeOK, NoReply
    <3> QED  BY <1>a, <2>1, <3>1 DEF Bounded
  <2>3. Stage(2)' \subseteq Stage(2)
    BY <2>1, StageIs
  <2>4. \A k \in Stages : Stage(k)' \subseteq Stage(k)
    BY <1>a, <2>1, <2>3, StageFrame, StageNumbers
  <2>5. QueuesOrdered => QueuesOrdered'
    BY <1>a, <2>1 DEF QueuesOrdered
  <2> QED  BY <1>a, <2>2, <2>4, <2>5, DroppedInOrder DEF InOrder
<1> QED  BY <1>1, <1>2, <1>3 DEF Comms

-----------------------------------------------------------------------------
(* The interval in flash *)

\* The remainder of a number below the divisor.
LEMMA Remainder == \A a, b \in Nat : a < b => a % b = a
OBVIOUS

\* A product that fits an int is the product.
LEMMA IntervalFits ==
  ASSUME NEW v \in Int, v >= 0, v * 1000 <= IntMax
  PROVE  Interval(v) = v * 1000
<1> DEFINE h == IntMax + 1
           p == v * 1000
<1>1. h \in Nat /\ p \in Nat /\ p + h \in Nat /\ 2 * h \in Nat /\ p + h < 2 * h
  BY DataAssumption
<1>2. Interval(v) = ((p + h) % (2 * h)) - h
  BY DEF Interval, Wrap
<1> HIDE DEF h, p
<1>3. (p + h) % (2 * h) = p + h
  BY <1>1, Remainder
<1>4. Interval(v) = p
  BY <1>1, <1>2, <1>3
<1> QED  BY <1>4 DEF p

\* A step of any other thread, or one of sensor_thread that neither answers nor writes.
LEMMA IntervalFrame ==
  ASSUME AboutToWrite, IntervalAsAnswered,
         UNCHANGED <<acked, written, stored, cut, failed, current_cycle_interval>>,
         AboutToStore <=> AboutToStore', AboutToStore => s_mail' = s_mail
  PROVE  AboutToWrite' /\ IntervalAsAnswered'
<1>1. AboutToWrite' /\ AnswerMeansStored'
  BY DEF AboutToWrite, IntervalAsAnswered, AnswerMeansStored
<1>2. StoredWasAccepted' /\ UsedAsStored'
  BY DEF IntervalAsAnswered, StoredWasAccepted, UsedAsStored
<1> QED  BY <1>1, <1>2 DEF IntervalAsAnswered

\* The command that was answered is the one that is written, and only a product that leaves
\* int makes its interval short.
LEMMA IntervalStep ==
  ASSUME TypeOK, Hands, AboutToWrite, IntervalAsAnswered,
         Arrive \/ Callback \/ Event \/ Sensor \/ Comms \/ CommsWait
  PROVE  AboutToWrite' /\ IntervalAsAnswered'
<1>1. CASE Arrive \/ Callback \/ Event \/ Comms \/ CommsWait
  <2>1. UNCHANGED <<acked, written, stored, cut, failed, current_cycle_interval, sensor, s_mail>>
    BY <1>1, CommsFrame
       DEF Arrive, Callback, CallbackCalloc, CallbackPut, Event, EventGet, EventCalloc,
           EventPut, EventFree, senVars, history
  <2> QED  BY <2>1, IntervalFrame DEF AboutToStore
<1>2. CASE SensorGet \/ SensorRespondCalloc \/ SensorFree
  <2>1. /\ UNCHANGED <<acked, written, stored, cut, failed, current_cycle_interval>>
        /\ ~AboutToStore /\ ~AboutToStore'
    BY <1>2 DEF SensorGet, SensorRespondCalloc, SensorFree, history, AboutToStore
  <2> QED  BY <2>1, IntervalFrame
<1>3. CASE SensorFreeAccepted
  <2>1. /\ UNCHANGED <<acked, written, stored, cut, failed, current_cycle_interval, s_mail>>
        /\ AboutToStore /\ AboutToStore'
    BY <1>3 DEF SensorFreeAccepted, history, AboutToStore
  <2> QED  BY <2>1, IntervalFrame
<1>4. CASE SensorRespondPut
  <2>1. /\ AboutToStore' /\ acked' = s_mail.value /\ s_mail' = s_mail
        /\ UNCHANGED <<written, stored>>
    BY <1>4 DEF SensorRespondPut, AboutToStore
  <2> QED  BY <2>1 DEF AboutToWrite, IntervalAsAnswered, AnswerMeansStored, StoredWasAccepted,
                       UsedAsStored
<1>5. CASE SensorWrite
  <2> DEFINE v == s_mail.value
  <2>1. /\ AboutToStore /\ ~AboutToStore' /\ acked' = acked /\ sensor = "write"
        /\ current_cycle_interval' = Interval(v)
    BY <1>5 DEF SensorWrite, AboutToStore
  <2>2. acked = v /\ v \in Int /\ v >= LowestBound
    BY <2>1 DEF AboutToWrite, Hands, Accepts, TypeOK, Mail
  <2>3. v * 1000 > IntMax \/ Interval(v) >= LowestBound * 1000
    <3>1. CASE v * 1000 <= IntMax
      <4>1. Interval(v) = v * 1000
        BY <2>2, <3>1, IntervalFits DEF LowestBound
      <4> QED  BY <2>2, <4>1 DEF LowestBound
    <3>2. CASE ~(v * 1000 <= IntMax)
      BY <2>2, <3>2, DataAssumption
    <3> QED  BY <3>1, <3>2
  <2>4. Interval(v) \in Int
    BY <2>2, IntervalTyped
  <2> HIDE DEF v
  <2>5. AboutToWrite'
    BY <2>1 DEF AboutToWrite
  <2>6. CASE failed'
    <3>1. UNCHANGED <<stored, written>>
      BY <1>5, <2>6 DEF SensorWrite
    <3> QED  BY <2>1, <2>2, <2>5, <2>6, <3>1
             DEF IntervalAsAnswered, AnswerMeansStored, StoredWasAccepted, UsedAsStored
  <2>7. CASE ~failed'
    <3>1. stored' = Interval(v) /\ written' = v
      BY <1>5, <2>7 DEF SensorWrite, v
    <3>2. AnswerMeansStored' /\ UsedAsStored'
      BY <2>1, <2>2, <3>1 DEF AnswerMeansStored, UsedAsStored
    <3>3. StoredWasAccepted'
      BY <2>2, <2>3, <2>4, <3>1 DEF StoredWasAccepted, LowestBound
    <3> QED  BY <2>5, <3>2, <3>3 DEF IntervalAsAnswered
  <2> QED  BY <2>6, <2>7
<1> QED  BY <1>1, <1>2, <1>3, <1>4, <1>5 DEF Sensor

-----------------------------------------------------------------------------
(* The invariant *)

\* A fresh board.
LEMMA InitEstablishes == Init => IInv
<1> SUFFICES ASSUME Init
             PROVE  IInv
  OBVIOUS
<1>1. TypeOK
  <2>1. NoMail \in Mail
    BY DEF NoMail, Mail
  <2>2. [b \in Blocks |-> IF b = ControlSize THEN NULL ELSE b + 1] \in [Blocks -> 0..Heap]
    BY Sizes DEF Blocks, NULL, Heap
  <2>3. 1 \in 0..Heap /\ 0 \in 0..ArrivedSize /\ 0 \in 0..ResponseSize /\ 0 \in 0..ControlSize
    BY Sizes DEF Heap
  <2>4. /\ callback \in Seq(Parameter) /\ arrived \in Seq(Parameter)
        /\ ctl_box \in Seq(Blocks) /\ responses \in Seq(Nat)
    BY DEF Init
  <2>5. mem \in [Blocks -> Mail]
    BY <2>1 DEF Init
  <2>6. heads \in 0..Heap /\ word \in [Blocks -> 0..Heap] /\ ctl_used \in 0..ControlSize
    BY <2>2, <2>3 DEF Init
  <2>7. /\ arrived_used \in 0..ArrivedSize /\ resp_used \in 0..ResponseSize
        /\ e_block \in 0..ControlSize /\ s_block \in 0..ControlSize
        /\ e_mail \in Mail /\ s_mail \in Mail /\ acked \in Int /\ written \in Int
    BY <2>1, <2>3 DEF Init, NoBlock, NULL
  <2>8. /\ sent \in Nat /\ arrivals \in Nat /\ c_block \in BOOLEAN /\ answered \in Nat
        /\ tainted \in BOOLEAN /\ cut \in BOOLEAN /\ failed \in BOOLEAN
        /\ reply \in Nat \cup {NoReply} /\ resets \in Nat
    BY DEF Init
  <2>9. /\ current_cycle_interval \in Int /\ stored \in Int
        /\ event = "loop" /\ sensor = "loop" /\ comms = "packet"
    BY DataAssumption DEF Init
  <2> QED  BY <2>4, <2>5, <2>6, <2>7, <2>8, <2>9 DEF TypeOK
<1>2. MailAccounting
  BY DEF Init, MailAccounting, Count
<1>3. Hands
  BY DEF Init, Hands, NoBlock, NULL, Blocks
<1>4. PoolSound
  <2>1. Unshared
    BY DEF Init, Unshared, Queued, SensorOwnsBlock, Count
  <2>2. FreeSet = Blocks
    BY DEF Init, FreeSet, Owned, Queued, SensorOwnsBlock, NoBlock, NULL, Blocks
  <2>3. FreeList
    BY <2>2, Sizes DEF Init, FreeList, Blocks, NULL
  <2> QED  BY <2>1, <2>3 DEF PoolSound
<1>5. Bounded
  BY DEF Init, Bounded, TypeOK, NoMail, NoReply
<1>9. Counted
  BY DEF Init, Counted, InHand, SensorOwnsBlock, Count
<1>6. StagesOrdered
  <2>1. \A k \in Stages : k # 1 => Stage(k) = {}
    BY DEF Init, Stage, Stages
  <2> QED  BY <2>1 DEF StagesOrdered, Stages
<1>7. QueuesOrdered
  BY DEF Init, QueuesOrdered
<1>8. AboutToWrite /\ IntervalAsAnswered
  <2>1. AboutToWrite /\ AnswerMeansStored /\ UsedAsStored
    BY DEF Init, AboutToWrite, AboutToStore, AnswerMeansStored, UsedAsStored
  <2>2. StoredWasAccepted
    BY DataAssumption DEF Init, StoredWasAccepted, LowestBound
  <2> QED  BY <2>1, <2>2 DEF IntervalAsAnswered
<1> QED  BY <1>1, <1>2, <1>3, <1>4, <1>5, <1>6, <1>7, <1>8, <1>9 DEF IInv, InOrder

\* Every step keeps the invariant: of the threads, of a reset and of the fault a corrupted
\* pool ends in.
LEMMA InvariantStep == IInv /\ [Next]_vars => IInv'
<1> SUFFICES ASSUME IInv, [Next]_vars
             PROVE  IInv'
  OBVIOUS
<1>1. CASE Arrive \/ Callback \/ Event \/ Sensor \/ Comms \/ CommsWait
  <2>1. TypeOK'
    BY <1>1, CallbackTyped, EventTyped, SensorTyped, CommsTyped DEF IInv
  <2>2. MailAccounting' /\ Hands'
    BY <1>1, MailAccountingStep, HandsStep DEF IInv
  <2>3. PoolSound' /\ Counted'
    BY <1>1, PoolStep, CountedStep DEF IInv
  <2>4. Bounded' /\ InOrder'
    BY <1>1, ArriveInOrder, CallbackInOrder, EventInOrder, SensorInOrder, CommsInOrder DEF IInv
  <2>5. AboutToWrite' /\ IntervalAsAnswered'
    BY <1>1, IntervalStep DEF IInv
  <2> QED  BY <2>1, <2>2, <2>3, <2>4, <2>5 DEF IInv
<1>2. CASE EventFault \/ Reboot
  BY <1>2, RestartEstablishes DEF IInv, EventFault, Reboot
<1>3. CASE UNCHANGED vars
  <2>1. /\ UNCHANGED <<cbVars, arrVars, evVars, senVars, respVars, comVars, history>>
        /\ UNCHANGED <<poolVars, mem, ctl_box, stored>>
    BY <1>3 DEF vars, ctlVars
  <2> USE <2>1 DEF cbVars, arrVars, evVars, poolVars, senVars, respVars, comVars, history
  <2>2. TypeOK' /\ MailAccounting' /\ Hands'
    BY DEF IInv, TypeOK, MailAccounting, Hands
  <2>3. PoolSound' /\ Counted'
    <3>1. SensorOwnsBlock <=> SensorOwnsBlock'
      BY DEF SensorOwnsBlock
    <3>2. Counted'
      BY <3>1 DEF IInv, Counted, InHand, Count
    <3> QED  BY <3>1, <3>2, PoolFrame DEF IInv
  <2>4. Bounded' /\ (QueuesOrdered => QueuesOrdered')
    BY DEF IInv, Bounded, QueuesOrdered
  <2>5. InOrder'
    <3>1. \A k \in Stages : Stage(k)' \subseteq Stage(k)
      BY StageFrame, StageNumbers
    <3> QED  BY <2>4, <3>1, DroppedInOrder DEF IInv, InOrder
  <2>6. AboutToWrite' /\ IntervalAsAnswered'
    BY IntervalFrame DEF IInv, AboutToStore
  <2> QED  BY <2>2, <2>3, <2>4, <2>5, <2>6 DEF IInv
<1> QED  BY <1>1, <1>2, <1>3 DEF Next

\* Whatever arrives, and whenever the board restarts.
LEMMA Invariance == Spec => []IInv
<1>1. IInv /\ [Next]_vars => IInv'
  BY InvariantStep
<1> QED  BY <1>1, InitEstablishes, PTL DEF Spec

-----------------------------------------------------------------------------
(* Theorems *)

\* Every variable of the command path stays in its range, and no counter of a pool passes the
\* pool's size.
THEOREM TypeCorrect == Spec => []TypeOK
<1>1. IInv => TypeOK
  BY DEF IInv
<1> QED  BY <1>1, Invariance, PTL

\* No two entries of a queue without duplicates are the same.
LEMMA AtMostOne ==
  ASSUME NEW n \in Nat, NEW T \in SUBSET (1..n), \A i, j \in T : i = j
  PROVE  Cardinality(T) \in {0, 1} /\ (T = {} => Cardinality(T) = 0)
<1>1. CASE T = {}
  BY <1>1, FS_EmptySet
<1>2. CASE T # {}
  <2>1. PICK i \in T : TRUE
    BY <1>2
  <2>2. T = {i}
    BY <2>1
  <2> QED  BY <2>2, FS_Singleton
<1> QED  BY <1>1, <1>2

\* The blocks in use of all three pools are those queued and in the hands of the threads:
\* none leaks, for any sizes, messages and resets, and none is freed twice or shared, unless
\* the second free of an accepted command (sensor_thread.cpp:41, :45) meets a block in use;
\* from there until the next reset, used_blocks of sensor_control_mail_box may be too small.
THEOREM AllBlocksAccounted == Spec => []BlocksAccounted
<1>2. IInv => ControlAccounting
  BY DEF IInv, Counted, PoolSound, Unshared, ControlAccounting, InHand
<1>1. IInv => BlocksAccounted
  <2> SUFFICES ASSUME IInv, ~tainted, NEW b \in Blocks
               PROVE  Owners(b) <= 1
    BY <1>2 DEF IInv, BlocksAccounted, OneOwner
  <2> DEFINE T == {i \in 1..Len(ctl_box) : ctl_box[i] = b}
             F == Count(e_block = b)
             S == Count(s_block = b /\ SensorOwnsBlock)
  <2>1. Unshared /\ Len(ctl_box) \in Nat
    BY DEF IInv, PoolSound, TypeOK
  <2>2. T \in SUBSET (1..Len(ctl_box)) /\ \A i, j \in T : i = j
    BY <2>1 DEF Unshared
  <2>3. Cardinality(T) \in {0, 1} /\ (T = {} => Cardinality(T) = 0)
    BY <2>1, <2>2, AtMostOne
  <2>4. F \in {0, 1} /\ S \in {0, 1}
    BY DEF Count
  <2>5. T # {} => (F = 0 /\ S = 0)
    BY <2>1 DEF Unshared, Queued, Count
  <2>6. F = 0 \/ S = 0
    BY <2>1 DEF Unshared, Count
  <2>7. Owners(b) = Cardinality(T) + F + S
    BY DEF Owners
  <2> HIDE DEF T, F, S
  <2> QED  BY <2>3, <2>4, <2>5, <2>6, <2>7
<1> QED  BY <1>1, Invariance, PTL

\* What the cloud is told of an interval is what flash and the sensor thread hold, and that was
\* accepted as it is, for any width of int: only power lost between the answer and the write, a
\* write that fails without a report, and the overflow of value*1000 come between.
THEOREM FlashIsAsAnswered == Spec => []IntervalAsAnswered
<1>1. IInv => IntervalAsAnswered
  BY DEF IInv
<1> QED  BY <1>1, Invariance, PTL

\* Answers reach the cloud in the order of the commands and none of them twice, through four
\* mailboxes of any size and any number of resets, as long as no block has two owners.
THEOREM AnswersInOrder == Spec => AnsweredInOrder
<1>1. IInv /\ [Next]_vars => [answered' # answered /\ ~tainted => answered' > answered]_vars
  <2> SUFFICES ASSUME IInv, Next, answered' # answered, ~tainted
               PROVE  answered' > answered
    OBVIOUS
  <2>1. CommsPublish
    BY DEF Next, Arrive, Callback, CallbackCalloc, CallbackPut, Event, EventGet, EventCalloc,
           EventPut, EventFree, EventFault, Reboot, Sensor, SensorGet, SensorRespondCalloc,
           SensorRespondPut, SensorFreeAccepted, SensorWrite, SensorFree, Comms, CommsPacket,
           CommsGet, CommsGetNothing, CommsFree, CommsWait, CommsLockMqtt, CommsLockStdio,
           CommsReconnect, Restart, comVars
  <2>2. answered' = reply /\ reply \in Stage(2) /\ answered \in Stage(1)
    BY <2>1, StageIs DEF CommsPublish
  <2>3. answered < reply
    BY <2>2, StageNumbers DEF IInv, InOrder, StagesOrdered
  <2> QED  BY <2>2, <2>3, NumbersTyped DEF IInv
<1> QED  BY <1>1, Invariance, PTL DEF Spec, AnsweredInOrder
=============================================================================
