------------------------------- MODULE Commands -------------------------------
(***************************************************************************)
(* The command path of the firmware.                                       *)
(*                                                                         *)
(*   broker --yield, SubscriptionMessageArrivalCallback-->                 *)
(*      mqtt_arrived_mail_box --event_manager_thread,                      *)
(*      DistributeControlMessage--> sensor_control_mail_box                *)
(*      --execute_sensor_control--> persistent store, and                  *)
(*      service_response_mail_box --communications_controller_thread-->    *)
(*      broker                                                             *)
(*                                                                         *)
(* Every access to a mailbox or mutex is a step of its own.                *)
(* sensor_control_mail_box is modelled down to the free list of its memory *)
(* pool, because execute_sensor_control frees the block of an accepted     *)
(* command twice.  Who else has mqtt_mutex and stdio_mutex, what packets   *)
(* of the measurement path there are, and when pub_ok asks for a           *)
(* reconnection is left open: Telemetry and MqttSession have that.         *)
(***************************************************************************)
EXTENDS Integers, Sequences, FiniteSets

CONSTANTS Messages,      \* what the platform sends: sequences of parameters
          Garbage,       \* values an uninitialised int may hold
          IntMax,        \* greatest int (2^31 - 1 on the board)
          ArrivedSize,   \* blocks of mqtt_arrived_mail_box (128)
          ControlSize,   \* blocks of sensor_control_mail_box (64)
          ResponseSize,  \* blocks of service_response_mail_box (256)
          Default,       \* cycle interval of a fresh configuration, in ms
          MaxMessages,   \* bound: messages the platform sends
          MaxResets      \* bound: power cuts and faults

ASSUME SizeAssumption ==
  /\ {ArrivedSize, ControlSize, ResponseSize} \subseteq Nat \ {0}
  /\ MaxMessages \in Nat /\ MaxResets \in Nat

VARIABLES
  sent, arrivals,             \* messages and parameters the platform has sent
  callback,                   \* parameters the callback has still to queue
  c_block,                    \* the callback holds a block
  arrived, arrived_used,      \* mqtt_arrived_mail_box
  event, e_mail,              \* event_manager_thread: control, the mail in hand
  e_block,                    \* the control block it fills
  heads, word, ctl_used,      \* pool of sensor_control_mail_box: head of the free list, first
                              \* word of every block, used_blocks
  mem, ctl_box,               \* contents of the blocks; queue of blocks
  sensor, s_block, s_mail,    \* sensor_thread
  current_cycle_interval,
  stored,                     \* cycle_interval in flash
  responses, resp_used,       \* service_response_mail_box
  comms, reply,               \* communications_controller_thread; reply: the response in hand
  answered,                   \* history: the latest command whose response was published
  acked, written,             \* history: the latest values answered and written to flash, or 0
  tainted,                    \* history: a block was freed twice with another one in use
  cut,                        \* history: power lost between that response and the write
  failed,                     \* history: the write behind the latest response failed
  resets                      \* history

cbVars   == <<sent, arrivals, callback, c_block>>
arrVars  == <<arrived, arrived_used>>
evVars   == <<event, e_mail, e_block>>
poolVars == <<heads, word, ctl_used>>
ctlVars  == <<poolVars, mem, ctl_box>>
senVars  == <<sensor, s_block, s_mail, current_cycle_interval>>
respVars == <<responses, resp_used>>
comVars  == <<comms, reply, answered>>
history  == <<acked, written, tainted, cut, failed, resets>>
vars == <<cbVars, arrVars, evVars, ctlVars, senVars, stored, respVars, comVars, history>>

-----------------------------------------------------------------------------
(* Data.  A command is a parameter of a message: its name, its text and its *)
(* place in the order of arrival, which stands for msg_id and endpoint_id.  *)

Blocks  == 1..ControlSize
NULL    == 0
Heap    == ControlSize + 1      \* the first word of a filled block: a pointer to a string
NoBlock == NULL
NoReply == 0 - 1                \* no response in hand, but a packet or nothing
NoMail  == [n |-> 0, param |-> "none", value |-> 0]
LowestBound == 10

Wrap(i) == LET h == IntMax + 1 IN ((i + h) % (2 * h)) - h

Names     == {"sensor_poll_rate", "sensor_other", "other"}
Texts     == [kind : {"empty", "word", "number"}, n : Int]
Parameter == [n : Nat, param : Names, text : Texts]
Mail      == [n : Nat, param : Names \cup {"none"}, value : Int]

\* The interval of a fresh configuration respects the bound on what the cloud may ask for.
ASSUME DataAssumption ==
  /\ IntMax \in Nat /\ Garbage \subseteq Int
  /\ Messages \subseteq Seq([param : Names, text : Texts])
  /\ Default \in Int /\ Default >= LowestBound * 1000

\* StringToInt: the stream saturates, reads 0 from a word, and leaves v alone at end of input.
StringToInt(text) ==
  CASE text.kind = "empty"  -> Garbage
    [] text.kind = "word"   -> {0}
    [] text.kind = "number" -> {IF text.n > IntMax THEN IntMax ELSE text.n}

\* param.find("sensor") != npos
NamesSensor(param) == param \in {"sensor_poll_rate", "sensor_other"}

Accepts(m) == m.param = "sensor_poll_rate" /\ m.value >= LowestBound

\* value*1000 in an int.
Interval(value) == Wrap(value * 1000)

-----------------------------------------------------------------------------
(* The memory pool behind a Mail: free links the block in front and counts  *)
(* down, and only refuses when no block is in use.                          *)

\* try_calloc: the head block leaves the list and is cleared.
PoolAlloc ==
  /\ ctl_used < ControlSize /\ heads \in Blocks
  /\ heads' = word[heads]
  /\ word' = [word EXCEPT ![heads] = NULL]
  /\ ctl_used' = ctl_used + 1

Freed(pool, b) ==
  IF pool.used = 0 THEN pool
  ELSE [head |-> b, word |-> [pool.word EXCEPT ![b] = pool.head], used |-> pool.used - 1]

Pool == [head |-> heads, word |-> word, used |-> ctl_used]

PoolBecomes(p) == heads' = p.head /\ word' = p.word /\ ctl_used' = p.used

Init ==
  /\ sent = 0 /\ arrivals = 0 /\ callback = <<>> /\ c_block = FALSE
  /\ arrived = <<>> /\ arrived_used = 0
  /\ event = "loop" /\ e_mail = NoMail /\ e_block = NoBlock
  /\ heads = 1 /\ word = [b \in Blocks |-> IF b = ControlSize THEN NULL ELSE b + 1]
  /\ ctl_used = 0 /\ mem = [b \in Blocks |-> NoMail] /\ ctl_box = <<>>
  /\ sensor = "loop" /\ s_block = NoBlock /\ s_mail = NoMail
  /\ current_cycle_interval = Default /\ stored = Default
  /\ responses = <<>> /\ resp_used = 0
  /\ comms = "packet" /\ reply = NoReply /\ answered = 0
  /\ acked = 0 /\ written = 0 /\ tainted = FALSE /\ cut = FALSE /\ failed = FALSE
  /\ resets = 0

\* RAM is lost, the interval is read back from flash.
Restart ==
  /\ resets' = resets + 1
  /\ callback' = <<>> /\ c_block' = FALSE /\ arrived' = <<>> /\ arrived_used' = 0
  /\ event' = "loop" /\ e_mail' = NoMail /\ e_block' = NoBlock
  /\ heads' = 1 /\ word' = [b \in Blocks |-> IF b = ControlSize THEN NULL ELSE b + 1]
  /\ ctl_used' = 0 /\ mem' = [b \in Blocks |-> NoMail] /\ ctl_box' = <<>>
  /\ sensor' = "loop" /\ s_block' = NoBlock /\ s_mail' = NoMail
  /\ current_cycle_interval' = stored
  /\ responses' = <<>> /\ resp_used' = 0
  /\ comms' = "packet" /\ reply' = NoReply
  /\ tainted' = FALSE /\ cut' = (cut \/ sensor \in {"free_accepted", "write"})
  /\ UNCHANGED <<sent, arrivals, stored, answered, acked, written, failed>>

\* Power cut or watchdog.
Reboot == resets < MaxResets /\ Restart

-----------------------------------------------------------------------------
(* subscription_manager_thread inside yield *)

\* A message arrives; its parameters are collected before the first one is queued.
Arrive ==
  /\ callback = <<>> /\ sent < MaxMessages
  /\ \E m \in Messages :
       /\ sent' = sent + 1
       /\ arrivals' = arrivals + Len(m)
       /\ callback' = [i \in 1..Len(m) |->
                         [n |-> arrivals + i, param |-> m[i].param, text |-> m[i].text]]
  /\ UNCHANGED <<c_block, arrVars, evVars, ctlVars, senVars, stored, respVars, comVars, history>>

\* try_calloc returned a block; on NULL the callback spins inside yield.
CallbackCalloc ==
  /\ callback # <<>> /\ ~c_block /\ arrived_used < ArrivedSize
  /\ c_block' = TRUE /\ arrived_used' = arrived_used + 1
  /\ UNCHANGED <<sent, arrivals, callback, arrived, evVars, ctlVars, senVars, stored, respVars, comVars,
                 history>>

CallbackPut ==
  /\ c_block
  /\ arrived' = Append(arrived, Head(callback))
  /\ callback' = Tail(callback) /\ c_block' = FALSE
  /\ UNCHANGED <<sent, arrivals, arrived_used, evVars, ctlVars, senVars, stored, respVars, comVars,
                 history>>

-----------------------------------------------------------------------------
(* event_manager_thread *)

\* The mail is taken out and StringToInt applied to its text.
EventGet ==
  /\ event = "loop" /\ arrived # <<>>
  /\ LET m == Head(arrived) IN
     /\ \E v \in StringToInt(m.text) : e_mail' = [n |-> m.n, param |-> m.param, value |-> v]
     /\ event' = IF NamesSensor(m.param) THEN "calloc" ELSE "free"
  /\ arrived' = Tail(arrived)
  /\ UNCHANGED <<cbVars, arrived_used, e_block, ctlVars, senVars, stored, respVars, comVars, history>>

\* DistributeControlMessage: try_calloc and the fields; the first one is a pointer.
EventCalloc ==
  /\ event = "calloc" /\ PoolAlloc
  /\ e_block' = heads
  /\ event' = "fill"
  /\ UNCHANGED <<cbVars, arrVars, e_mail, mem, ctl_box, senVars, stored, respVars, comVars, history>>

\* The free list of a corrupted pool leads into the heap, where calloc writes: the board faults.
EventFault ==
  /\ event = "calloc" /\ ctl_used < ControlSize /\ heads = Heap
  /\ Restart

EventPut ==
  /\ event = "fill"
  /\ mem' = [mem EXCEPT ![e_block] = e_mail]
  /\ word' = [word EXCEPT ![e_block] = Heap]
  /\ ctl_box' = Append(ctl_box, e_block)
  /\ e_block' = NoBlock
  /\ event' = "free"
  /\ UNCHANGED <<cbVars, arrVars, e_mail, heads, ctl_used, senVars, stored, respVars, comVars,
                 history>>

EventFree ==
  /\ event = "free"
  /\ arrived_used' = arrived_used - 1
  /\ event' = "loop" /\ e_mail' = NoMail
  /\ UNCHANGED <<cbVars, arrived, e_block, ctlVars, senVars, stored, respVars, comVars, history>>

-----------------------------------------------------------------------------
(* sensor_thread: execute_sensor_control *)

\* Variant: the thread sleeps for the interval; a negative one never ends.
SensorSleepsInterval ==
  /\ sensor = "loop" /\ ctl_box # <<>> /\ current_cycle_interval > 0
  /\ s_block' = Head(ctl_box) /\ s_mail' = mem[Head(ctl_box)]
  /\ ctl_box' = Tail(ctl_box)
  /\ sensor' = IF Accepts(mem[Head(ctl_box)]) THEN "respond" ELSE "free"
  /\ UNCHANGED <<cbVars, arrVars, evVars, poolVars, mem, current_cycle_interval, stored, respVars,
                 comVars, history>>

SensorGet ==
  /\ sensor = "loop" /\ ctl_box # <<>>
  /\ s_block' = Head(ctl_box) /\ s_mail' = mem[Head(ctl_box)]
  /\ ctl_box' = Tail(ctl_box)
  /\ sensor' = IF Accepts(mem[Head(ctl_box)]) THEN "respond" ELSE "free"
  /\ UNCHANGED <<cbVars, arrVars, evVars, poolVars, mem, current_cycle_interval, stored, respVars,
                 comVars, history>>

\* DecadaServiceResponse: try_calloc, with a spin on NULL.
SensorRespondCalloc ==
  /\ sensor = "respond" /\ resp_used < ResponseSize
  /\ resp_used' = resp_used + 1
  /\ sensor' = "put"
  /\ UNCHANGED <<cbVars, arrVars, evVars, ctlVars, s_block, s_mail, current_cycle_interval,
                 stored, responses, comVars, history>>

SensorRespondPut ==
  /\ sensor = "put"
  /\ responses' = Append(responses, s_mail.n)
  /\ acked' = s_mail.value /\ cut' = FALSE /\ failed' = FALSE
  /\ sensor' = "free_accepted"
  /\ UNCHANGED <<cbVars, arrVars, evVars, ctlVars, s_block, s_mail, current_cycle_interval,
                 stored, resp_used, comVars, written, tainted, resets>>

\* sensor_control_mail_box.free inside the branch of an accepted command.
SensorFreeAccepted ==
  /\ sensor = "free_accepted"
  /\ PoolBecomes(Freed(Pool, s_block))
  /\ sensor' = "write"
  /\ UNCHANGED <<cbVars, arrVars, evVars, mem, ctl_box, s_block, s_mail, current_cycle_interval,
                 stored, respVars, comVars, history>>

\* Variant: the new interval is used but not saved.
SensorKeepsInRam ==
  /\ sensor = "write"
  /\ current_cycle_interval' = Interval(s_mail.value)
  /\ sensor' = "free"
  /\ UNCHANGED <<cbVars, arrVars, evVars, ctlVars, s_block, s_mail, stored, respVars, comVars,
                 history>>

\* WriteCycleInterval, whose failure WriteKey only logs, then the local variable.
SensorWrite ==
  /\ sensor = "write"
  /\ failed' \in BOOLEAN
  /\ stored' = IF failed' THEN stored ELSE Interval(s_mail.value)
  /\ written' = IF failed' THEN written ELSE s_mail.value
  /\ current_cycle_interval' = Interval(s_mail.value)
  /\ sensor' = "free"
  /\ UNCHANGED <<cbVars, arrVars, evVars, ctlVars, s_block, s_mail, respVars, comVars, acked,
                 tainted, cut, resets>>

\* Variant: every mail is freed twice, also one that was refused.
SensorFreesTwice ==
  /\ sensor = "free"
  /\ PoolBecomes(Freed(Freed(Pool, s_block), s_block))
  /\ tainted' = (tainted \/ (Accepts(s_mail) /\ ctl_used > 0))
  /\ sensor' = "loop" /\ s_block' = NoBlock /\ s_mail' = NoMail
  /\ UNCHANGED <<cbVars, arrVars, evVars, mem, ctl_box, current_cycle_interval, stored, respVars,
                 comVars, acked, written, cut, failed, resets>>

\* The free every mail reaches: the second one of an accepted command.
SensorFree ==
  /\ sensor = "free"
  /\ PoolBecomes(Freed(Pool, s_block))
  /\ tainted' = (tainted \/ (Accepts(s_mail) /\ ctl_used > 0))
  /\ sensor' = "loop" /\ s_block' = NoBlock /\ s_mail' = NoMail
  /\ UNCHANGED <<cbVars, arrVars, evVars, mem, ctl_box, current_cycle_interval, stored, respVars,
                 comVars, acked, written, cut, failed, resets>>

-----------------------------------------------------------------------------
(* communications_controller_thread.  A round is a packet, if there is one, *)
(* a response, if there is one, and a reconnection, if the latest Publish   *)
(* that there was failed.                                                   *)

CommsPacket ==
  /\ comms = "packet"
  /\ comms' \in {"lock_mqtt", "response"}
  /\ UNCHANGED <<cbVars, arrVars, evVars, ctlVars, senVars, stored, respVars, reply, answered, history>>

\* Variant: the newest response first.
CommsGetNewest ==
  /\ comms = "response" /\ responses # <<>>
  /\ reply' = responses[Len(responses)]
  /\ responses' = SubSeq(responses, 1, Len(responses) - 1)
  /\ comms' = "lock_mqtt"
  /\ UNCHANGED <<cbVars, arrVars, evVars, ctlVars, senVars, stored, resp_used, answered, history>>

CommsGet ==
  /\ comms = "response" /\ responses # <<>>
  /\ reply' = Head(responses) /\ responses' = Tail(responses)
  /\ comms' = "lock_mqtt"
  /\ UNCHANGED <<cbVars, arrVars, evVars, ctlVars, senVars, stored, resp_used, answered, history>>

CommsGetNothing ==
  /\ comms = "response" /\ responses = <<>>
  /\ comms' \in {"packet", "reconnect"}
  /\ UNCHANGED <<cbVars, arrVars, evVars, ctlVars, senVars, stored, respVars, reply, answered, history>>

CommsLockMqtt ==
  /\ comms = "lock_mqtt"
  /\ comms' = "lock_stdio"
  /\ UNCHANGED <<cbVars, arrVars, evVars, ctlVars, senVars, stored, respVars, reply, answered, history>>

\* The first step of Publish.
CommsLockStdio ==
  /\ comms = "lock_stdio"
  /\ comms' = "publish"
  /\ UNCHANGED <<cbVars, arrVars, evVars, ctlVars, senVars, stored, respVars, reply, answered, history>>

\* The broker takes it or it is lost, whatever Publish returns; both mutexes are released.
CommsPublish ==
  /\ comms = "publish"
  /\ answered' \in {answered} \cup ({reply} \ {NoReply})
  /\ comms' = IF reply = NoReply THEN "response" ELSE "free"
  /\ UNCHANGED <<cbVars, arrVars, evVars, ctlVars, senVars, stored, respVars, reply, history>>

CommsFree ==
  /\ comms = "free"
  /\ resp_used' = resp_used - 1 /\ reply' = NoReply
  /\ comms' \in {"packet", "reconnect"}
  /\ UNCHANGED <<cbVars, arrVars, evVars, ctlVars, senVars, stored, responses, answered, history>>

\* Reconnect returns; one that fails too often ends in a Reboot.
CommsReconnect ==
  /\ comms = "reconnect"
  /\ comms' = "packet"
  /\ UNCHANGED <<cbVars, arrVars, evVars, ctlVars, senVars, stored, respVars, reply, answered, history>>

-----------------------------------------------------------------------------
Callback == CallbackCalloc \/ CallbackPut
Event    == EventGet \/ EventCalloc \/ EventPut \/ EventFree
Sensor   == SensorGet \/ SensorRespondCalloc \/ SensorRespondPut \/ SensorFreeAccepted
            \/ SensorWrite \/ SensorFree
Comms    == CommsPacket \/ CommsGet \/ CommsGetNothing \/ CommsPublish \/ CommsFree
CommsWait == CommsLockMqtt \/ CommsLockStdio \/ CommsReconnect

Next == Arrive \/ Callback \/ Event \/ EventFault \/ Sensor \/ Comms \/ CommsWait \/ Reboot

\* All threads have one priority.  Only the comms thread waits here for a mutex or the broker,
\* and nothing is assumed of either; a sensor thread that waits for a block of its own mailbox
\* waits, over behavior_coordinator_thread, for the comms thread.
Fairness == /\ WF_vars(Callback) /\ WF_vars(Event \/ EventFault) /\ WF_vars(Sensor)
            /\ WF_vars(Comms)

Spec     == Init /\ [][Next]_vars
FairSpec == Spec /\ Fairness

-----------------------------------------------------------------------------
(* Properties *)

\* Control points and ranges; the counters of the three pools never pass their sizes.
TypeOK ==
  /\ sent \in Nat /\ arrivals \in Nat /\ callback \in Seq(Parameter) /\ c_block \in BOOLEAN
  /\ arrived \in Seq(Parameter)
  /\ arrived_used \in 0..ArrivedSize /\ resp_used \in 0..ResponseSize
  /\ ctl_used \in 0..ControlSize
  /\ heads \in 0..Heap /\ word \in [Blocks -> 0..Heap]
  /\ mem \in [Blocks -> Mail] /\ ctl_box \in Seq(Blocks)
  /\ event \in {"loop", "calloc", "fill", "free"} /\ e_mail \in Mail /\ e_block \in 0..ControlSize
  /\ sensor \in {"loop", "respond", "put", "free_accepted", "write", "free"}
  /\ s_block \in 0..ControlSize /\ s_mail \in Mail
  /\ current_cycle_interval \in Int /\ stored \in Int
  /\ responses \in Seq(Nat)
  /\ comms \in {"packet", "response", "lock_mqtt", "lock_stdio", "publish", "free", "reconnect"}
  /\ reply \in Nat \cup {NoReply} /\ answered \in Nat
  /\ acked \in Int /\ written \in Int /\ tainted \in BOOLEAN /\ cut \in BOOLEAN
  /\ failed \in BOOLEAN /\ resets \in Nat

Count(b) == IF b THEN 1 ELSE 0

\* The blocks of mqtt_arrived_mail_box and service_response_mail_box are exactly the queued
\* mails and those a thread has in hand: neither the callback, event_manager_thread nor the
\* answer to a command leaks one or frees one twice.
MailAccounting ==
  /\ arrived_used = Len(arrived) + Count(c_block) + Count(event # "loop")
  /\ resp_used = Len(responses) + Count(sensor = "put") + Count(reply # NoReply)

SensorOwnsBlock == sensor \in {"respond", "put", "free_accepted"}
                   \/ (sensor = "free" /\ ~Accepts(s_mail))

\* Who refers to a control block: the queue, the thread that fills it, the one that reads it.
Owners(b) == Cardinality({i \in 1..Len(ctl_box) : ctl_box[i] = b}) + Count(e_block = b)
             + Count(s_block = b /\ SensorOwnsBlock)

\* A control block has one owner, unless an accepted command was freed at the end of
\* execute_sensor_control a second time while another control mail was in use.
OneOwner == ~tainted => \A b \in Blocks : Owners(b) <= 1

\* The blocks in use of sensor_control_mail_box are those queued and in hand: none leaks, and
\* until that second free none is missing from the count.
InHand == Len(ctl_box) + Count(event = "fill") + Count(SensorOwnsBlock)
ControlAccounting == ctl_used <= InHand /\ (~tainted => ctl_used = InHand)

\* No block of the three pools leaks, and none is freed twice or handed to two threads but
\* through the second free of an accepted command (sensor_thread.cpp:41, :45).
BlocksAccounted == MailAccounting /\ OneOwner /\ ControlAccounting

\* The cloud gets at most one answer to a command, and answers in the order of the commands,
\* across full mailboxes, refused values and resets, as long as no block has two owners.
AnsweredInOrder == [][answered' # answered /\ ~tainted => answered' > answered]_vars

\* The interval in flash is the one of the last command that was answered
\* "poll_rate_updated", unless the sensor thread is still about to write it, power was cut
\* between the answer and the write, or the write failed, which the cloud is not told.
AboutToStore == sensor \in {"free_accepted", "write"}
AnswerMeansStored ==
  acked # 0 => stored = Interval(acked) \/ AboutToStore \/ cut \/ failed

\* The interval in flash is the default or that of a command whose value is not below the
\* lower bound of sensor_thread.cpp:37; it is short only by the overflow of value*1000.
StoredWasAccepted ==
  /\ stored = IF written = 0 THEN Default ELSE Interval(written)
  /\ written # 0 => written >= LowestBound
  /\ stored < LowestBound * 1000 => written * 1000 > IntMax

\* The interval in use is the one in flash, unless the write failed: then it is the one that
\* was answered, until the next reset.
UsedAsStored ==
  current_cycle_interval # stored
    => AboutToStore \/ (failed /\ current_cycle_interval = Interval(acked))

\* What the cloud is told of an interval is what flash and the sensor thread hold, and what
\* they hold was accepted as it is: only power loss, a failing kv_set and the product's
\* overflow come between.
IntervalAsAnswered == AnswerMeansStored /\ StoredWasAccepted /\ UsedAsStored

\* "Lowest bound - 10 seconds" (sensor_thread.cpp:37).
AtLeastTenSeconds == stored >= LowestBound * 1000

\* The comms thread waits for a mutex, or for a reconnection to end: for ever if another thread
\* keeps the mutex, as behavior_coordinator_thread may, or if the broker stays silent.
CommsBlocked == comms \in {"lock_mqtt", "lock_stdio", "reconnect"}

\* No command is on its way, and no thread has one in hand.
Drained ==
  /\ callback = <<>> /\ arrived = <<>> /\ ctl_box = <<>> /\ responses = <<>>
  /\ event = "loop" /\ sensor = "loop" /\ reply = NoReply

\* When the cloud sends no more, every parameter that arrived is worked off (answered, refused
\* or lost to a reset): the chain of four mailboxes drains, whichever of them is full, unless
\* the comms thread at its end waits for ever for a mutex or for a reconnection.
WorkedOff == []<>~CommsBlocked => <>[]Drained
=============================================================================
