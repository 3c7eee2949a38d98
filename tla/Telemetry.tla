------------------------------ MODULE Telemetry ------------------------------
(***************************************************************************)
(* The measurement path of the firmware.                                   *)
(*                                                                         *)
(*   sensor_thread --llp_sensor_mail_box--> behavior_coordinator_thread    *)
(*      --comms_upstream_mail_box--> communications_controller_thread      *)
(*      --DecadaManager::Publish--> broker                                 *)
(*                                                                         *)
(* The threads have equal priority and are preempted anywhere, so every    *)
(* access to a mailbox or a mutex is a step of its own; what a thread does *)
(* to its local variables between two accesses belongs to the next one.    *)
(* DecadaManager::Reconnect appears by the mutex it takes and by the two   *)
(* ways it ends: it returns, or it resets the board.                       *)
(***************************************************************************)
EXTENDS Integers, Sequences

CONSTANTS LlpSize,    \* blocks of llp_sensor_mail_box (256 in the code)
          UpSize,     \* blocks of comms_upstream_mail_box (256 in the code)
          MaxPolls,   \* bound: polls of the sensors
          MaxResets   \* bound: calls of NVIC_SystemReset

ASSUME SizeAssumption == LlpSize \in Nat \ {0} /\ UpSize \in Nat \ {0}

ASSUME BoundAssumption == MaxPolls \in Nat /\ MaxResets \in Nat

VARIABLES
  stdio_mutex, mqtt_mutex,  \* the thread that holds it, or "none"
  mqtt_ok,                  \* FLAG_MQTT_OK of event_flags
  llp_box, llp_used,        \* queued mails; blocks allocated from the pool
  up_box, up_used,
  sensor, poll, s_mail,     \* sensor_thread: control, number of the poll, mail in hand
  behavior, b_mail, profile, \* behavior_coordinator_thread: control, latest mail,
                            \* entity_value_pairs_
  comms, payload, pub_ok,   \* communications_controller_thread
  submgr,                   \* subscription_manager_thread
  published,                \* history: packets the broker took
  resets                    \* history: resets so far

bootVars == <<stdio_mutex, mqtt_mutex, mqtt_ok>>
llpVars  == <<llp_box, llp_used>>
upVars   == <<up_box, up_used>>
sVars    == <<sensor, poll, s_mail>>
bVars    == <<behavior, b_mail, profile>>
cVars    == <<comms, payload, pub_ok>>
history  == <<published, resets>>
vars     == <<bootVars, llpVars, upVars, sVars, bVars, cVars, submgr, history>>

-----------------------------------------------------------------------------
(* Data.  A mail's time stamp and a reading are both represented by the     *)
(* number of the poll they belong to; 0 is "no reading".  A packet carries  *)
(* the measure points; `of', the poll whose footer released it, is history. *)

Polls   == Nat \ {0}
Mail    == [kind : {"start", "data", "end"}, poll : Nat]
Packet  == [of : Nat, reading : Nat]
NoMail  == [kind |-> "none", poll |-> 0]
NoPacket == [of |-> 0, reading |-> 0]
Silence == [kind |-> "end", poll |-> 0]    \* before the first mail of a boot

NextKind(k) == IF k = "start" THEN {"data", "end"}
               ELSE IF k = "data" THEN {"end"} ELSE {"idle"}

Init ==
  /\ stdio_mutex = "none" /\ mqtt_mutex = "none" /\ mqtt_ok = FALSE
  /\ llp_box = <<>> /\ llp_used = 0 /\ up_box = <<>> /\ up_used = 0
  /\ sensor = "idle" /\ poll = 0 /\ s_mail = NoMail
  /\ behavior = "loop" /\ b_mail = Silence /\ profile = 0
  /\ comms = "boot" /\ payload = NoPacket /\ pub_ok = TRUE
  /\ submgr = "idle"
  /\ published = <<>> /\ resets = 0

-----------------------------------------------------------------------------
(* sensor_thread *)

\* An iteration with poll_counter = 0.
SensorPoll ==
  /\ sensor = "idle" /\ mqtt_ok /\ poll < MaxPolls
  /\ poll' = poll + 1
  /\ sensor' = "start"
  /\ UNCHANGED <<bootVars, llpVars, upVars, s_mail, bVars, cVars, submgr, history>>

\* try_calloc returned a block; while it returns NULL the thread spins.
SensorCalloc ==
  /\ sensor \in {"start", "data", "end"} /\ s_mail = NoMail
  /\ llp_used < LlpSize
  /\ llp_used' = llp_used + 1
  /\ s_mail' = [kind |-> sensor, poll |-> poll]
  /\ UNCHANGED <<bootVars, llp_box, upVars, sensor, poll, bVars, cVars, submgr, history>>

\* put; after the "start" header GetData decides whether a reading follows.
SensorPut ==
  /\ s_mail # NoMail
  /\ llp_box' = Append(llp_box, s_mail)
  /\ s_mail' = NoMail
  /\ sensor' \in NextKind(sensor)
  /\ UNCHANGED <<bootVars, llp_used, upVars, poll, bVars, cVars, submgr, history>>

-----------------------------------------------------------------------------
(* behavior_coordinator_thread *)

BehaviorGet ==
  /\ behavior = "loop" /\ mqtt_ok /\ llp_box # <<>>
  /\ b_mail' = Head(llp_box)
  /\ llp_box' = Tail(llp_box)
  /\ behavior' = "apply"
  /\ UNCHANGED <<bootVars, llp_used, upVars, sVars, profile, cVars, submgr, history>>

\* Variant: the profile is not cleared at the start of a stream.
ProfileNotCleared(m) == IF m.kind = "data" THEN m.poll ELSE profile

\* SensorProfile::ClearEntityList on the header, UpdateValue on a reading.
ProfileAfter(m) == IF m.kind = "start" THEN 0
                   ELSE IF m.kind = "data" THEN m.poll ELSE profile

\* Variant: the two header values are told apart the wrong way round.
ReleasesOnStart(m) == m.kind = "start"

\* A header mail other than "start" ends the stream and sets send_packets.
ReleasesPacket(m) == m.kind = "end"

\* Variant: the branch of a reading frees the block, and the common path frees it again.
BehaviorFreesTwice ==
  /\ behavior = "apply"
  /\ profile' = ProfileAfter(b_mail)
  /\ llp_used' = IF b_mail.kind = "data" THEN llp_used - 2 ELSE llp_used - 1
  /\ behavior' = IF ReleasesPacket(b_mail) THEN "lock" ELSE "loop"
  /\ UNCHANGED <<bootVars, llp_box, upVars, sVars, b_mail, cVars, submgr, history>>

\* The mail is applied and its block freed; a footer sets send_packets.
BehaviorApply ==
  /\ behavior = "apply"
  /\ profile' = ProfileAfter(b_mail)
  /\ llp_used' = llp_used - 1
  /\ behavior' = IF ReleasesPacket(b_mail) THEN "lock" ELSE "loop"
  /\ UNCHANGED <<bootVars, llp_box, upVars, sVars, b_mail, cVars, submgr, history>>

BehaviorLock ==
  /\ behavior = "lock" /\ stdio_mutex = "none"
  /\ stdio_mutex' = "behavior"
  /\ behavior' = "calloc"
  /\ UNCHANGED <<mqtt_mutex, mqtt_ok, llpVars, upVars, sVars, b_mail, profile, cVars,
                 submgr, history>>

\* try_calloc under stdio_mutex; the spin on NULL does not release it.
BehaviorCalloc ==
  /\ behavior = "calloc" /\ up_used < UpSize
  /\ up_used' = up_used + 1
  /\ behavior' = "put"
  /\ UNCHANGED <<bootVars, llpVars, up_box, sVars, b_mail, profile, cVars, submgr, history>>

\* SensorProfile::GetNewDecadaPacket.
GetNewDecadaPacket == [of |-> b_mail.poll, reading |-> profile]

BehaviorPut ==
  /\ behavior = "put"
  /\ up_box' = Append(up_box, GetNewDecadaPacket)
  /\ behavior' = "unlock"
  /\ UNCHANGED <<bootVars, llpVars, up_used, sVars, b_mail, profile, cVars, submgr, history>>

\* Variant: an iteration that leaves without stdio_mutex.unlock().
BehaviorKeepsStdio ==
  /\ behavior = "unlock"
  /\ behavior' = "loop"
  /\ UNCHANGED <<bootVars, llpVars, upVars, sVars, b_mail, profile, cVars, submgr, history>>

BehaviorUnlock ==
  /\ behavior = "unlock"
  /\ stdio_mutex' = "none"
  /\ behavior' = "loop"
  /\ UNCHANGED <<mqtt_mutex, mqtt_ok, llpVars, upVars, sVars, b_mail, profile, cVars,
                 submgr, history>>

-----------------------------------------------------------------------------
(* communications_controller_thread *)

\* Network, RTC, DecadaManager::Connect (its result is ignored), the flag.
CommsBoot ==
  /\ comms = "boot"
  /\ mqtt_ok' = TRUE
  /\ comms' = "loop"
  /\ UNCHANGED <<stdio_mutex, mqtt_mutex, llpVars, upVars, sVars, bVars, payload, pub_ok,
                 submgr, history>>

\* Variant: the newest packet first.
CommsGetNewest ==
  /\ comms = "loop" /\ up_box # <<>>
  /\ payload' = up_box[Len(up_box)]
  /\ up_box' = SubSeq(up_box, 1, Len(up_box) - 1)
  /\ comms' = "lock_mqtt"
  /\ UNCHANGED <<bootVars, llpVars, up_used, sVars, bVars, pub_ok, submgr, history>>

CommsGet ==
  /\ comms = "loop" /\ up_box # <<>>
  /\ payload' = Head(up_box)
  /\ up_box' = Tail(up_box)
  /\ comms' = "lock_mqtt"
  /\ UNCHANGED <<bootVars, llpVars, up_used, sVars, bVars, pub_ok, submgr, history>>

\* try_get_for timed out.
CommsGetNothing ==
  /\ comms = "loop" /\ up_box = <<>>
  /\ comms' = "respond"
  /\ UNCHANGED <<bootVars, llpVars, upVars, sVars, bVars, payload, pub_ok, submgr, history>>

CommsLockMqtt ==
  /\ comms = "lock_mqtt" /\ mqtt_mutex = "none"
  /\ mqtt_mutex' = "comms"
  /\ comms' = "lock_stdio"
  /\ UNCHANGED <<stdio_mutex, mqtt_ok, llpVars, upVars, sVars, bVars, payload, pub_ok,
                 submgr, history>>

\* DecadaManager::Publish begins.
CommsLockStdio ==
  /\ comms = "lock_stdio" /\ stdio_mutex = "none"
  /\ stdio_mutex' = "comms"
  /\ comms' = "publish"
  /\ UNCHANGED <<mqtt_mutex, mqtt_ok, llpVars, upVars, sVars, bVars, payload, pub_ok,
                 submgr, history>>

\* mqtt_client_->publish at QoS 0 with its result, then stdio_mutex.unlock.
CommsPublish ==
  /\ comms = "publish"
  /\ pub_ok' \in BOOLEAN
  /\ published' = IF pub_ok' THEN Append(published, payload) ELSE published
  /\ stdio_mutex' = "none"
  /\ comms' = "unlock_mqtt"
  /\ UNCHANGED <<mqtt_mutex, mqtt_ok, llpVars, upVars, sVars, bVars, payload, submgr, resets>>

CommsUnlockMqtt ==
  /\ comms = "unlock_mqtt"
  /\ mqtt_mutex' = "none"
  /\ comms' = "free"
  /\ UNCHANGED <<stdio_mutex, mqtt_ok, llpVars, upVars, sVars, bVars, payload, pub_ok,
                 submgr, history>>

\* Variant: a failed Publish skips the free.
CommsFreeIfPublished ==
  /\ comms = "free"
  /\ up_used' = IF pub_ok THEN up_used - 1 ELSE up_used
  /\ comms' = "respond"
  /\ UNCHANGED <<bootVars, llpVars, up_box, sVars, bVars, payload, pub_ok, submgr, history>>

CommsFree ==
  /\ comms = "free"
  /\ up_used' = up_used - 1
  /\ comms' = "respond"
  /\ UNCHANGED <<bootVars, llpVars, up_box, sVars, bVars, payload, pub_ok, submgr, history>>

\* service_response_mail_box is empty or not: its contents belong to the command path.
CommsNoResponse ==
  /\ comms = "respond"
  /\ comms' = "check"
  /\ UNCHANGED <<bootVars, llpVars, upVars, sVars, bVars, payload, pub_ok, submgr, history>>

CommsResponseLockMqtt ==
  /\ comms = "respond" /\ mqtt_mutex = "none"
  /\ mqtt_mutex' = "comms"
  /\ comms' = "r_stdio"
  /\ UNCHANGED <<stdio_mutex, mqtt_ok, llpVars, upVars, sVars, bVars, payload, pub_ok,
                 submgr, history>>

CommsResponseLockStdio ==
  /\ comms = "r_stdio" /\ stdio_mutex = "none"
  /\ stdio_mutex' = "comms"
  /\ comms' = "r_publish"
  /\ UNCHANGED <<mqtt_mutex, mqtt_ok, llpVars, upVars, sVars, bVars, payload, pub_ok,
                 submgr, history>>

\* Publish of the response: its result overwrites the one of the packet.
CommsResponsePublish ==
  /\ comms = "r_publish"
  /\ pub_ok' \in BOOLEAN
  /\ stdio_mutex' = "none"
  /\ comms' = "r_unlock"
  /\ UNCHANGED <<mqtt_mutex, mqtt_ok, llpVars, upVars, sVars, bVars, payload, submgr, history>>

CommsResponseUnlock ==
  /\ comms = "r_unlock"
  /\ mqtt_mutex' = "none"
  /\ comms' = "check"
  /\ UNCHANGED <<stdio_mutex, mqtt_ok, llpVars, upVars, sVars, bVars, payload, pub_ok,
                 submgr, history>>

\* pub_ok is still TRUE: next iteration.
CommsNext ==
  /\ comms = "check" /\ pub_ok
  /\ comms' = "loop"
  /\ UNCHANGED <<bootVars, llpVars, upVars, sVars, bVars, payload, pub_ok, submgr, history>>

-----------------------------------------------------------------------------
(* ReconnectMqttService, called by either thread.  The first attempt holds  *)
(* mqtt_mutex, the retries hold nothing; pub_ok is not touched.             *)

CommsReconnect ==
  /\ comms = "check" /\ ~pub_ok /\ mqtt_mutex = "none"
  /\ mqtt_mutex' = "comms"
  /\ comms' = "reconnect"
  /\ UNCHANGED <<stdio_mutex, mqtt_ok, llpVars, upVars, sVars, bVars, payload, pub_ok,
                 submgr, history>>

CommsReconnectUnlock ==
  /\ comms = "reconnect"
  /\ mqtt_mutex' = "none"
  /\ comms' \in {"loop", "retry"}
  /\ UNCHANGED <<stdio_mutex, mqtt_ok, llpVars, upVars, sVars, bVars, payload, pub_ok,
                 submgr, history>>

CommsRetryDone ==
  /\ comms = "retry"
  /\ comms' = "loop"
  /\ UNCHANGED <<bootVars, llpVars, upVars, sVars, bVars, payload, pub_ok, submgr, history>>

\* subscription_manager_thread found the session closed after yield.
SubReconnect ==
  /\ submgr = "idle" /\ mqtt_ok /\ mqtt_mutex = "none"
  /\ mqtt_mutex' = "submgr"
  /\ submgr' = "reconnect"
  /\ UNCHANGED <<stdio_mutex, mqtt_ok, llpVars, upVars, sVars, bVars, cVars, history>>

SubReconnectUnlock ==
  /\ submgr = "reconnect"
  /\ mqtt_mutex' = "none"
  /\ submgr' \in {"idle", "retry"}
  /\ UNCHANGED <<stdio_mutex, mqtt_ok, llpVars, upVars, sVars, bVars, cVars, history>>

SubRetryDone ==
  /\ submgr = "retry"
  /\ submgr' = "idle"
  /\ UNCHANGED <<bootVars, llpVars, upVars, sVars, bVars, cVars, history>>

\* NVIC_SystemReset after the last failed retry: RAM is lost, the threads restart.
SystemReset ==
  /\ comms = "retry" \/ submgr = "retry"
  /\ resets < MaxResets
  /\ resets' = resets + 1
  /\ stdio_mutex' = "none" /\ mqtt_mutex' = "none" /\ mqtt_ok' = FALSE
  /\ llp_box' = <<>> /\ llp_used' = 0 /\ up_box' = <<>> /\ up_used' = 0
  /\ sensor' = "idle" /\ s_mail' = NoMail
  /\ behavior' = "loop" /\ b_mail' = Silence /\ profile' = 0
  /\ comms' = "boot" /\ payload' = NoPacket /\ pub_ok' = TRUE
  /\ submgr' = "idle"
  /\ UNCHANGED <<poll, published>>

-----------------------------------------------------------------------------
Sensor   == SensorPoll \/ SensorCalloc \/ SensorPut
Behavior == BehaviorGet \/ BehaviorApply \/ BehaviorLock \/ BehaviorCalloc
            \/ BehaviorPut \/ BehaviorUnlock
CommsRespond == CommsNoResponse \/ CommsResponseLockMqtt \/ CommsResponseLockStdio
                \/ CommsResponsePublish \/ CommsResponseUnlock
Comms    == CommsBoot \/ CommsGet \/ CommsGetNothing \/ CommsLockMqtt \/ CommsLockStdio
            \/ CommsPublish \/ CommsUnlockMqtt \/ CommsFree
            \/ CommsRespond \/ CommsNext
            \/ CommsReconnect \/ CommsReconnectUnlock \/ CommsRetryDone
SubMgr   == SubReconnect \/ SubReconnectUnlock \/ SubRetryDone

Next == Sensor \/ Behavior \/ Comms \/ SubMgr \/ SystemReset

\* Every thread keeps running and mbed mutexes are handed to the longest waiter.
Fairness ==
  /\ WF_vars(Sensor) /\ WF_vars(Behavior) /\ WF_vars(Comms)
  /\ WF_vars(SubReconnectUnlock) /\ WF_vars(SubRetryDone)
  /\ SF_vars(BehaviorLock) /\ SF_vars(CommsLockStdio)
  /\ SF_vars(CommsResponseLockStdio)
  /\ SF_vars(CommsLockMqtt) /\ SF_vars(CommsReconnect)

Spec     == Init /\ [][Next]_vars
FairSpec == Spec /\ Fairness

-----------------------------------------------------------------------------
(* Properties *)

\* Pool counters stay natural numbers (free is never called on an empty pool) and every
\* thread is at one of its control points.
TypeOK ==
  /\ stdio_mutex \in {"none", "behavior", "comms"}
  /\ mqtt_mutex \in {"none", "comms", "submgr"}
  /\ mqtt_ok \in BOOLEAN
  /\ llp_box \in Seq(Mail) /\ llp_used \in Nat
  /\ up_box \in Seq(Packet) /\ up_used \in Nat
  /\ sensor \in {"idle", "start", "data", "end"}
  /\ poll \in Nat
  /\ s_mail \in Mail \cup {NoMail}
  /\ behavior \in {"loop", "apply", "lock", "calloc", "put", "unlock"}
  /\ b_mail \in Mail
  /\ profile \in Nat
  /\ comms \in {"boot", "loop", "lock_mqtt", "lock_stdio", "publish", "unlock_mqtt",
                "free", "respond", "r_stdio", "r_publish", "r_unlock", "check", "reconnect",
                "retry"}
  /\ payload \in Packet
  /\ pub_ok \in BOOLEAN
  /\ submgr \in {"idle", "reconnect", "retry"}
  /\ published \in Seq(Packet)
  /\ resets \in Nat

Count(b) == IF b THEN 1 ELSE 0

CommsHoldsBlock == comms \in {"lock_mqtt", "lock_stdio", "publish", "unlock_mqtt", "free"}

LlpAccounting ==
  /\ llp_used = Len(llp_box) + Count(s_mail # NoMail) + Count(behavior = "apply")
  /\ llp_used <= LlpSize

UpAccounting ==
  /\ up_used = Len(up_box) + Count(behavior = "put") + Count(CommsHoldsBlock)
  /\ up_used <= UpSize

\* No mailbox block leaks and none is freed twice: the blocks taken from each pool
\* are exactly the queued mails plus those a thread has in hand (try_calloc, put,
\* try_get_for and free of both mailboxes, across errors of Publish and reconnects).
\* With it put never meets a full queue: a queue has as many places as its pool blocks.
SlotAccounting == LlpAccounting /\ UpAccounting

\* A packet the broker took holds the reading of the poll whose footer released it
\* or, when GetData failed in that poll, none: never one of an earlier poll
\* (ClearEntityList, UpdateValue and the mail order between two threads).
FreshPackets ==
  \A i \in 1..Len(published) : published[i].reading \in {0, published[i].of}

\* The broker sees polls in the order they were taken and none twice, also across
\* failed publishes, reconnects and resets.
PublishedInOrder ==
  \A i, j \in 1..Len(published) : i < j => published[i].of < published[j].of

\* The behavior thread spins for an upstream block with stdio_mutex in hand while the
\* comms thread, which alone frees blocks, waits for stdio_mutex inside Publish.
WaitCycle ==
  behavior = "calloc" /\ up_used = UpSize /\ comms \in {"lock_stdio", "r_stdio"}

-----------------------------------------------------------------------------
(* The measurement path implements TelemetryService. *)

ReadingOf(n) ==
  IF \/ \E i \in 1..Len(llp_box) : llp_box[i] = [kind |-> "data", poll |-> n]
     \/ behavior = "apply" /\ b_mail = [kind |-> "data", poll |-> n]
     \/ profile = n
  THEN n ELSE 0

\* The footers of a stream of mails, in order.
FootersOf(mails) ==
  LET upTo[i \in 0..Len(mails)] ==
        IF i = 0 THEN <<>>
        ELSE IF mails[i].kind = "end" THEN Append(upTo[i-1], mails[i]) ELSE upTo[i-1]
  IN upTo[Len(mails)]

\* The packets of completed polls: in the hands of the comms thread, queued, being made by
\* the behavior thread, and those the footers still queued will release.
Held == IF comms \in {"lock_mqtt", "lock_stdio", "publish"} THEN <<payload>> ELSE <<>>
Making == IF behavior \in {"lock", "calloc", "put"} \/ (behavior = "apply" /\ b_mail.kind = "end")
          THEN <<GetNewDecadaPacket>> ELSE <<>>
Due == [i \in 1..Len(FootersOf(llp_box)) |->
          [of |-> FootersOf(llp_box)[i].poll,
           reading |-> ReadingOf(FootersOf(llp_box)[i].poll)]]

Pending == Held \o up_box \o Making \o Due

InFlight(n) == \E i \in 1..Len(Pending) : Pending[i].of = n

\* Every completed poll is eventually handed to Publish (or lost to a reset), unless the
\* two threads have blocked each other: there is no other way to get stuck.
HandedOrWaitCycle == \A n \in 1..MaxPolls : InFlight(n) ~> (~InFlight(n) \/ WaitCycle)

\* The same without the escape, for a pool that is never exhausted.
HandedOver == \A n \in 1..MaxPolls : InFlight(n) ~> ~InFlight(n)

Service == INSTANCE TelemetryService WITH open <- sensor # "idle", pending <- Pending

\* Every step of the threads is a step of TelemetryService or changes nothing it sees.
ImplementsService == Service!Spec
=============================================================================
