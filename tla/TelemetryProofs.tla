--------------------------- MODULE TelemetryProofs ---------------------------
(***************************************************************************)
(* Proofs about the measurement path, for any pool sizes and any number of *)
(* polls and resets.  SlotAccounting is inductive with TypeOK; for the     *)
(* other two the invariant says what the mails in flight and the packets   *)
(* in flight look like between the sensors and the broker.  The last part  *)
(* shows that the threads implement TelemetryService.                      *)
(***************************************************************************)
EXTENDS Telemetry, SequenceTheorems, WellFoundedInduction, TLAPS

(* The mails between the sensor thread and the behavior thread.             *)

\* m2 comes later than m1 in the stream of mails.
Precedes(m1, m2) == m1.poll <= m2.poll /\ (m1.kind = "end" => m1.poll < m2.poll)

\* A footer comes right behind another mail of the same poll.
Follows(m1, m2) == m2.kind = "end" => m1.kind # "end" /\ m1.poll = m2.poll

Last == IF Len(llp_box) = 0 THEN b_mail ELSE llp_box[Len(llp_box)]

StreamInv ==
  /\ \A i, j \in 1..Len(llp_box) : i < j => Precedes(llp_box[i], llp_box[j])
  /\ \A i \in 1..Len(llp_box) :
       /\ Precedes(b_mail, llp_box[i])
       /\ llp_box[i].poll <= poll
       /\ llp_box[i].kind = "end" /\ sensor # "idle" => llp_box[i].poll < poll
       /\ i = 1 => Follows(b_mail, llp_box[i])
       /\ i > 1 => Follows(llp_box[i-1], llp_box[i])
  /\ b_mail.poll <= poll
  /\ b_mail.kind = "end" /\ sensor # "idle" => b_mail.poll < poll
  /\ sensor = "end" => Last.kind # "end" /\ Last.poll = poll
  /\ s_mail # NoMail => s_mail = [kind |-> sensor, poll |-> poll] /\ sensor # "idle"

(* The packets between the behavior thread and the broker.                  *)

\* The latest mail belongs to a poll whose packet is not yet in up_box.
Unreported == behavior \in {"apply", "lock", "calloc", "put"} \/ b_mail.kind # "end"

ProfileFits == profile \in {0, b_mail.poll}

FreshInv ==
  /\ behavior \in {"lock", "calloc", "put", "unlock"} => b_mail.kind = "end"
  /\ behavior \in {"lock", "calloc", "put"} => ProfileFits
  /\ behavior = "apply" /\ b_mail.kind = "end" => ProfileFits
  /\ behavior = "loop" /\ b_mail.kind # "end" => ProfileFits
  /\ \A i \in 1..Len(up_box) : up_box[i].reading \in {0, up_box[i].of}
  /\ payload.reading \in {0, payload.of}
  /\ FreshPackets

Unpublished == comms \in {"lock_mqtt", "lock_stdio", "publish"}

\* Every packet made so far belongs to a poll before n.
Above(n) ==
  /\ \A i \in 1..Len(published) : published[i].of < n
  /\ \A i \in 1..Len(up_box) : up_box[i].of < n
  /\ Unpublished => payload.of < n

OrderInv ==
  /\ PublishedInOrder
  /\ \A i, j \in 1..Len(up_box) : i < j => up_box[i].of < up_box[j].of
  /\ \A i \in 1..Len(published), j \in 1..Len(up_box) : published[i].of < up_box[j].of
  /\ Unpublished => /\ \A i \in 1..Len(published) : published[i].of < payload.of
                    /\ \A i \in 1..Len(up_box) : payload.of < up_box[i].of
  /\ \A i \in 1..Len(llp_box) : Above(llp_box[i].poll)
  /\ Unreported => Above(b_mail.poll)
  /\ Above(IF sensor = "idle" THEN poll + 1 ELSE poll)

(* A header "start" is the first mail of its poll, so that SensorProfile is cleared before *)
(* it holds a reading of that poll.                                                        *)
StartInv ==
  /\ profile <= b_mail.poll
  /\ behavior = "apply" /\ b_mail.kind = "start" => profile < b_mail.poll
  /\ \A i \in 1..Len(llp_box) : llp_box[i].kind = "start" =>
       /\ b_mail.poll < llp_box[i].poll
       /\ \A j \in 1..i-1 : llp_box[j].poll < llp_box[i].poll
  /\ sensor = "start" => /\ b_mail.poll < poll
                         /\ \A i \in 1..Len(llp_box) : llp_box[i].poll < poll

IInv == TypeOK /\ SlotAccounting /\ StreamInv /\ FreshInv /\ OrderInv /\ StartInv

-----------------------------------------------------------------------------
(* Sequences *)

\* Append adds one element at the end and keeps the others where they are.
LEMMA AppendFacts ==
  ASSUME NEW S, NEW s \in Seq(S), NEW e \in S
  PROVE  /\ Append(s, e) \in Seq(S)
         /\ Len(Append(s, e)) = Len(s) + 1
         /\ \A i \in 1..Len(s) : Append(s, e)[i] = s[i]
         /\ Append(s, e)[Len(s) + 1] = e
         /\ Append(s, e) # <<>>
         /\ Len(s) \in Nat
  OBVIOUS

\* Tail drops the first element and moves the others down by one.
LEMMA TailFacts ==
  ASSUME NEW S, NEW s \in Seq(S), s # <<>>
  PROVE  /\ Tail(s) \in Seq(S)
         /\ Len(Tail(s)) = Len(s) - 1
         /\ \A i \in 1..Len(Tail(s)) : Tail(s)[i] = s[i + 1]
         /\ Head(s) = s[1] /\ Head(s) \in S
         /\ Len(s) \in Nat \ {0}
  <1>1. Len(s) \in Nat \ {0}
    BY EmptySeq
  <1>2. /\ Head(s) \in S /\ Tail(s) \in Seq(S) /\ Len(Tail(s)) = Len(s) - 1
        /\ \A i \in 1..Len(Tail(s)) : Tail(s)[i] = s[i + 1]
    BY HeadTailProperties
  <1>4. Head(s) = s[1]
    BY <1>1
  <1> QED
    BY <1>1, <1>2, <1>4

-----------------------------------------------------------------------------
(* Types and slots *)

\* Every step keeps the types; that a free never takes a counter below zero needs the
\* accounting of the blocks.
LEMMA TypeStep == TypeOK /\ SlotAccounting /\ [Next]_vars => TypeOK'
<1> SUFFICES ASSUME TypeOK, SlotAccounting, [Next]_vars
             PROVE  TypeOK'
  OBVIOUS
<1>1. CASE SensorPoll
  BY <1>1 DEF SensorPoll, TypeOK, bootVars, llpVars, upVars, sVars, bVars, cVars, history
<1>2. CASE BehaviorCalloc
  BY <1>2 DEF BehaviorCalloc, TypeOK, bootVars, llpVars, upVars, sVars, bVars, cVars,
      history
<1>3. CASE CommsBoot
  BY <1>3 DEF CommsBoot, TypeOK, bootVars, llpVars, upVars, sVars, bVars, cVars, history
<1>4. CASE SensorCalloc
  BY <1>4 DEF SensorCalloc, TypeOK, Mail, bootVars, llpVars, upVars, sVars, bVars, cVars,
      history
<1>5. CASE SensorPut
  BY <1>5, AppendFacts DEF SensorPut, TypeOK, NextKind, NoMail, bootVars, llpVars,
      upVars, sVars, bVars, cVars, history
<1>6. CASE BehaviorGet
  BY <1>6, TailFacts DEF BehaviorGet, TypeOK, bootVars, llpVars, upVars, sVars, bVars,
      cVars, history
<1>7. CASE BehaviorApply
  BY <1>7 DEF BehaviorApply, TypeOK, SlotAccounting, LlpAccounting, Count, ProfileAfter,
      ReleasesPacket, Mail, bootVars, llpVars, upVars, sVars, bVars, cVars, history
<1>8. CASE BehaviorPut
  BY <1>8, AppendFacts DEF BehaviorPut, TypeOK, GetNewDecadaPacket, Packet, Mail,
      bootVars, llpVars, upVars, sVars, bVars, cVars, history
<1>9. CASE CommsGet
  BY <1>9, TailFacts DEF CommsGet, TypeOK, bootVars, llpVars, upVars, sVars, bVars,
      cVars, history
<1>10. CASE CommsPublish
  BY <1>10, AppendFacts DEF CommsPublish, TypeOK, bootVars, llpVars, upVars, sVars, bVars,
      cVars, history
<1>11. CASE CommsFree
  <2>1. up_used - 1 \in Nat
    BY <1>11 DEF CommsFree, TypeOK, SlotAccounting, UpAccounting, Count, CommsHoldsBlock
  <2> QED
    BY <1>11, <2>1 DEF CommsFree, TypeOK, bootVars, llpVars, upVars, sVars, bVars, cVars,
        history
<1>12. CASE SystemReset
  <2>1. Silence \in Mail /\ NoPacket \in Packet
    BY DEF Silence, Mail, NoPacket, Packet
  <2>2. llp_box' \in Seq(Mail) /\ up_box' \in Seq(Packet)
    BY <1>12, EmptySeq DEF SystemReset
  <2>3. mqtt_ok' \in BOOLEAN /\ pub_ok' \in BOOLEAN
    BY <1>12 DEF SystemReset
  <2>4. resets' \in Nat /\ poll' \in Nat /\ published' \in Seq(Packet)
    BY <1>12 DEF SystemReset, TypeOK
  <2> QED
    BY <1>12, <2>1, <2>2, <2>3, <2>4 DEF SystemReset, TypeOK
<1>13. CASE \/ BehaviorLock \/ BehaviorUnlock \/ CommsGetNothing \/ CommsLockMqtt
            \/ CommsLockStdio \/ CommsUnlockMqtt \/ CommsNext \/ CommsRespond
            \/ CommsReconnect \/ CommsReconnectUnlock \/ CommsRetryDone \/ SubReconnect
            \/ SubReconnectUnlock \/ SubRetryDone
  BY <1>13 DEF BehaviorLock, BehaviorUnlock, CommsGetNothing, CommsLockMqtt,
      CommsLockStdio, CommsUnlockMqtt, CommsNext, CommsRespond,
      CommsNoResponse, CommsResponseLockMqtt, CommsResponseLockStdio,
      CommsResponsePublish, CommsResponseUnlock, CommsReconnect, CommsReconnectUnlock,
      CommsRetryDone, SubReconnect, SubReconnectUnlock, SubRetryDone, TypeOK, bootVars,
      llpVars, upVars, sVars, bVars, cVars, history
<1>14. CASE UNCHANGED vars
  BY <1>14 DEF vars, TypeOK, bootVars, llpVars, upVars, sVars, bVars, cVars, history
<1> QED
  BY <1>1, <1>2, <1>3, <1>4, <1>5, <1>6, <1>7, <1>8, <1>9, <1>10, <1>11, <1>12, <1>13,
      <1>14 DEF Next, Sensor, Behavior, Comms, SubMgr

\* A block of llp_sensor_mail_box moves from the pool to the sensor thread, the queue,
\* the behavior thread and back; no step loses or doubles it.
LEMMA LlpStep == TypeOK /\ LlpAccounting /\ [Next]_vars => LlpAccounting'
<1> SUFFICES ASSUME TypeOK, LlpAccounting, [Next]_vars
             PROVE  LlpAccounting'
  OBVIOUS
<1>a. /\ llp_used \in Nat /\ LlpSize \in Nat /\ Len(llp_box) \in Nat
      /\ Count(s_mail # NoMail) \in Nat /\ Count(behavior = "apply") \in Nat
  BY SizeAssumption, LenProperties DEF TypeOK, Count
<1>1. CASE SensorCalloc
  <2>1. llp_used < LlpSize /\ llp_used' = llp_used + 1 /\ Count(s_mail # NoMail) = 0 /\
      Count(s_mail' # NoMail) = 1 /\ UNCHANGED <<llp_box, behavior>>
    BY <1>1 DEF SensorCalloc, Count, NoMail, CommsHoldsBlock, bootVars, llpVars, upVars,
        sVars, bVars, cVars, history
  <2> QED
    BY <1>a, <2>1 DEF LlpAccounting
<1>2. CASE SensorPut
  <2>1. Len(llp_box') = Len(llp_box) + 1
    BY <1>2, AppendFacts DEF SensorPut, TypeOK
  <2>2. Count(s_mail # NoMail) = 1 /\ Count(s_mail' # NoMail) = 0 /\ UNCHANGED
      <<llp_used, behavior>>
    BY <1>2 DEF SensorPut, Count, NoMail, CommsHoldsBlock, bootVars, llpVars, upVars,
        sVars, bVars, cVars, history
  <2> QED
    BY <1>a, <2>1, <2>2 DEF LlpAccounting
<1>3. CASE BehaviorGet
  <2>1. Len(llp_box') = Len(llp_box) - 1
    BY <1>3, TailFacts DEF BehaviorGet, TypeOK
  <2>2. Count(behavior = "apply") = 0 /\ Count(behavior' = "apply") = 1 /\ UNCHANGED
      <<llp_used, s_mail>>
    BY <1>3 DEF BehaviorGet, Count, NoMail, CommsHoldsBlock, bootVars, llpVars, upVars,
        sVars, bVars, cVars, history
  <2> QED
    BY <1>a, <2>1, <2>2 DEF LlpAccounting
<1>4. CASE BehaviorApply
  <2>1. llp_used' = llp_used - 1 /\ Count(behavior = "apply") = 1 /\ Count(behavior' =
      "apply") = 0 /\ UNCHANGED <<llp_box, s_mail>>
    BY <1>4 DEF BehaviorApply, Count, NoMail, CommsHoldsBlock, bootVars, llpVars, upVars,
        sVars, bVars, cVars, history
  <2> QED
    BY <1>a, <2>1 DEF LlpAccounting
<1>5. CASE SystemReset
  BY <1>5, SizeAssumption, EmptySeq DEF SystemReset, LlpAccounting, Count
<1>6. CASE \/ SensorPoll \/ BehaviorLock \/ BehaviorCalloc \/ BehaviorPut
           \/ BehaviorUnlock \/ CommsBoot \/ CommsGet \/ CommsGetNothing \/ CommsLockMqtt
           \/ CommsLockStdio \/ CommsPublish \/ CommsUnlockMqtt \/ CommsFree \/ CommsNext
           \/ CommsRespond \/ CommsReconnect \/ CommsReconnectUnlock \/ CommsRetryDone
           \/ SubReconnect \/ SubReconnectUnlock \/ SubRetryDone
  BY <1>6 DEF SensorPoll, BehaviorLock, BehaviorCalloc, BehaviorPut, BehaviorUnlock,
      CommsBoot, CommsGet, CommsGetNothing, CommsLockMqtt, CommsLockStdio, CommsPublish,
      CommsUnlockMqtt, CommsFree, CommsNext, CommsRespond,
      CommsNoResponse, CommsResponseLockMqtt, CommsResponseLockStdio,
      CommsResponsePublish, CommsResponseUnlock, CommsReconnect, CommsReconnectUnlock,
      CommsRetryDone, SubReconnect, SubReconnectUnlock, SubRetryDone, LlpAccounting,
      Count, NoMail, bootVars, llpVars, upVars, sVars, bVars, cVars, history
<1>7. CASE UNCHANGED vars
  BY <1>7 DEF vars, LlpAccounting, Count, NoMail, bootVars, llpVars, upVars, sVars,
      bVars, cVars, history
<1> QED
  BY <1>1, <1>2, <1>3, <1>4, <1>5, <1>6, <1>7 DEF Next, Sensor, Behavior, Comms, SubMgr

\* The same for comms_upstream_mail_box, from the behavior to the comms thread.
LEMMA UpStep == TypeOK /\ UpAccounting /\ [Next]_vars => UpAccounting'
<1> SUFFICES ASSUME TypeOK, UpAccounting, [Next]_vars
             PROVE  UpAccounting'
  OBVIOUS
<1>a. /\ up_used \in Nat /\ UpSize \in Nat /\ Len(up_box) \in Nat
      /\ Count(behavior = "put") \in Nat /\ Count(CommsHoldsBlock) \in Nat
  BY SizeAssumption, LenProperties DEF TypeOK, Count
<1>1. CASE BehaviorCalloc
  <2>1. up_used < UpSize /\ up_used' = up_used + 1 /\ Count(behavior = "put") = 0 /\
      Count(behavior' = "put") = 1 /\ UNCHANGED <<up_box, comms>>
    BY <1>1 DEF BehaviorCalloc, Count, NoMail, CommsHoldsBlock, bootVars, llpVars,
        upVars, sVars, bVars, cVars, history
  <2> QED
    BY <1>a, <2>1 DEF UpAccounting, CommsHoldsBlock
<1>2. CASE BehaviorPut
  <2>1. Len(up_box') = Len(up_box) + 1
    <3>1. GetNewDecadaPacket \in Packet
      BY DEF GetNewDecadaPacket, Packet, Mail, TypeOK
    <3> QED
      BY <1>2, <3>1, AppendFacts DEF BehaviorPut, TypeOK
  <2>2. Count(behavior = "put") = 1 /\ Count(behavior' = "put") = 0 /\ UNCHANGED
      <<up_used, comms>>
    BY <1>2 DEF BehaviorPut, Count, NoMail, CommsHoldsBlock, bootVars, llpVars, upVars,
        sVars, bVars, cVars, history
  <2> QED
    BY <1>a, <2>1, <2>2 DEF UpAccounting, CommsHoldsBlock
<1>3. CASE CommsGet
  <2>1. Len(up_box') = Len(up_box) - 1
    BY <1>3, TailFacts DEF CommsGet, TypeOK
  <2>2. Count(CommsHoldsBlock) = 0 /\ Count(CommsHoldsBlock') = 1 /\ UNCHANGED
      <<up_used, behavior>>
    BY <1>3 DEF CommsGet, Count, NoMail, CommsHoldsBlock, bootVars, llpVars, upVars,
        sVars, bVars, cVars, history
  <2> QED
    BY <1>a, <2>1, <2>2 DEF UpAccounting
<1>4. CASE CommsFree
  <2>1. up_used' = up_used - 1 /\ Count(CommsHoldsBlock) = 1 /\ Count(CommsHoldsBlock')
      = 0 /\ UNCHANGED <<up_box, behavior>>
    BY <1>4 DEF CommsFree, Count, NoMail, CommsHoldsBlock, bootVars, llpVars, upVars,
        sVars, bVars, cVars, history
  <2> QED
    BY <1>a, <2>1 DEF UpAccounting
<1>5. CASE SystemReset
  BY <1>5, SizeAssumption, EmptySeq DEF SystemReset, UpAccounting, CommsHoldsBlock, Count
<1>6. CASE \/ SensorPoll \/ SensorCalloc \/ SensorPut \/ BehaviorGet \/ BehaviorApply
           \/ BehaviorLock \/ BehaviorUnlock \/ CommsBoot \/ CommsGetNothing
           \/ CommsLockMqtt \/ CommsLockStdio \/ CommsPublish \/ CommsUnlockMqtt
           \/ CommsNext \/ CommsRespond \/ CommsReconnect \/ CommsReconnectUnlock
           \/ CommsRetryDone \/ SubReconnect \/ SubReconnectUnlock \/ SubRetryDone
  BY <1>6 DEF SensorPoll, SensorCalloc, SensorPut, BehaviorGet, BehaviorApply,
      BehaviorLock, BehaviorUnlock, CommsBoot, CommsGetNothing, CommsLockMqtt,
      CommsLockStdio, CommsPublish, CommsUnlockMqtt, CommsNext, CommsRespond,
      CommsNoResponse, CommsResponseLockMqtt, CommsResponseLockStdio,
      CommsResponsePublish, CommsResponseUnlock, CommsReconnect,
      CommsReconnectUnlock, CommsRetryDone, SubReconnect, SubReconnectUnlock,
      SubRetryDone, UpAccounting, Count, CommsHoldsBlock, bootVars, llpVars, upVars,
      sVars, bVars, cVars, history
<1>7. CASE UNCHANGED vars
  BY <1>7 DEF vars, UpAccounting, Count, CommsHoldsBlock, bootVars, llpVars, upVars,
      sVars, bVars, cVars, history
<1> QED
  BY <1>1, <1>2, <1>3, <1>4, <1>5, <1>6, <1>7 DEF Next, Sensor, Behavior, Comms, SubMgr

-----------------------------------------------------------------------------
(* The stream of mails *)

\* The mails between the two threads remain a well-formed stream of polls.
LEMMA StreamStep == TypeOK /\ StreamInv /\ [Next]_vars => StreamInv'
<1> SUFFICES ASSUME TypeOK, StreamInv, [Next]_vars
             PROVE  StreamInv'
  OBVIOUS
<1>a. /\ Len(llp_box) \in Nat /\ poll \in Nat
      /\ b_mail \in Mail /\ b_mail.poll \in Nat
      /\ \A i \in 1..Len(llp_box) : llp_box[i] \in Mail /\ llp_box[i].poll \in Nat
  <2>1. \A m \in Mail : m.poll \in Nat
    BY DEF Mail
  <2>2. /\ Len(llp_box) \in Nat /\ poll \in Nat /\ b_mail \in Mail
        /\ \A i \in 1..Len(llp_box) : llp_box[i] \in Mail
    BY LenProperties, ElementOfSeq DEF TypeOK
  <2> QED
    BY <2>1, <2>2
<1>1. CASE SensorPoll
  BY <1>1, <1>a DEF SensorPoll, StreamInv, Precedes, Follows, Last, NoMail, bootVars,
      llpVars, upVars, sVars, bVars, cVars, history
<1>2. CASE SensorCalloc
  BY <1>2, <1>a DEF SensorCalloc, StreamInv, Precedes, Follows, Last, NoMail, bootVars,
      llpVars, upVars, sVars, bVars, cVars, history
<1>3. CASE SensorPut
  <2>1. /\ s_mail = [kind |-> sensor, poll |-> poll] /\ sensor # "idle"
        /\ s_mail \in Mail /\ s_mail.kind = sensor /\ s_mail.poll = poll
    BY <1>3 DEF SensorPut, StreamInv, TypeOK
  <2>2. /\ Len(llp_box') = Len(llp_box) + 1
        /\ \A i \in 1..Len(llp_box) : llp_box'[i] = llp_box[i]
        /\ llp_box'[Len(llp_box) + 1] = s_mail
    BY <1>3, <2>1, AppendFacts DEF SensorPut, TypeOK
  <2>3. /\ UNCHANGED <<poll, b_mail>> /\ s_mail' = NoMail
        /\ sensor = "end" => sensor' = "idle"
        /\ sensor # "end" => sensor' \in {"data", "end"}
    BY <1>3, <2>1 DEF SensorPut, NextKind, bVars, TypeOK
  <2>4. \A i, j \in 1..Len(llp_box') : i < j => Precedes(llp_box'[i], llp_box'[j])
    <3> SUFFICES ASSUME NEW i \in 1..Len(llp_box'), NEW j \in 1..Len(llp_box'), i < j
                 PROVE  Precedes(llp_box'[i], llp_box'[j])
      OBVIOUS
    <3>1. i \in 1..Len(llp_box) /\ llp_box'[i] = llp_box[i]
      BY <1>a, <2>2
    <3>2. CASE j \in 1..Len(llp_box)
      BY <2>2, <3>1, <3>2 DEF StreamInv
    <3>3. CASE j = Len(llp_box) + 1
      BY <2>1, <2>2, <3>1, <3>3 DEF StreamInv, Precedes
    <3> QED
      BY <1>a, <2>2, <3>2, <3>3
  <2>5. \A i \in 1..Len(llp_box') :
          /\ Precedes(b_mail, llp_box'[i])
          /\ llp_box'[i].poll <= poll
          /\ llp_box'[i].kind = "end" /\ sensor' # "idle" => llp_box'[i].poll < poll
    <3> SUFFICES ASSUME NEW i \in 1..Len(llp_box')
                 PROVE  /\ Precedes(b_mail, llp_box'[i])
                        /\ llp_box'[i].poll <= poll
                        /\ llp_box'[i].kind = "end" /\ sensor' # "idle"
                              => llp_box'[i].poll < poll
      OBVIOUS
    <3>1. CASE i \in 1..Len(llp_box)
      BY <1>a, <2>1, <2>2, <2>3, <3>1 DEF StreamInv
    <3>2. CASE i = Len(llp_box) + 1
      BY <1>a, <2>1, <2>2, <2>3, <3>2 DEF StreamInv, Precedes
    <3> QED
      BY <1>a, <2>2, <3>1, <3>2
  <2>6. \A i \in 1..Len(llp_box') :
          /\ i = 1 => Follows(b_mail, llp_box'[i])
          /\ i > 1 => Follows(llp_box'[i-1], llp_box'[i])
    <3> SUFFICES ASSUME NEW i \in 1..Len(llp_box')
                 PROVE  /\ i = 1 => Follows(b_mail, llp_box'[i])
                        /\ i > 1 => Follows(llp_box'[i-1], llp_box'[i])
      OBVIOUS
    <3>1. CASE i \in 1..Len(llp_box)
      <4>1. i > 1 => i - 1 \in 1..Len(llp_box)
        BY <1>a, <3>1
      <4> QED
        BY <2>2, <3>1, <4>1 DEF StreamInv
    <3>2. CASE i = Len(llp_box) + 1
      <4>1. Follows(Last, s_mail)
        BY <2>1 DEF StreamInv, Follows
      <4>2. i = 1 => Last = b_mail
        BY <1>a, <3>2 DEF Last
      <4>3. i > 1 => i - 1 \in 1..Len(llp_box) /\ Last = llp_box[i-1]
        BY <1>a, <3>2 DEF Last
      <4> QED
        BY <2>2, <3>2, <4>1, <4>2, <4>3
    <3> QED
      BY <1>a, <2>2, <3>1, <3>2
  <2>7. sensor' = "end" => Last'.kind # "end" /\ Last'.poll = poll
    BY <1>a, <2>1, <2>2, <2>3 DEF Last
  <2> QED
    BY <1>a, <2>1, <2>3, <2>4, <2>5, <2>6, <2>7 DEF StreamInv
<1>4. CASE BehaviorGet
  <2>1. /\ Len(llp_box') = Len(llp_box) - 1 /\ Len(llp_box) > 0
        /\ \A i \in 1..Len(llp_box') : llp_box'[i] = llp_box[i + 1]
        /\ b_mail' = llp_box[1]
    BY <1>4, TailFacts DEF BehaviorGet, TypeOK
  <2>a. 1 \in 1..Len(llp_box) /\ \A i \in 1..Len(llp_box') : i + 1 \in 1..Len(llp_box)
    BY <1>a, <2>1
  <2>2. UNCHANGED <<poll, sensor, s_mail>>
    BY <1>4 DEF BehaviorGet, sVars
  <2>3. \A i, j \in 1..Len(llp_box') : i < j => Precedes(llp_box'[i], llp_box'[j])
    <3> SUFFICES ASSUME NEW i \in 1..Len(llp_box'), NEW j \in 1..Len(llp_box'), i < j
                 PROVE  Precedes(llp_box'[i], llp_box'[j])
      OBVIOUS
    <3>1. i + 1 < j + 1 /\ i + 1 \in 1..Len(llp_box) /\ j + 1 \in 1..Len(llp_box)
      BY <1>a, <2>a
    <3> QED
      BY <2>1, <3>1 DEF StreamInv
  <2>4. \A i \in 1..Len(llp_box') :
          /\ Precedes(b_mail', llp_box'[i])
          /\ llp_box'[i].poll <= poll
          /\ llp_box'[i].kind = "end" /\ sensor # "idle" => llp_box'[i].poll < poll
    <3> SUFFICES ASSUME NEW i \in 1..Len(llp_box')
                 PROVE  /\ Precedes(b_mail', llp_box'[i])
                        /\ llp_box'[i].poll <= poll
                        /\ llp_box'[i].kind = "end" /\ sensor # "idle"
                              => llp_box'[i].poll < poll
      OBVIOUS
    <3>1. 1 < i + 1 /\ i + 1 \in 1..Len(llp_box)
      BY <1>a, <2>a
    <3> QED
      BY <2>1, <2>a, <3>1 DEF StreamInv
  <2>5. \A i \in 1..Len(llp_box') :
          /\ i = 1 => Follows(b_mail', llp_box'[i])
          /\ i > 1 => Follows(llp_box'[i-1], llp_box'[i])
    <3> SUFFICES ASSUME NEW i \in 1..Len(llp_box')
                 PROVE  /\ i = 1 => Follows(b_mail', llp_box'[i])
                        /\ i > 1 => Follows(llp_box'[i-1], llp_box'[i])
      OBVIOUS
    <3>1. Follows(llp_box[i], llp_box[i + 1])
      BY <1>a, <2>1 DEF StreamInv
    <3>2. i > 1 => llp_box'[i-1] = llp_box[i]
      <4>1. i > 1 => i - 1 \in 1..Len(llp_box') /\ (i - 1) + 1 = i
        BY <1>a, <2>1
      <4> QED
        BY <2>1, <4>1
    <3> QED
      BY <2>1, <3>1, <3>2
  <2>6. /\ b_mail'.poll <= poll
        /\ b_mail'.kind = "end" /\ sensor # "idle" => b_mail'.poll < poll
    BY <1>a, <2>1 DEF StreamInv
  <2>7. Last' = Last
    BY <1>a, <2>1 DEF Last
  <2> QED
    BY <2>2, <2>3, <2>4, <2>5, <2>6, <2>7 DEF StreamInv
<1>5. CASE SystemReset
  BY <1>5, <1>a, EmptySeq DEF SystemReset, StreamInv, Precedes, Follows, Last, Silence
<1>6. CASE \/ BehaviorApply \/ BehaviorLock \/ BehaviorCalloc \/ BehaviorPut
           \/ BehaviorUnlock \/ CommsBoot \/ CommsGet \/ CommsGetNothing \/ CommsLockMqtt
           \/ CommsLockStdio \/ CommsPublish \/ CommsUnlockMqtt \/ CommsFree \/ CommsNext
           \/ CommsRespond \/ CommsReconnect \/ CommsReconnectUnlock \/ CommsRetryDone
           \/ SubReconnect \/ SubReconnectUnlock \/ SubRetryDone
  BY <1>6 DEF BehaviorApply, BehaviorLock, BehaviorCalloc, BehaviorPut, BehaviorUnlock,
      CommsBoot, CommsGet, CommsGetNothing, CommsLockMqtt, CommsLockStdio, CommsPublish,
      CommsUnlockMqtt, CommsFree, CommsNext, CommsRespond,
      CommsNoResponse, CommsResponseLockMqtt, CommsResponseLockStdio,
      CommsResponsePublish, CommsResponseUnlock, CommsReconnect, CommsReconnectUnlock,
      CommsRetryDone, SubReconnect, SubReconnectUnlock, SubRetryDone, StreamInv,
      Precedes, Follows, Last, bootVars, llpVars, upVars, sVars, bVars, cVars, history
<1>7. CASE UNCHANGED vars
  BY <1>7 DEF vars, StreamInv, Precedes, Follows, Last, bootVars, llpVars, upVars,
      sVars, bVars, cVars, history
<1> QED
  BY <1>1, <1>2, <1>3, <1>4, <1>5, <1>6, <1>7 DEF Next, Sensor, Behavior, Comms, SubMgr

\* A "start" header remains the first mail of its poll, and the profile holds no reading of
\* a poll whose header it has not seen.
LEMMA StartStep == TypeOK /\ StreamInv /\ StartInv /\ [Next]_vars => StartInv'
<1> SUFFICES ASSUME TypeOK, StreamInv, StartInv, [Next]_vars
             PROVE  StartInv'
  OBVIOUS
<1>a. /\ Len(llp_box) \in Nat /\ poll \in Nat /\ profile \in Nat
      /\ b_mail \in Mail /\ b_mail.poll \in Nat
      /\ \A i \in 1..Len(llp_box) : llp_box[i] \in Mail /\ llp_box[i].poll \in Nat
  <2>1. \A m \in Mail : m.poll \in Nat
    BY DEF Mail
  <2>2. /\ Len(llp_box) \in Nat /\ poll \in Nat /\ profile \in Nat /\ b_mail \in Mail
        /\ \A i \in 1..Len(llp_box) : llp_box[i] \in Mail
    BY LenProperties, ElementOfSeq DEF TypeOK
  <2> QED
    BY <2>1, <2>2
<1>1. CASE SensorPoll
  <2>1. UNCHANGED <<profile, b_mail, behavior, llp_box>> /\ poll' = poll + 1
    BY <1>1 DEF SensorPoll, llpVars, bVars
  <2>2. b_mail.poll < poll' /\ \A i \in 1..Len(llp_box) : llp_box[i].poll < poll'
    BY <1>a, <2>1 DEF StreamInv
  <2> QED
    BY <2>1, <2>2 DEF StartInv
<1>2. CASE SensorPut
  <2>1. s_mail \in Mail /\ s_mail.kind = sensor /\ s_mail.poll = poll
    BY <1>2 DEF SensorPut, StreamInv, TypeOK
  <2>2. /\ Len(llp_box') = Len(llp_box) + 1
        /\ \A i \in 1..Len(llp_box) : llp_box'[i] = llp_box[i]
        /\ llp_box'[Len(llp_box) + 1] = s_mail
    BY <1>2, <2>1, AppendFacts DEF SensorPut, TypeOK
  <2>3. UNCHANGED <<poll, b_mail, profile, behavior>> /\ sensor' # "start"
    BY <1>2, <2>1 DEF SensorPut, NextKind, bVars, Mail
  <2>4. ASSUME NEW i \in 1..Len(llp_box'), llp_box'[i].kind = "start"
        PROVE  /\ b_mail.poll < llp_box'[i].poll
               /\ \A j \in 1..i-1 : llp_box'[j].poll < llp_box'[i].poll
    <3>1. CASE i \in 1..Len(llp_box)
      <4>1. \A j \in 1..i-1 : j \in 1..Len(llp_box)
        BY <1>a, <3>1
      <4> QED
        BY <2>2, <2>4, <3>1, <4>1 DEF StartInv
    <3>2. CASE i = Len(llp_box) + 1
      <4>1. \A j \in 1..i-1 : j \in 1..Len(llp_box)
        BY <1>a, <3>2
      <4> QED
        BY <2>1, <2>2, <2>4, <3>2, <4>1 DEF StartInv
    <3> QED
      BY <1>a, <2>2, <3>1, <3>2
  <2> QED
    BY <2>3, <2>4 DEF StartInv
<1>3. CASE BehaviorGet
  <2>1. /\ Len(llp_box') = Len(llp_box) - 1 /\ Len(llp_box) > 0
        /\ \A i \in 1..Len(llp_box') : llp_box'[i] = llp_box[i + 1]
        /\ b_mail' = llp_box[1]
    BY <1>3, TailFacts DEF BehaviorGet, TypeOK
  <2>2. 1 \in 1..Len(llp_box) /\ \A i \in 1..Len(llp_box') : i + 1 \in 1..Len(llp_box)
    BY <1>a, <2>1
  <2>3. UNCHANGED <<profile, poll, sensor>>
    BY <1>3 DEF BehaviorGet, sVars
  <2>4. profile <= b_mail'.poll /\ (b_mail'.kind = "start" => profile < b_mail'.poll)
    BY <1>a, <2>1, <2>2 DEF StartInv, StreamInv, Precedes
  <2>5. ASSUME NEW i \in 1..Len(llp_box'), llp_box'[i].kind = "start"
        PROVE  /\ b_mail'.poll < llp_box'[i].poll
               /\ \A j \in 1..i-1 : llp_box'[j].poll < llp_box'[i].poll
    <3>1. /\ i + 1 \in 1..Len(llp_box) /\ 1 \in 1..(i + 1)-1
          /\ \A j \in 1..i-1 : j \in 1..Len(llp_box') /\ j + 1 \in 1..(i + 1)-1
      BY <1>a, <2>1, <2>2
    <3>2. \A j \in 1..(i + 1)-1 : llp_box[j].poll < llp_box[i + 1].poll
      BY <2>1, <2>5, <3>1 DEF StartInv
    <3> QED
      BY <2>1, <3>1, <3>2
  <2>6. sensor = "start" => /\ b_mail'.poll < poll
                            /\ \A i \in 1..Len(llp_box') : llp_box'[i].poll < poll
    BY <2>1, <2>2 DEF StartInv
  <2> QED
    BY <2>3, <2>4, <2>5, <2>6 DEF StartInv
<1>4. CASE BehaviorApply
  <2>1. /\ profile' \in {0, b_mail.poll, profile} /\ behavior' # "apply"
        /\ UNCHANGED <<b_mail, llp_box, poll, sensor>>
    BY <1>4 DEF BehaviorApply, ProfileAfter, sVars
  <2>2. profile' <= b_mail.poll
    BY <1>a, <2>1 DEF StartInv
  <2> QED
    BY <2>1, <2>2 DEF StartInv
<1>5. CASE SystemReset
  BY <1>5, EmptySeq DEF SystemReset, StartInv, Silence
<1>6. CASE \/ SensorCalloc \/ BehaviorLock \/ BehaviorCalloc \/ BehaviorPut
           \/ BehaviorUnlock \/ CommsBoot \/ CommsGet \/ CommsGetNothing \/ CommsLockMqtt
           \/ CommsLockStdio \/ CommsPublish \/ CommsUnlockMqtt \/ CommsFree \/ CommsNext
           \/ CommsRespond \/ CommsReconnect \/ CommsReconnectUnlock \/ CommsRetryDone
           \/ SubReconnect \/ SubReconnectUnlock \/ SubRetryDone
  BY <1>6 DEF SensorCalloc, BehaviorLock, BehaviorCalloc, BehaviorPut, BehaviorUnlock,
      CommsBoot, CommsGet, CommsGetNothing, CommsLockMqtt, CommsLockStdio, CommsPublish,
      CommsUnlockMqtt, CommsFree, CommsNext, CommsRespond,
      CommsNoResponse, CommsResponseLockMqtt, CommsResponseLockStdio,
      CommsResponsePublish, CommsResponseUnlock, CommsReconnect, CommsReconnectUnlock,
      CommsRetryDone, SubReconnect, SubReconnectUnlock, SubRetryDone, StartInv,
      bootVars, llpVars, upVars, sVars, bVars, cVars, history
<1>7. CASE UNCHANGED vars
  BY <1>7 DEF vars, StartInv, bootVars, llpVars, upVars, sVars, bVars, cVars, history
<1> QED
  BY <1>1, <1>2, <1>3, <1>4, <1>5, <1>6, <1>7 DEF Next, Sensor, Behavior, Comms, SubMgr

-----------------------------------------------------------------------------
(* The packets *)

\* Every packet on its way keeps the reading of its own poll or none.
LEMMA FreshStep == TypeOK /\ StreamInv /\ FreshInv /\ [Next]_vars => FreshInv'
<1> SUFFICES ASSUME TypeOK, StreamInv, FreshInv, [Next]_vars
             PROVE  FreshInv'
  OBVIOUS
<1>a. /\ Len(up_box) \in Nat /\ Len(published) \in Nat
      /\ b_mail.kind \in {"start", "data", "end"}
  BY LenProperties DEF TypeOK, Mail
<1>1. CASE BehaviorGet
  <2>1. /\ behavior = "loop" /\ behavior' = "apply" /\ b_mail' = llp_box[1]
        /\ 1 \in 1..Len(llp_box) /\ UNCHANGED <<profile, up_box, payload, published>>
    BY <1>1, TailFacts DEF BehaviorGet, TypeOK, upVars, cVars, history
  <2>2. Follows(b_mail, llp_box[1])
    BY <2>1 DEF StreamInv
  <2> QED
    BY <2>1, <2>2 DEF FreshInv, ProfileFits, FreshPackets, Follows
<1>2. CASE BehaviorApply
  BY <1>2, <1>a DEF BehaviorApply, ProfileAfter, ReleasesPacket, FreshInv, ProfileFits,
      FreshPackets, Mail, bootVars, llpVars, upVars, sVars, bVars, cVars, history
<1>3. CASE BehaviorPut
  <2>1. GetNewDecadaPacket \in Packet
    BY DEF GetNewDecadaPacket, Packet, Mail, TypeOK
  <2>2. /\ Len(up_box') = Len(up_box) + 1
        /\ \A i \in 1..Len(up_box) : up_box'[i] = up_box[i]
        /\ up_box'[Len(up_box) + 1] = GetNewDecadaPacket
    BY <1>3, <2>1, AppendFacts DEF BehaviorPut, TypeOK
  <2>3. GetNewDecadaPacket.reading \in {0, GetNewDecadaPacket.of}
    BY <1>3 DEF BehaviorPut, GetNewDecadaPacket, FreshInv, ProfileFits
  <2>4. \A i \in 1..Len(up_box') : up_box'[i].reading \in {0, up_box'[i].of}
    BY <1>a, <2>2, <2>3 DEF FreshInv
  <2> QED
    BY <1>3, <2>4 DEF BehaviorPut, FreshInv, ProfileFits, FreshPackets, cVars, history
<1>4. CASE CommsGet
  <2>1. /\ Len(up_box') = Len(up_box) - 1 /\ Len(up_box) > 0
        /\ \A i \in 1..Len(up_box') : up_box'[i] = up_box[i + 1]
        /\ payload' = up_box[1]
    BY <1>4, TailFacts DEF CommsGet, TypeOK
  <2>2. 1 \in 1..Len(up_box) /\ \A i \in 1..Len(up_box') : i + 1 \in 1..Len(up_box)
    BY <1>a, <2>1
  <2>3. \A i \in 1..Len(up_box') : up_box'[i].reading \in {0, up_box'[i].of}
    BY <2>1, <2>2 DEF FreshInv
  <2>4. payload'.reading \in {0, payload'.of}
    BY <2>1, <2>2 DEF FreshInv
  <2> QED
    BY <1>4, <2>3, <2>4 DEF CommsGet, FreshInv, ProfileFits, FreshPackets, bVars, history
<1>5. CASE CommsPublish
  <2>1. CASE published' = published
    BY <1>5, <2>1 DEF CommsPublish, FreshInv, ProfileFits, FreshPackets, bVars, upVars
  <2>2. CASE published' = Append(published, payload)
    <3>1. /\ Len(published') = Len(published) + 1
          /\ \A i \in 1..Len(published) : published'[i] = published[i]
          /\ published'[Len(published) + 1] = payload
      BY <2>2, AppendFacts DEF TypeOK
    <3>2. FreshPackets'
      BY <1>a, <3>1 DEF FreshInv, FreshPackets
    <3> QED
      BY <1>5, <3>2 DEF CommsPublish, FreshInv, ProfileFits, bVars, upVars
  <2> QED
    BY <1>5, <2>1, <2>2 DEF CommsPublish
<1>6. CASE SystemReset
  BY <1>6, EmptySeq DEF SystemReset, FreshInv, ProfileFits, FreshPackets, Silence,
      NoPacket
<1>7. CASE \/ SensorPoll \/ SensorCalloc \/ SensorPut \/ BehaviorLock \/ BehaviorCalloc
           \/ BehaviorUnlock \/ CommsBoot \/ CommsGetNothing \/ CommsLockMqtt
           \/ CommsLockStdio \/ CommsUnlockMqtt \/ CommsFree \/ CommsNext \/ CommsRespond
           \/ CommsReconnect \/ CommsReconnectUnlock \/ CommsRetryDone \/ SubReconnect
           \/ SubReconnectUnlock \/ SubRetryDone
  BY <1>7 DEF SensorPoll, SensorCalloc, SensorPut, BehaviorLock, BehaviorCalloc,
      BehaviorUnlock, CommsBoot, CommsGetNothing, CommsLockMqtt, CommsLockStdio,
      CommsUnlockMqtt, CommsFree, CommsNext, CommsRespond,
      CommsNoResponse, CommsResponseLockMqtt, CommsResponseLockStdio,
      CommsResponsePublish, CommsResponseUnlock, CommsReconnect, CommsReconnectUnlock,
      CommsRetryDone, SubReconnect, SubReconnectUnlock, SubRetryDone, FreshInv,
      ProfileFits, FreshPackets, bootVars, llpVars, upVars, sVars, bVars, cVars, history
<1>8. CASE UNCHANGED vars
  BY <1>8 DEF vars, FreshInv, ProfileFits, FreshPackets, bootVars, llpVars, upVars,
      sVars, bVars, cVars, history
<1> QED
  BY <1>1, <1>2, <1>3, <1>4, <1>5, <1>6, <1>7, <1>8 DEF Next, Sensor, Behavior, Comms,
      SubMgr

\* Packets queued, in hand and published stay in poll order, behind the polls still open.
LEMMA OrderStep == TypeOK /\ StreamInv /\ FreshInv /\ OrderInv /\ [Next]_vars => OrderInv'
<1> SUFFICES ASSUME TypeOK, StreamInv, FreshInv, OrderInv, [Next]_vars
             PROVE  OrderInv'
  OBVIOUS
<1>a. /\ Len(llp_box) \in Nat /\ Len(up_box) \in Nat /\ Len(published) \in Nat
      /\ poll \in Nat /\ b_mail.poll \in Nat /\ payload.of \in Nat
      /\ \A i \in 1..Len(llp_box) : llp_box[i].poll \in Nat
      /\ \A i \in 1..Len(up_box) : up_box[i].of \in Nat
      /\ \A i \in 1..Len(published) : published[i].of \in Nat
  <2>1. (\A m \in Mail : m.poll \in Nat) /\ (\A p \in Packet : p.of \in Nat)
    BY DEF Mail, Packet
  <2>2. /\ \A i \in 1..Len(llp_box) : llp_box[i] \in Mail
        /\ \A i \in 1..Len(up_box) : up_box[i] \in Packet
        /\ \A i \in 1..Len(published) : published[i] \in Packet
    BY ElementOfSeq DEF TypeOK
  <2>3. /\ Len(llp_box) \in Nat /\ Len(up_box) \in Nat /\ Len(published) \in Nat
        /\ poll \in Nat /\ b_mail \in Mail /\ payload \in Packet
    BY LenProperties DEF TypeOK
  <2> QED
    BY <2>1, <2>2, <2>3
<1>1. CASE SensorPoll
  <2>1. /\ sensor = "idle" /\ sensor' = "start" /\ poll' = poll + 1
        /\ UNCHANGED <<published, up_box, payload, comms, llp_box, b_mail, behavior>>
    BY <1>1 DEF SensorPoll, llpVars, upVars, bVars, cVars, history
  <2> QED
    BY <2>1 DEF OrderInv, PublishedInOrder, Above, Unpublished, Unreported
<1>2. CASE SensorPut
  <2>1. s_mail \in Mail /\ s_mail.poll = poll /\ sensor # "idle"
    BY <1>2 DEF SensorPut, StreamInv, TypeOK
  <2>2. /\ Len(llp_box') = Len(llp_box) + 1
        /\ \A i \in 1..Len(llp_box) : llp_box'[i] = llp_box[i]
        /\ llp_box'[Len(llp_box) + 1] = s_mail
    BY <1>2, <2>1, AppendFacts DEF SensorPut, TypeOK
  <2>3. UNCHANGED <<published, up_box, payload, comms, poll, b_mail, behavior>>
    BY <1>2 DEF SensorPut, upVars, bVars, cVars, history
  <2>4. Above(poll)
    BY <2>1 DEF OrderInv
  <2>5. \A i \in 1..Len(llp_box') : Above(llp_box'[i].poll)
    BY <1>a, <2>1, <2>2, <2>4 DEF OrderInv
  <2>6. Above(poll + 1)
    BY <1>a, <2>4 DEF Above
  <2> QED
    BY <2>3, <2>4, <2>5, <2>6
    DEF OrderInv, PublishedInOrder, Above, Unpublished, Unreported
<1>3. CASE BehaviorGet
  <2>1. /\ Len(llp_box') = Len(llp_box) - 1 /\ Len(llp_box) > 0
        /\ \A i \in 1..Len(llp_box') : llp_box'[i] = llp_box[i + 1]
        /\ b_mail' = llp_box[1]
    BY <1>3, TailFacts DEF BehaviorGet, TypeOK
  <2>2. 1 \in 1..Len(llp_box) /\ \A i \in 1..Len(llp_box') : i + 1 \in 1..Len(llp_box)
    BY <1>a, <2>1
  <2>3. UNCHANGED <<published, up_box, payload, comms, poll, sensor>>
    BY <1>3 DEF BehaviorGet, upVars, sVars, cVars, history
  <2>4. \A i \in 1..Len(llp_box') : Above(llp_box'[i].poll)
    BY <2>1, <2>2 DEF OrderInv
  <2>5. Above(b_mail'.poll)
    BY <2>1, <2>2 DEF OrderInv
  <2> QED
    BY <2>3, <2>4, <2>5 DEF OrderInv, PublishedInOrder, Above, Unpublished
<1>4. CASE BehaviorPut
  <2>1. GetNewDecadaPacket \in Packet /\ GetNewDecadaPacket.of = b_mail.poll
    BY DEF GetNewDecadaPacket, Packet, Mail, TypeOK
  <2>2. /\ Len(up_box') = Len(up_box) + 1
        /\ \A i \in 1..Len(up_box) : up_box'[i] = up_box[i]
        /\ up_box'[Len(up_box) + 1].of = b_mail.poll
    BY <1>4, <2>1, AppendFacts DEF BehaviorPut, TypeOK
  <2>a. \A i \in 1..Len(up_box') : i \in 1..Len(up_box) \/ i = Len(up_box) + 1
    BY <1>a, <2>2
  <2>3. UNCHANGED <<published, payload, comms, llp_box, b_mail, poll, sensor>>
    BY <1>4 DEF BehaviorPut, llpVars, sVars, cVars, history
  <2>4. Above(b_mail.poll)
    BY <1>4 DEF BehaviorPut, OrderInv, Unreported
  <2>5. ~Unreported'
    BY <1>4 DEF BehaviorPut, FreshInv, Unreported
  <2>6. \A i, j \in 1..Len(up_box') : i < j => up_box'[i].of < up_box'[j].of
    <3> SUFFICES ASSUME NEW i \in 1..Len(up_box'), NEW j \in 1..Len(up_box'), i < j
                 PROVE  up_box'[i].of < up_box'[j].of
      OBVIOUS
    <3>1. i \in 1..Len(up_box)
      BY <1>a, <2>2
    <3> QED
      BY <2>2, <2>4, <2>a, <3>1 DEF OrderInv, Above
  <2>7. \A i \in 1..Len(published'), j \in 1..Len(up_box') :
          published'[i].of < up_box'[j].of
    <3> SUFFICES ASSUME NEW i \in 1..Len(published), NEW j \in 1..Len(up_box')
                 PROVE  published[i].of < up_box'[j].of
      BY <2>3
    <3>1. CASE j \in 1..Len(up_box)
      BY <2>2, <3>1 DEF OrderInv
    <3>2. CASE j = Len(up_box) + 1
      BY <2>2, <2>4, <3>2 DEF Above
    <3> QED
      BY <2>a, <3>1, <3>2
  <2>8. Unpublished' => /\ \A i \in 1..Len(published') : published'[i].of < payload'.of
                        /\ \A i \in 1..Len(up_box') : payload'.of < up_box'[i].of
    <3>1. Unpublished' = Unpublished
      BY <2>3 DEF Unpublished
    <3>2. Unpublished => \A i \in 1..Len(up_box') : payload.of < up_box'[i].of
      BY <2>2, <2>4, <2>a DEF OrderInv, Above
    <3> QED
      BY <2>3, <3>1, <3>2 DEF OrderInv
  <2>9. ASSUME NEW m \in Nat, Above(m), b_mail.poll < m PROVE Above(m)'
    BY <2>2, <2>3, <2>9, <2>a DEF Above, Unpublished
  <2>10. b_mail.kind = "end"
    BY <1>4 DEF BehaviorPut, FreshInv
  <2>11. \A i \in 1..Len(llp_box) : Above(llp_box[i].poll)'
    <3> SUFFICES ASSUME NEW i \in 1..Len(llp_box) PROVE Above(llp_box[i].poll)'
      OBVIOUS
    <3>1. /\ llp_box[i].poll \in Nat /\ Above(llp_box[i].poll)
          /\ b_mail.poll < llp_box[i].poll
      BY <1>a, <2>10 DEF OrderInv, StreamInv, Precedes
    <3>2. \A m \in Nat : Above(m) /\ b_mail.poll < m
            => /\ \A k \in 1..Len(published') : published'[k].of < m
               /\ \A k \in 1..Len(up_box') : up_box'[k].of < m
               /\ Unpublished' => payload'.of < m
      BY <2>9 DEF Above
    <3> QED
      BY <2>3, <3>1, <3>2 DEF Above
  <2>12. Above(IF sensor = "idle" THEN poll + 1 ELSE poll)'
    BY <1>a, <2>3, <2>9, <2>10 DEF OrderInv, StreamInv
  <2> QED
    BY <2>3, <2>5, <2>6, <2>7, <2>8, <2>11, <2>12 DEF OrderInv, PublishedInOrder
<1>5. CASE CommsGet
  <2>1. /\ Len(up_box') = Len(up_box) - 1 /\ Len(up_box) > 0
        /\ \A i \in 1..Len(up_box') : up_box'[i] = up_box[i + 1]
        /\ payload' = up_box[1]
    BY <1>5, TailFacts DEF CommsGet, TypeOK
  <2>2. /\ 1 \in 1..Len(up_box)
        /\ \A i \in 1..Len(up_box') : i + 1 \in 1..Len(up_box) /\ 1 < i + 1
    BY <1>a, <2>1
  <2>3. UNCHANGED <<published, llp_box, b_mail, behavior, poll, sensor>>
    BY <1>5 DEF CommsGet, llpVars, sVars, bVars, history
  <2>4. \A i, j \in 1..Len(up_box') : i < j => up_box'[i].of < up_box'[j].of
    <3> SUFFICES ASSUME NEW i \in 1..Len(up_box'), NEW j \in 1..Len(up_box'), i < j
                 PROVE  up_box'[i].of < up_box'[j].of
      OBVIOUS
    <3>1. i + 1 < j + 1
      BY <1>a, <2>1
    <3> QED
      BY <2>1, <2>2, <3>1 DEF OrderInv
  <2>5. \A i \in 1..Len(published), j \in 1..Len(up_box') :
          published[i].of < up_box'[j].of
    BY <2>1, <2>2 DEF OrderInv
  <2>6. /\ \A i \in 1..Len(published) : published[i].of < payload'.of
        /\ \A i \in 1..Len(up_box') : payload'.of < up_box'[i].of
    BY <2>1, <2>2 DEF OrderInv
  <2>7. ASSUME NEW m, Above(m) PROVE Above(m)'
    BY <2>1, <2>2, <2>3, <2>7 DEF Above
  <2> QED
    BY <2>3, <2>4, <2>5, <2>6, <2>7 DEF OrderInv, PublishedInOrder, Unreported
<1>6. CASE CommsPublish
  <2>1. /\ Unpublished /\ ~Unpublished'
        /\ UNCHANGED <<up_box, llp_box, b_mail, behavior, poll, sensor>>
        /\ published' = published \/ published' = Append(published, payload)
    BY <1>6 DEF CommsPublish, Unpublished, llpVars, upVars, sVars, bVars
  <2>2. CASE published' = published
    BY <2>1, <2>2 DEF OrderInv, PublishedInOrder, Above, Unreported
  <2>3. CASE published' = Append(published, payload)
    <3>1. /\ Len(published') = Len(published) + 1
          /\ \A i \in 1..Len(published) : published'[i] = published[i]
          /\ published'[Len(published) + 1] = payload
      BY <2>3, AppendFacts DEF TypeOK
    <3>a. \A i \in 1..Len(published') : i \in 1..Len(published) \/ i = Len(published) + 1
      BY <1>a, <3>1
    <3>2. PublishedInOrder'
      <4> SUFFICES ASSUME NEW i \in 1..Len(published'), NEW j \in 1..Len(published'), i < j
                   PROVE  published'[i].of < published'[j].of
        BY DEF PublishedInOrder
      <4>1. i \in 1..Len(published)
        BY <1>a, <3>1
      <4> QED
        BY <2>1, <3>1, <3>a, <4>1 DEF OrderInv, PublishedInOrder
    <3>3. \A i \in 1..Len(published'), j \in 1..Len(up_box) :
            published'[i].of < up_box[j].of
      BY <2>1, <3>1, <3>a DEF OrderInv
    <3>4. ASSUME NEW m, Above(m) PROVE Above(m)'
      BY <2>1, <3>1, <3>4, <3>a DEF Above
    <3> QED
      BY <2>1, <3>2, <3>3, <3>4 DEF OrderInv, Unreported
  <2> QED
    BY <2>1, <2>2, <2>3
<1>7. CASE SystemReset
  <2>1. /\ sensor' = "idle" /\ ~Unpublished' /\ ~Unreported'
        /\ Len(llp_box') = 0 /\ Len(up_box') = 0 /\ UNCHANGED <<poll, published>>
    BY <1>7, EmptySeq DEF SystemReset, Unpublished, Unreported, Silence
  <2>2. \A i \in 1..Len(published) : published[i].of < poll + 1
    BY <1>a DEF OrderInv, Above
  <2> QED
    BY <2>1, <2>2 DEF OrderInv, PublishedInOrder, Above
<1>8. CASE \/ SensorCalloc \/ BehaviorApply \/ BehaviorLock \/ BehaviorCalloc
           \/ BehaviorUnlock \/ CommsBoot \/ CommsGetNothing \/ CommsLockMqtt
           \/ CommsLockStdio \/ CommsUnlockMqtt \/ CommsFree \/ CommsNext \/ CommsRespond
           \/ CommsReconnect \/ CommsReconnectUnlock \/ CommsRetryDone \/ SubReconnect
           \/ SubReconnectUnlock \/ SubRetryDone
  BY <1>8 DEF SensorCalloc, BehaviorApply, BehaviorLock, BehaviorCalloc, BehaviorUnlock,
      CommsBoot, CommsGetNothing, CommsLockMqtt, CommsLockStdio, CommsUnlockMqtt,
      CommsFree, CommsNext, CommsRespond,
      CommsNoResponse, CommsResponseLockMqtt, CommsResponseLockStdio,
      CommsResponsePublish, CommsResponseUnlock, CommsReconnect, CommsReconnectUnlock,
      CommsRetryDone,
      SubReconnect, SubReconnectUnlock, SubRetryDone, OrderInv, PublishedInOrder, Above,
      Unpublished, Unreported, bootVars, llpVars, upVars, sVars, bVars, cVars, history
<1>9. CASE UNCHANGED vars
  BY <1>9 DEF vars, OrderInv, PublishedInOrder, Above, Unpublished, Unreported,
      bootVars, llpVars, upVars, sVars, bVars, cVars, history
<1> QED
  BY <1>1, <1>2, <1>3, <1>4, <1>5, <1>6, <1>7, <1>8, <1>9 DEF Next, Sensor, Behavior,
      Comms, SubMgr

-----------------------------------------------------------------------------
(* The theorems *)

\* A board that has just booted satisfies the inductive invariant.
LEMMA InitIInv == Init => IInv
<1> SUFFICES ASSUME Init PROVE IInv
  OBVIOUS
<1>1. TypeOK
  <2>1. Silence \in Mail /\ NoPacket \in Packet
    BY DEF Silence, Mail, NoPacket, Packet
  <2>2. llp_box \in Seq(Mail) /\ up_box \in Seq(Packet) /\ published \in Seq(Packet)
    BY EmptySeq DEF Init
  <2>3. mqtt_ok \in BOOLEAN /\ pub_ok \in BOOLEAN
    BY DEF Init
  <2> QED
    BY <2>1, <2>2, <2>3 DEF Init, TypeOK
<1>2. SlotAccounting
  BY SizeAssumption, EmptySeq
  DEF Init, SlotAccounting, LlpAccounting, UpAccounting, Count, CommsHoldsBlock
<1>3. StreamInv
  BY EmptySeq DEF Init, StreamInv, Last, Silence
<1>4. FreshInv
  BY EmptySeq DEF Init, FreshInv, ProfileFits, FreshPackets, Silence, NoPacket
<1>5. OrderInv
  BY EmptySeq
  DEF Init, OrderInv, PublishedInOrder, Above, Unpublished, Unreported, Silence
<1>6. StartInv
  BY EmptySeq DEF Init, StartInv, Silence
<1> QED
  BY <1>1, <1>2, <1>3, <1>4, <1>5, <1>6 DEF IInv

\* Every step of every thread, and a reset, preserves the inductive invariant.
LEMMA NextIInv == IInv /\ [Next]_vars => IInv'
  BY TypeStep, LlpStep, UpStep, StreamStep, FreshStep, OrderStep, StartStep
  DEF IInv, SlotAccounting

\* The inductive invariant holds in every reachable state.
LEMMA IInvAlways == Spec => []IInv
<1>1. Init => IInv
  BY InitIInv
<1>2. IInv /\ [Next]_vars => IInv'
  BY NextIInv
<1> QED
  BY <1>1, <1>2, PTL DEF Spec

\* The variables of the four threads and of the mailboxes keep their types.
THEOREM TypeCorrect == Spec => []TypeOK
<1>1. IInv => TypeOK
  BY DEF IInv
<1> QED
  BY <1>1, IInvAlways, PTL

\* For every pool size, no interleaving of the threads, failure of Publish, reconnection
\* or reset leaks a mailbox block, frees one twice or makes put meet a full queue.
THEOREM SlotsAccounted == Spec => []SlotAccounting
<1>1. IInv => SlotAccounting
  BY DEF IInv
<1> QED
  BY <1>1, IInvAlways, PTL

\* For every pool size and any number of polls, the broker never takes a packet with a
\* reading of an earlier poll.
THEOREM ReadingsAreFresh == Spec => []FreshPackets
<1>1. IInv => FreshPackets
  BY DEF IInv, FreshInv
<1> QED
  BY <1>1, IInvAlways, PTL

\* For every pool size and any number of polls and resets, the broker takes the packets
\* in poll order and none twice.
THEOREM DeliveryInOrder == Spec => []PublishedInOrder
<1>1. IInv => PublishedInOrder
  BY DEF IInv, OrderInv
<1> QED
  BY <1>1, IInvAlways, PTL
-----------------------------------------------------------------------------
(* The footers of a stream, for the refinement of TelemetryService          *)

\* Every non-empty set of natural numbers has a least one.
LEMMA Least ==
  ASSUME NEW T, T \subseteq Nat, T # {}
  PROVE  \E x \in T : \A y \in T : x <= y
<1>1. IsWellFoundedOn(OpToRel(<, Nat), Nat)
  BY NatLessThanWellFounded
<1>2. PICK x \in T : \A y \in T : ~(<<y, x>> \in OpToRel(<, Nat))
  BY <1>1, WFMin
<1>3. \A y \in T : ~(y < x)
  BY <1>2 DEF OpToRel
<1>4. \A y \in T : x <= y
  BY <1>3
<1> QED
  BY <1>4

\* A set that holds 0 and, up to a bound, the successor of each of its numbers holds all
\* numbers up to the bound: the least number outside it would have no predecessor.
LEMMA UpTo ==
  ASSUME NEW n \in Nat, NEW S, 0 \in S, \A i \in 1..n : i - 1 \in S => i \in S
  PROVE  \A i \in 0..n : i \in S
<1> DEFINE T == {i \in 0..n : i \notin S}
<1>1. SUFFICES ASSUME T # {} PROVE FALSE
  OBVIOUS
<1>2. T \subseteq Nat
  OBVIOUS
<1>3. PICK x \in T : \A y \in T : x <= y
  BY <1>1, <1>2, Least
<1>4. x \in 1..n /\ x \notin S
  BY <1>3
<1>5. x - 1 \in 0..n /\ ~(x <= x - 1)
  BY <1>4
<1>6. x - 1 \in S
  BY <1>3, <1>5
<1> QED
  BY <1>4, <1>6

\* f goes through a stream and gathers its footers.
Gathers(f, mails) ==
  /\ f[0] = <<>>
  /\ \A i \in 1..Len(mails) :
       f[i] = IF mails[i].kind = "end" THEN Append(f[i-1], mails[i]) ELSE f[i-1]

\* The recursive function behind FootersOf exists.
LEMMA FootersExist ==
  ASSUME NEW mails, Len(mails) \in Nat
  PROVE  \E f : Gathers(f, mails) /\ FootersOf(mails) = f[Len(mails)]
<1> DEFINE n == Len(mails)
           Step(v, i) == IF mails[i].kind = "end" THEN Append(v, mails[i]) ELSE v
           Good(g, k) == g = [i \in 0..k |-> IF i = 0 THEN <<>> ELSE Step(g[i-1], i)]
           S == {k \in 0..n : \E g : Good(g, k)}
<1>1. 0 \in S
  <2> DEFINE g0 == [i \in 0..0 |-> <<>>]
  <2>1. Good(g0, 0)
    OBVIOUS
  <2> HIDE DEF Good
  <2>2. \E g : Good(g, 0)
    BY <2>1
  <2> QED
    BY <2>2
<1>2. ASSUME NEW k \in 1..n, k - 1 \in S PROVE k \in S
  <2>1. PICK g : Good(g, k - 1)
    BY <1>2
  <2> HIDE DEF Step
  <2> DEFINE g2 == [i \in 0..k |-> IF i = k THEN Step(g[k-1], k) ELSE g[i]]
  <2>2. \A i \in 0..k-1 : g[i] = IF i = 0 THEN <<>> ELSE Step(g[i-1], i)
    BY <2>1
  <2>3. \A i \in 0..k : g2[i] = IF i = 0 THEN <<>> ELSE Step(g2[i-1], i)
    <3> TAKE i \in 0..k
    <3>1. CASE i = k
      BY <3>1
    <3>2. CASE i # k
      <4>1. i \in 0..k-1 /\ g2[i] = g[i]
        BY <3>2
      <4>2. CASE i = 0
        BY <4>1, <4>2, <2>2
      <4>3. CASE i # 0
        <5>1. g2[i-1] = g[i-1]
          BY <4>1, <4>3
        <5> QED
          BY <4>1, <4>3, <5>1, <2>2
      <4> QED
        BY <4>2, <4>3
    <3> QED
      BY <3>1, <3>2
  <2>4. Good(g2, k)
    BY <2>3
  <2> HIDE DEF Good
  <2>5. \E v : Good(v, k)
    BY <2>4
  <2> QED
    BY <2>5
<1>3. n \in S
  <2>1. \A i \in 0..n : i \in S
    BY <1>1, <1>2, UpTo
  <2>2. n \in 0..n
    OBVIOUS
  <2> HIDE DEF S
  <2> QED
    BY <2>1, <2>2
<1>4. PICK f : Good(f, n)
  BY <1>3
<1> DEFINE upTo == CHOOSE upTo :
                     upTo = [i \in 0..n |-> IF i = 0 THEN <<>> ELSE Step(upTo[i-1], i)]
<1>5. Good(upTo, n)
  BY <1>4
<1>6. FootersOf(mails) = upTo[n]
  BY DEF FootersOf
<1> HIDE DEF Step, upTo
<1>7. upTo[0] = <<>> /\ \A i \in 1..n : upTo[i] = Step(upTo[i-1], i)
  BY <1>5
<1>8. Gathers(upTo, mails)
  BY <1>7 DEF Gathers, Step
<1> QED
  BY <1>6, <1>8

\* What is gathered are mails of the stream, and footers.
LEMMA GathersFooters ==
  ASSUME NEW mails \in Seq(Mail), NEW f, Gathers(f, mails)
  PROVE  \A i \in 0..Len(mails) :
           /\ f[i] \in Seq(Mail)
           /\ \A k \in 1..Len(f[i]) :
                f[i][k].kind = "end" /\ \E j \in 1..Len(mails) : mails[j] = f[i][k]
<1> DEFINE n == Len(mails)
           From(m) == m.kind = "end" /\ \E j \in 1..n : mails[j] = m
           Good(g) == g \in Seq(Mail) /\ \A k \in 1..Len(g) : From(g[k])
           S == {i \in 0..n : Good(f[i])}
<1>0. n \in Nat
  OBVIOUS
<1>1. 0 \in S
  <2>1. Good(<<>>)
    BY EmptySeq
  <2>2. f[0] = <<>> /\ 0 \in 0..n
    BY <1>0 DEF Gathers
  <2> HIDE DEF Good
  <2> QED
    BY <2>1, <2>2
<1>2. ASSUME NEW i \in 1..n, i - 1 \in S PROVE i \in S
  <2>1. Good(f[i-1]) /\ mails[i] \in Mail
    BY <1>2, ElementOfSeq
  <2>2. CASE mails[i].kind = "end"
    <3>1. f[i] = Append(f[i-1], mails[i])
      BY <2>2 DEF Gathers
    <3>2. From(mails[i])
      BY <2>2
    <3> HIDE DEF From
    <3>3. /\ f[i] \in Seq(Mail) /\ Len(f[i]) = Len(f[i-1]) + 1 /\ Len(f[i-1]) \in Nat
          /\ \A k \in 1..Len(f[i-1]) : f[i][k] = f[i-1][k]
          /\ f[i][Len(f[i-1]) + 1] = mails[i]
      BY <2>1, <3>1, AppendFacts
    <3>4. ASSUME NEW k \in 1..Len(f[i]) PROVE From(f[i][k])
      <4>1. k \in 1..Len(f[i-1]) \/ k = Len(f[i-1]) + 1
        BY <3>3
      <4> QED
        BY <2>1, <3>2, <3>3, <4>1
    <3> QED
      BY <3>3, <3>4
  <2>3. CASE mails[i].kind # "end"
    <3>1. f[i] = f[i-1]
      BY <2>3 DEF Gathers
    <3> QED
      BY <2>1, <3>1
  <2> QED
    BY <2>2, <2>3
<1>3. \A i \in 0..n : i \in S
  <2> HIDE DEF S
  <2> QED
    BY <1>0, <1>1, <1>2, UpTo
<1> QED
  BY <1>3

\* The footers of a stream are a sequence of mails of the stream, footers all of them.
LEMMA FootersFacts ==
  ASSUME NEW mails \in Seq(Mail)
  PROVE  /\ FootersOf(mails) \in Seq(Mail)
         /\ \A k \in 1..Len(FootersOf(mails)) :
              /\ FootersOf(mails)[k].kind = "end"
              /\ \E j \in 1..Len(mails) : mails[j] = FootersOf(mails)[k]
<1>1. Len(mails) \in Nat
  OBVIOUS
<1>2. PICK f : Gathers(f, mails) /\ FootersOf(mails) = f[Len(mails)]
  BY <1>1, FootersExist
<1>3. Len(mails) \in 0..Len(mails)
  BY <1>1
<1> QED
  BY <1>2, <1>3, GathersFooters

\* Of two streams that begin alike the same is gathered so far.
LEMMA GathersAlike ==
  ASSUME NEW s, NEW t, NEW n \in Nat, Len(s) \in Nat, Len(t) \in Nat, n <= Len(s), n <= Len(t),
         \A i \in 1..n : s[i] = t[i],
         NEW f, Gathers(f, s), NEW g, Gathers(g, t)
  PROVE  f[n] = g[n]
<1> DEFINE S == {i \in 0..n : f[i] = g[i]}
<1>1. 0 \in S
  BY DEF Gathers
<1>2. ASSUME NEW i \in 1..n, i - 1 \in S PROVE i \in S
  <2>1. i \in 1..Len(s) /\ i \in 1..Len(t) /\ s[i] = t[i] /\ f[i-1] = g[i-1]
    BY <1>2
  <2> QED
    BY <2>1 DEF Gathers
<1>3. \A i \in 0..n : i \in S
  <2> HIDE DEF S
  <2> QED
    BY <1>1, <1>2, UpTo
<1> QED
  BY <1>3

\* A mail put in the queue adds itself when it is a footer, and nothing otherwise.
LEMMA FootersOfAppend ==
  ASSUME NEW mails \in Seq(Mail), NEW m \in Mail
  PROVE  FootersOf(Append(mails, m)) =
           IF m.kind = "end" THEN Append(FootersOf(mails), m) ELSE FootersOf(mails)
<1> DEFINE n == Len(mails)
           more == Append(mails, m)
<1>1. /\ n \in Nat /\ Len(more) = n + 1 /\ \A i \in 1..n : more[i] = mails[i]
      /\ more[n + 1] = m
  BY AppendFacts
<1> HIDE DEF more
<1>2. PICK f : Gathers(f, mails) /\ FootersOf(mails) = f[n]
  BY <1>1, FootersExist
<1>3. PICK g : Gathers(g, more) /\ FootersOf(more) = g[n + 1]
  <2>1. Len(more) \in Nat
    BY <1>1
  <2>2. \E g : Gathers(g, more) /\ FootersOf(more) = g[Len(more)]
    BY <2>1, FootersExist
  <2> QED
    BY <1>1, <2>2
<1>4. g[n] = f[n]
  <2>1. /\ Len(mails) \in Nat /\ Len(more) \in Nat /\ n <= Len(mails) /\ n <= Len(more)
        /\ \A i \in 1..n : mails[i] = more[i]
    BY <1>1
  <2>2. n \in Nat /\ Gathers(f, mails) /\ Gathers(g, more)
    BY <1>1, <1>2, <1>3
  <2> HIDE DEF n
  <2>3. f[n] = g[n]
    BY <2>1, <2>2, GathersAlike
  <2> QED
    BY <2>3
<1>5. g[n + 1] = IF m.kind = "end" THEN Append(g[n], m) ELSE g[n]
  <2>1. n + 1 \in 1..Len(more) /\ (n + 1) - 1 = n
    BY <1>1
  <2>2. g[n + 1] = IF more[n + 1].kind = "end" THEN Append(g[(n + 1) - 1], more[n + 1])
                   ELSE g[(n + 1) - 1]
    BY <1>3, <2>1 DEF Gathers
  <2> QED
    BY <1>1, <2>1, <2>2
<1> QED
  BY <1>2, <1>3, <1>4, <1>5 DEF more

\* A mail taken from the queue was its first footer when it is one.
LEMMA FootersOfTail ==
  ASSUME NEW mails \in Seq(Mail), mails # <<>>
  PROVE  FootersOf(mails) =
           IF mails[1].kind = "end" THEN <<mails[1]>> \o FootersOf(Tail(mails))
           ELSE FootersOf(Tail(mails))
<1> DEFINE rest == Tail(mails)
           n == Len(rest)
           first == IF mails[1].kind = "end" THEN <<mails[1]>> ELSE <<>>
<1>1. /\ rest \in Seq(Mail) /\ n \in Nat /\ Len(mails) = n + 1
      /\ \A i \in 1..n : rest[i] = mails[i + 1]
      /\ mails[1] \in Mail
  BY TailFacts
<1> HIDE DEF rest
<1>2. PICK f : Gathers(f, mails) /\ FootersOf(mails) = f[n + 1]
  <2>1. Len(mails) \in Nat
    BY <1>1
  <2>2. \E f : Gathers(f, mails) /\ FootersOf(mails) = f[Len(mails)]
    BY <2>1, FootersExist
  <2> QED
    BY <1>1, <2>2
<1>3. PICK g : Gathers(g, rest) /\ FootersOf(rest) = g[n]
  BY <1>1, FootersExist
<1>4. \A i \in 0..n : g[i] \in Seq(Mail)
  BY <1>1, <1>3, GathersFooters
<1>5. first \in Seq(Mail)
  BY <1>1
<1>6. ASSUME NEW v \in Seq(Mail), NEW m \in Mail
      PROVE  Append(first \o v, m) = first \o Append(v, m)
  <2> HIDE DEF first
  <2> QED
    BY <1>5, SMTT(30)
<1> DEFINE S == {i \in 0..n : f[i + 1] = first \o g[i]}
<1>7. 0 \in S
  <2>1. f[1] = first
    <3>1. 1 \in 1..Len(mails) /\ 1 - 1 = 0
      BY <1>1
    <3>2. f[1] = IF mails[1].kind = "end" THEN Append(f[1-1], mails[1]) ELSE f[1-1]
      BY <1>2, <3>1 DEF Gathers
    <3>3. f[0] = <<>>
      BY <1>2 DEF Gathers
    <3>4. Append(<<>>, mails[1]) = <<mails[1]>>
      OBVIOUS
    <3> QED
      BY <3>1, <3>2, <3>3, <3>4
  <2>2. g[0] = <<>>
    BY <1>3 DEF Gathers
  <2>3. first \o <<>> = first
    BY <1>5, ConcatEmptySeq
  <2>4. 0 \in 0..n /\ 0 + 1 = 1
    BY <1>1
  <2> HIDE DEF first, n
  <2> QED
    BY <2>1, <2>2, <2>3, <2>4
<1>8. ASSUME NEW i \in 1..n, i - 1 \in S PROVE i \in S
  <2>1. f[i] = first \o g[i-1] /\ g[i-1] \in Seq(Mail)
    <3>1. i - 1 \in 0..n /\ (i - 1) + 1 = i
      BY <1>1
    <3> HIDE DEF first, n
    <3>2. f[(i - 1) + 1] = first \o g[i-1]
      BY <1>8
    <3> QED
      BY <1>4, <3>1, <3>2
  <2>2. f[i + 1] = IF rest[i].kind = "end" THEN Append(f[i], rest[i]) ELSE f[i]
    <3>1. i + 1 \in 1..Len(mails) /\ (i + 1) - 1 = i
      BY <1>1
    <3>2. f[i + 1] = IF mails[i + 1].kind = "end" THEN Append(f[(i + 1) - 1], mails[i + 1])
                     ELSE f[(i + 1) - 1]
      BY <1>2, <3>1 DEF Gathers
    <3> QED
      BY <1>1, <3>1, <3>2
  <2>3. g[i] = IF rest[i].kind = "end" THEN Append(g[i-1], rest[i]) ELSE g[i-1]
    BY <1>3 DEF Gathers
  <2>4. rest[i] \in Mail
    BY <1>1, ElementOfSeq
  <2>5. Append(first \o g[i-1], rest[i]) = first \o Append(g[i-1], rest[i])
    BY <1>6, <2>1, <2>4
  <2>6. i \in 0..n
    BY <1>1
  <2> HIDE DEF first, n
  <2>7. f[i + 1] = first \o g[i]
    BY <2>1, <2>2, <2>3, <2>5
  <2> QED
    BY <2>6, <2>7
<1>9. n \in S
  <2> HIDE DEF S, n
  <2>1. \A i \in 0..n : i \in S
    BY <1>1, <1>7, <1>8, UpTo
  <2> QED
    BY <1>1, <2>1
<1>10. FootersOf(mails) = first \o FootersOf(rest)
  BY <1>2, <1>3, <1>9
<1>11. <<>> \o FootersOf(rest) = FootersOf(rest)
  BY <1>1, FootersFacts, ConcatEmptySeq
<1> QED
  BY <1>10, <1>11 DEF rest
-----------------------------------------------------------------------------
(* The measurement path implements TelemetryService: the packets on their way *)

\* The packets on their way: in the hands of the comms thread, queued, in the hands of the
\* behavior thread, due.
Row(held, box, making, due) == held \o box \o making \o due

\* t is s with e behind it; t is s with e before it.
EndsIn(t, s, e)   == t = Append(s, e)
BeginsIn(t, e, s) == t # <<>> /\ Head(t) = e /\ Tail(t) = s

\* The first queued packet moves into the hands of the comms thread.
LEMMA RowGet ==
  ASSUME NEW S, NEW b \in Seq(S), NEW c \in Seq(S), NEW d \in Seq(S), b # <<>>
  PROVE  Row(<<Head(b)>>, Tail(b), c, d) = Row(<<>>, b, c, d)
  BY DEF Row

\* The packet of the behavior thread moves to the end of the queue.
LEMMA RowPut ==
  ASSUME NEW S, NEW a \in Seq(S), NEW b \in Seq(S), NEW d \in Seq(S), NEW e \in S,
         NEW b2 \in Seq(S), EndsIn(b2, b, e)
  PROVE  Row(a, b2, <<>>, d) = Row(a, b, <<e>>, d)
<1>1. a \o Append(b, e) = Append(a \o b, e)
  OBVIOUS
<1>2. ASSUME NEW x \in Seq(S) PROVE Append(x, e) \o <<>> = x \o <<e>>
  OBVIOUS
<1> DEFINE x == a \o b
<1>3. x \in Seq(S)
  OBVIOUS
<1> HIDE DEF x
<1>4. Append(x, e) \o <<>> = x \o <<e>>
  BY <1>2, <1>3
<1> QED
  BY <1>1, <1>4 DEF Row, EndsIn, x

\* The first packet due comes into the hands of the behavior thread.
LEMMA RowMake ==
  ASSUME NEW S, NEW a \in Seq(S), NEW b \in Seq(S), NEW d \in Seq(S), NEW e \in S,
         NEW d2 \in Seq(S), BeginsIn(d2, e, d)
  PROVE  Row(a, b, <<e>>, d) = Row(a, b, <<>>, d2)
<1>1. d2 = <<e>> \o d
  <2>1. d2 # <<>> => d2 = <<Head(d2)>> \o Tail(d2)
    OBVIOUS
  <2> QED
    BY <2>1 DEF BeginsIn
<1>2. ASSUME NEW x \in Seq(S) PROVE (x \o <<e>>) \o d = (x \o <<>>) \o (<<e>> \o d)
  OBVIOUS
<1> DEFINE x == a \o b
<1>3. x \in Seq(S)
  OBVIOUS
<1> HIDE DEF x
<1>4. (x \o <<e>>) \o d = (x \o <<>>) \o (<<e>> \o d)
  BY <1>2, <1>3
<1> QED
  BY <1>1, <1>4 DEF Row, x

\* One more packet is due: it is the last of the row.
LEMMA RowReport ==
  ASSUME NEW S, NEW a \in Seq(S), NEW b \in Seq(S), NEW c \in Seq(S), NEW d \in Seq(S),
         NEW e \in S, NEW d2 \in Seq(S), EndsIn(d2, d, e)
  PROVE  EndsIn(Row(a, b, c, d2), Row(a, b, c, d), e)
<1>1. ASSUME NEW x \in Seq(S) PROVE x \o Append(d, e) = Append(x \o d, e)
  OBVIOUS
<1> DEFINE x == a \o b \o c
<1>2. x \in Seq(S)
  <2>1. a \o b \in Seq(S)
    OBVIOUS
  <2> QED
    BY <2>1
<1>3. Row(a, b, c, d2) = x \o d2 /\ Row(a, b, c, d) = x \o d
  BY DEF Row
<1> HIDE DEF x
<1>4. x \o d2 = Append(x \o d, e)
  BY <1>1, <1>2 DEF EndsIn
<1> QED
  BY <1>3, <1>4 DEF EndsIn

\* The packet in the hands of the comms thread leaves: it was the first of the row.
LEMMA RowHandOver ==
  ASSUME NEW S, NEW b \in Seq(S), NEW c \in Seq(S), NEW d \in Seq(S), NEW e \in S
  PROVE  BeginsIn(Row(<<e>>, b, c, d), e, Row(<<>>, b, c, d))
<1>1. ASSUME NEW x \in Seq(S)
      PROVE  <<e>> \o x # <<>> /\ Head(<<e>> \o x) = e /\ Tail(<<e>> \o x) = x
  <2>1. <<e>> \o x # <<>>
    OBVIOUS
  <2>2. Head(<<e>> \o x) = e
    OBVIOUS
  <2>3. Tail(<<e>> \o x) = x
    OBVIOUS
  <2> QED
    BY <2>1, <2>2, <2>3
<1> DEFINE x == Row(<<>>, b, c, d)
<1>2. x \in Seq(S)
  <2>1. <<>> \o b = b /\ b \o c \in Seq(S)
    OBVIOUS
  <2> QED
    BY <2>1 DEF Row
<1>3. Row(<<e>>, b, c, d) = <<e>> \o x
  <2>1. ((<<e>> \o b) \o c) \o d = <<e>> \o ((b \o c) \o d)
    OBVIOUS
  <2>2. <<>> \o b = b
    OBVIOUS
  <2> QED
    BY <2>1, <2>2 DEF Row
<1> HIDE DEF x
<1> QED
  BY <1>1, <1>2, <1>3 DEF BeginsIn, x

\* What each poll's packet would carry, and the packets due for the footers f.
Readings == [n \in Nat |-> ReadingOf(n)]
PacketFor(m, r) == [of |-> m.poll, reading |-> r[m.poll]]
DueFor(f, r) == [k \in 1..Len(f) |-> PacketFor(f[k], r)]

\* r and q give the same packets for the footers f.
Agree(f, r, q) == \A k \in 1..Len(f) : r[f[k].poll] = q[f[k].poll]

\* The packets due are packets, one for each footer.
LEMMA DueForFacts ==
  ASSUME NEW f \in Seq(Mail), NEW r \in [Nat -> Nat]
  PROVE  /\ DueFor(f, r) \in Seq(Packet) /\ Len(DueFor(f, r)) = Len(f)
         /\ \A k \in 1..Len(f) : DueFor(f, r)[k] = PacketFor(f[k], r)
<1>1. Len(f) \in Nat /\ \A k \in 1..Len(f) : f[k].poll \in Nat
  <2>1. Len(f) \in Nat /\ \A k \in 1..Len(f) : f[k] \in Mail
    BY ElementOfSeq, LenProperties
  <2>2. \A m \in Mail : m.poll \in Nat
    BY DEF Mail
  <2> QED
    BY <2>1, <2>2
<1>2. \A k \in 1..Len(f) : PacketFor(f[k], r) \in Packet
  BY <1>1 DEF PacketFor, Packet
<1>3. DueFor(f, r) \in Seq(Packet)
  BY <1>1, <1>2, IsASeq DEF DueFor
<1>4. Len(DueFor(f, r)) = Len(f)
  BY <1>1 DEF DueFor
<1>5. \A k \in 1..Len(f) : DueFor(f, r)[k] = PacketFor(f[k], r)
  BY DEF DueFor
<1> QED
  BY <1>3, <1>4, <1>5

\* While the footers stay and their readings too, the packets due stay.
LEMMA DueForAlike ==
  ASSUME NEW f \in Seq(Mail), NEW r \in [Nat -> Nat], NEW q \in [Nat -> Nat], Agree(f, r, q)
  PROVE  DueFor(f, q) = DueFor(f, r)
  BY DEF DueFor, PacketFor, Agree

\* A sequence that is another one with e behind it is recognised by its elements.
LEMMA EndsInAgain ==
  ASSUME NEW S, NEW s \in Seq(S), NEW t \in Seq(S), NEW e \in S, Len(t) = Len(s) + 1,
         \A k \in 1..Len(s) : t[k] = s[k], t[Len(s) + 1] = e
  PROVE  EndsIn(t, s, e)
<1> DEFINE u == Append(s, e)
<1>1. /\ u \in Seq(S) /\ Len(u) = Len(s) + 1 /\ u[Len(s) + 1] = e /\ Len(s) \in Nat
      /\ \A k \in 1..Len(s) : u[k] = s[k]
  BY AppendFacts
<1> HIDE DEF u
<1>2. \A k \in 1..Len(t) : t[k] = u[k]
  <2> TAKE k \in 1..Len(t)
  <2>1. k \in 1..Len(s) \/ k = Len(s) + 1
    BY <1>1
  <2> QED
    BY <1>1, <2>1
<1>3. t = u
  BY <1>1, <1>2, SeqEqual
<1> QED
  BY <1>3 DEF EndsIn, u

\* One more footer is one more packet due.
LEMMA DueForAppend ==
  ASSUME NEW f \in Seq(Mail), NEW m \in Mail, NEW r \in [Nat -> Nat], NEW q \in [Nat -> Nat],
         Agree(f, r, q), NEW g \in Seq(Mail), EndsIn(g, f, m)
  PROVE  EndsIn(DueFor(g, q), DueFor(f, r), PacketFor(m, q))
<1>1. /\ Len(f) \in Nat /\ Len(g) = Len(f) + 1 /\ g[Len(f) + 1] = m
      /\ \A k \in 1..Len(f) : g[k] = f[k]
  BY AppendFacts DEF EndsIn
<1> DEFINE s == DueFor(f, r)
           t == DueFor(g, q)
           e == PacketFor(m, q)
<1>2. /\ s \in Seq(Packet) /\ Len(s) = Len(f)
      /\ \A k \in 1..Len(f) : s[k] = PacketFor(f[k], r)
  BY DueForFacts
<1>3. /\ t \in Seq(Packet) /\ Len(t) = Len(g)
      /\ \A k \in 1..Len(g) : t[k] = PacketFor(g[k], q)
  BY DueForFacts
<1> HIDE DEF s, t
<1>4. t[Len(f) + 1] = e
  <2>1. Len(f) + 1 \in 1..Len(g)
    BY <1>1
  <2> QED
    BY <1>1, <1>3, <2>1
<1>5. \A k \in 1..Len(f) : t[k] = s[k]
  <2> TAKE k \in 1..Len(f)
  <2>1. k \in 1..Len(g)
    BY <1>1
  <2>2. t[k] = PacketFor(f[k], q)
    BY <1>1, <1>3, <2>1
  <2>3. r[f[k].poll] = q[f[k].poll]
    BY DEF Agree
  <2> QED
    BY <1>2, <2>2, <2>3 DEF PacketFor
<1>6. e \in Packet
  <2>1. Len(f) + 1 \in 1..Len(t)
    BY <1>1, <1>3
  <2> HIDE DEF e
  <2> QED
    BY <1>3, <1>4, <2>1, ElementOfSeq
<1> HIDE DEF e
<1>7. EndsIn(t, s, e)
  <2>1. /\ Len(t) = Len(s) + 1 /\ t[Len(s) + 1] = e
        /\ \A k \in 1..Len(s) : t[k] = s[k]
    BY <1>1, <1>2, <1>3, <1>4, <1>5
  <2> QED
    BY <1>2, <1>3, <1>6, <2>1, EndsInAgain
<1> QED
  BY <1>7 DEF s, t, e

\* Without its first footer a stream lacks the first packet due.
LEMMA DueForTail ==
  ASSUME NEW f \in Seq(Mail), NEW m \in Mail, NEW r \in [Nat -> Nat], NEW q \in [Nat -> Nat],
         Agree(f, r, q), NEW g \in Seq(Mail), g = <<m>> \o f
  PROVE  BeginsIn(DueFor(g, r), PacketFor(m, r), DueFor(f, q))
<1>1. /\ Len(f) \in Nat /\ Len(g) = Len(f) + 1 /\ g[1] = m
      /\ \A k \in 1..Len(f) : g[k + 1] = f[k]
  <2>1. Len(f) \in Nat /\ Len(g) = Len(f) + 1
    OBVIOUS
  <2>2. g[1] = m
    OBVIOUS
  <2>3. ASSUME NEW k \in 1..Len(f) PROVE g[k + 1] = f[k]
    OBVIOUS
  <2> QED
    BY <2>1, <2>2, <2>3
<1> DEFINE s == DueFor(f, q)
           t == DueFor(g, r)
           e == PacketFor(m, r)
<1>2. /\ s \in Seq(Packet) /\ Len(s) = Len(f)
      /\ \A k \in 1..Len(f) : s[k] = PacketFor(f[k], q)
  BY DueForFacts
<1>3. /\ t \in Seq(Packet) /\ Len(t) = Len(g)
      /\ \A k \in 1..Len(g) : t[k] = PacketFor(g[k], r)
  BY DueForFacts
<1> HIDE DEF s, t
<1>4. t # <<>> /\ t[1] = e
  <2>1. 1 \in 1..Len(g) /\ Len(t) # 0
    BY <1>1, <1>3
  <2> QED
    BY <1>1, <1>3, <2>1, EmptySeq
<1>5. /\ Tail(t) \in Seq(Packet) /\ Len(Tail(t)) = Len(t) - 1 /\ Head(t) = t[1]
      /\ \A k \in 1..Len(Tail(t)) : Tail(t)[k] = t[k + 1]
  BY <1>3, <1>4, TailFacts
<1>6. \A k \in 1..Len(f) : t[k + 1] = s[k]
  <2> TAKE k \in 1..Len(f)
  <2>1. k + 1 \in 1..Len(g)
    BY <1>1
  <2>2. t[k + 1] = PacketFor(f[k], r)
    BY <1>1, <1>3, <2>1
  <2>3. r[f[k].poll] = q[f[k].poll]
    BY DEF Agree
  <2> QED
    BY <1>2, <2>2, <2>3 DEF PacketFor
<1>7. Tail(t) = s
  <2> DEFINE u == Tail(t)
  <2>a. /\ u \in Seq(Packet) /\ Len(u) = Len(t) - 1
        /\ \A k \in 1..Len(u) : u[k] = t[k + 1]
    BY <1>5
  <2> HIDE DEF u
  <2>b. Len(u) = Len(s) /\ Len(s) = Len(f)
    BY <1>1, <1>2, <1>3, <2>a
  <2>1. u \in Seq(Packet) /\ Len(u) = Len(s) /\ \A k \in 1..Len(s) : u[k] = s[k]
    BY <1>6, <2>a, <2>b
  <2>2. u = s
    BY <1>2, <2>1, SeqEqual
  <2> QED
    BY <2>2 DEF u
<1> QED
  BY <1>4, <1>5, <1>7 DEF BeginsIn, s, t, e
-----------------------------------------------------------------------------
(* The measurement path implements TelemetryService: the steps *)

\* The reading of poll n is on its way to the packet, or already in the profile.
Loaded(n) ==
  \/ \E i \in 1..Len(llp_box) : llp_box[i].kind = "data" /\ llp_box[i].poll = n
  \/ behavior = "apply" /\ b_mail.kind = "data" /\ b_mail.poll = n
  \/ profile = n

\* What a packet would carry is told by what is on its way.
LEMMA ReadingsFit == TypeOK => \A n \in Nat : Readings[n] = IF Loaded(n) THEN n ELSE 0
<1> SUFFICES ASSUME TypeOK, NEW n \in Nat
             PROVE  Readings[n] = IF Loaded(n) THEN n ELSE 0
  OBVIOUS
<1>1. \A m \in Mail : m = [kind |-> "data", poll |-> n] <=> m.kind = "data" /\ m.poll = n
  BY DEF Mail
<1>2. b_mail \in Mail /\ \A i \in 1..Len(llp_box) : llp_box[i] \in Mail
  BY ElementOfSeq DEF TypeOK
<1>3. Readings[n] = ReadingOf(n)
  BY DEF Readings
<1> QED
  BY <1>1, <1>2, <1>3 DEF ReadingOf, Loaded

\* Pending is a row of packets, its last part the packets due for the footers queued.
Parts ==
  /\ Readings \in [Nat -> Nat]
  /\ \A n \in Nat : Readings[n] = IF Loaded(n) THEN n ELSE 0
  /\ FootersOf(llp_box) \in Seq(Mail)
  /\ Held \in Seq(Packet) /\ up_box \in Seq(Packet) /\ Making \in Seq(Packet)
  /\ Due \in Seq(Packet) /\ Due = DueFor(FootersOf(llp_box), Readings)
  /\ Pending = Row(Held, up_box, Making, Due)

\* With the types, Pending has this form.
LEMMA PartsFit == TypeOK => Parts
<1> SUFFICES ASSUME TypeOK PROVE Parts
  OBVIOUS
<1>1. llp_box \in Seq(Mail) /\ up_box \in Seq(Packet) /\ payload \in Packet
      /\ profile \in Nat /\ b_mail.poll \in Nat
  BY DEF TypeOK, Mail
<1>2. Readings \in [Nat -> Nat]
  BY DEF Readings, ReadingOf
<1>3. FootersOf(llp_box) \in Seq(Mail)
  BY <1>1, FootersFacts
<1>4. Held \in Seq(Packet)
  BY <1>1 DEF Held
<1>5. Making \in Seq(Packet)
  <2>1. GetNewDecadaPacket \in Packet
    BY <1>1 DEF GetNewDecadaPacket, Packet
  <2> QED
    BY <2>1 DEF Making
<1>6. Due = DueFor(FootersOf(llp_box), Readings)
  <2> DEFINE f == FootersOf(llp_box)
  <2>1. \A k \in 1..Len(f) : f[k] \in Mail
    BY <1>3, ElementOfSeq
  <2>2. \A k \in 1..Len(f) : f[k].poll \in Nat
    BY <2>1 DEF Mail
  <2>3. Due = [k \in 1..Len(f) |-> [of |-> f[k].poll, reading |-> ReadingOf(f[k].poll)]]
    BY DEF Due
  <2>4. \A n \in Nat : Readings[n] = ReadingOf(n)
    BY DEF Readings
  <2> HIDE DEF f
  <2>5. \A k \in 1..Len(f) : [of |-> f[k].poll, reading |-> ReadingOf(f[k].poll)]
                             = PacketFor(f[k], Readings)
    BY <2>2, <2>4 DEF PacketFor
  <2>6. Due = DueFor(f, Readings)
    BY <2>3, <2>5 DEF DueFor
  <2> QED
    BY <2>6 DEF f
<1>7. Due \in Seq(Packet)
  BY <1>2, <1>3, <1>6, DueForFacts
<1>8. Pending = Row(Held, up_box, Making, Due)
  BY DEF Pending, Row
<1> QED
  BY <1>1, <1>2, <1>3, <1>4, <1>5, <1>6, <1>7, <1>8, ReadingsFit DEF Parts

\* r and q agree on the footers of a queue when they agree on the footers in it.
LEMMA AgreeOnFooters ==
  ASSUME NEW box \in Seq(Mail), NEW r, NEW q,
         \A j \in 1..Len(box) : box[j].kind = "end" => r[box[j].poll] = q[box[j].poll]
  PROVE  Agree(FootersOf(box), r, q)
  BY FootersFacts DEF Agree

\* It has this form after a step, too.
LEMMA PartsFitNext == TypeOK' => Parts'
  BY PartsFit, PTL

\* A mail in the queue is a mail, and a poll has a number.
LEMMA QueueFacts ==
  TypeOK => /\ Len(llp_box) \in Nat /\ b_mail \in Mail /\ b_mail.poll \in Nat
            /\ llp_box \in Seq(Mail)
            /\ \A i \in 1..Len(llp_box) : llp_box[i] \in Mail /\ llp_box[i].poll \in Nat
<1> SUFFICES ASSUME TypeOK
             PROVE  /\ Len(llp_box) \in Nat /\ b_mail \in Mail /\ b_mail.poll \in Nat
                    /\ llp_box \in Seq(Mail)
                    /\ \A i \in 1..Len(llp_box) : llp_box[i] \in Mail /\ llp_box[i].poll \in Nat
  OBVIOUS
<1>1. \A m \in Mail : m.poll \in Nat
  BY DEF Mail
<1>2. /\ Len(llp_box) \in Nat /\ b_mail \in Mail /\ llp_box \in Seq(Mail)
      /\ \A i \in 1..Len(llp_box) : llp_box[i] \in Mail
  BY LenProperties, ElementOfSeq DEF TypeOK
<1> QED
  BY <1>1, <1>2

\* The behavior thread takes a mail: a footer becomes the packet being made, with the reading
\* it was due with; another mail leaves the packets as they are.
LEMMA GetKeeps ==
  TypeOK /\ TypeOK' /\ StreamInv /\ FreshInv /\ BehaviorGet => Pending' = Pending
<1> SUFFICES ASSUME TypeOK, TypeOK', StreamInv, FreshInv, BehaviorGet
             PROVE  Pending' = Pending
  OBVIOUS
<1>1. Parts /\ Parts'
  BY PartsFit, PartsFitNext
<1>2. PICK h, t : h = llp_box[1] /\ t = Tail(llp_box)
  OBVIOUS
<1>3. /\ b_mail' = h /\ llp_box' = t /\ llp_box # <<>>
      /\ behavior = "loop" /\ behavior' = "apply"
      /\ UNCHANGED <<up_box, profile, comms, payload>>
  BY <1>2, TailFacts DEF BehaviorGet, upVars, cVars, TypeOK
<1>4. /\ t \in Seq(Mail) /\ Len(t) = Len(llp_box) - 1 /\ Len(t) \in Nat
      /\ \A i \in 1..Len(t) : t[i] = llp_box[i + 1]
      /\ 1 \in 1..Len(llp_box) /\ h \in Mail /\ h.poll \in Nat
  BY <1>2, <1>3, QueueFacts, TailFacts
<1>5. FootersOf(llp_box) = IF h.kind = "end" THEN <<h>> \o FootersOf(t) ELSE FootersOf(t)
  BY <1>2, <1>3, <1>4, QueueFacts, FootersOfTail
<1>6. \A n \in Nat : Loaded(n)' <=> Loaded(n)
  <2> TAKE n \in Nat
  <2> DEFINE D(m) == m.kind = "data" /\ m.poll = n
  <2>1. (\E i \in 1..Len(llp_box) : D(llp_box[i])) <=> D(h) \/ \E i \in 1..Len(t) : D(t[i])
    <3>1. \A i \in 1..Len(llp_box) : i = 1 \/ (i - 1 \in 1..Len(t) /\ t[i - 1] = llp_box[i])
      <4> TAKE i \in 1..Len(llp_box)
      <4>1. i # 1 => i - 1 \in 1..Len(t) /\ (i - 1) + 1 = i
        BY <1>4, QueueFacts
      <4> QED
        BY <1>4, <4>1
    <3>2. \A i \in 1..Len(t) : i + 1 \in 1..Len(llp_box) /\ t[i] = llp_box[i + 1]
      <4>1. Len(llp_box) \in Nat /\ Len(t) \in Nat /\ Len(t) = Len(llp_box) - 1
        BY <1>4, QueueFacts
      <4>2. \A i \in 1..Len(t) : i + 1 \in 1..Len(llp_box)
        BY ONLY <4>1
      <4>3. \A i \in 1..Len(t) : t[i] = llp_box[i + 1]
        BY <1>4
      <4> QED
        BY <4>2, <4>3
    <3> HIDE DEF D
    <3> QED
      BY <1>2, <1>4, <3>1, <3>2
  <2> QED
    BY <1>3, <2>1 DEF Loaded
<1>7. Readings' = Readings
  <2>1. \A n \in Nat : Readings'[n] = Readings[n]
    BY <1>1, <1>6 DEF Parts
  <2> QED
    BY <1>1, <2>1 DEF Parts
<1>8. Held' = Held /\ Making = <<>>
  BY <1>3 DEF Held, Making
<1>9. CASE h.kind = "end"
  <2>1. b_mail.kind # "end" /\ b_mail.poll = h.poll
    BY <1>2, <1>4, <1>9 DEF StreamInv, Follows
  <2>2. profile \in {0, h.poll}
    BY <1>3, <2>1 DEF FreshInv, ProfileFits
  <2>3. \A i \in 1..Len(llp_box) : ~(llp_box[i].kind = "data" /\ llp_box[i].poll = h.poll)
    <3> SUFFICES ASSUME NEW i \in 1..Len(llp_box), llp_box[i].kind = "data"
                 PROVE  llp_box[i].poll # h.poll
      OBVIOUS
    <3>1. 1 < i
      BY <1>2, <1>9, QueueFacts
    <3>2. h.poll < llp_box[i].poll
      BY <1>2, <1>4, <1>9, <3>1 DEF StreamInv, Precedes
    <3> QED
      BY <1>4, <3>2, QueueFacts
  <2>4. Readings[h.poll] = profile
    BY <1>1, <1>3, <1>4, <2>2, <2>3 DEF Parts, Loaded
  <2>5. Making' = <<PacketFor(h, Readings)>>
    BY <1>3, <1>9, <2>4 DEF Making, GetNewDecadaPacket, PacketFor
  <2>6. PacketFor(h, Readings) \in Packet
    BY <1>1, <1>4 DEF PacketFor, Packet, Parts
  <2>7. BeginsIn(Due, PacketFor(h, Readings), Due')
    <3>1. Agree(FootersOf(t), Readings, Readings)
      BY DEF Agree
    <3>2. /\ FootersOf(t) \in Seq(Mail) /\ FootersOf(llp_box) \in Seq(Mail)
          /\ FootersOf(llp_box) = <<h>> \o FootersOf(t)
      BY <1>1, <1>4, <1>5, <1>9, FootersFacts DEF Parts
    <3>3. Due = DueFor(FootersOf(llp_box), Readings) /\ Due' = DueFor(FootersOf(t), Readings)
      BY <1>1, <1>3, <1>7 DEF Parts
    <3> QED
      BY <1>1, <1>4, <3>1, <3>2, <3>3, DueForTail DEF Parts
  <2>8. /\ Due \in Seq(Packet) /\ Due' \in Seq(Packet) /\ up_box \in Seq(Packet)
        /\ Held \in Seq(Packet)
    BY <1>1 DEF Parts
  <2>9. Row(Held, up_box, <<PacketFor(h, Readings)>>, Due') = Row(Held, up_box, <<>>, Due)
    BY <2>6, <2>7, <2>8, RowMake
  <2> QED
    BY <1>1, <1>3, <1>8, <2>5, <2>9 DEF Parts
<1>10. CASE h.kind # "end"
  <2>1. Making' = <<>>
    BY <1>3, <1>10 DEF Making
  <2>2. Due' = Due
    BY <1>1, <1>3, <1>5, <1>7, <1>10 DEF Parts
  <2> QED
    BY <1>1, <1>3, <1>8, <2>1, <2>2 DEF Parts
<1> QED
  BY <1>9, <1>10

\* A mail is applied: what the packets due will carry stays, for their polls come after it.
LEMMA ApplyKeeps ==
  TypeOK /\ TypeOK' /\ StreamInv /\ StartInv /\ BehaviorApply => Pending' = Pending
<1> SUFFICES ASSUME TypeOK, TypeOK', StreamInv, StartInv, BehaviorApply
             PROVE  Pending' = Pending
  OBVIOUS
<1>1. Parts /\ Parts'
  BY PartsFit, PartsFitNext
<1>2. /\ behavior = "apply" /\ behavior' = IF b_mail.kind = "end" THEN "lock" ELSE "loop"
      /\ profile' = ProfileAfter(b_mail)
      /\ UNCHANGED <<llp_box, up_box, b_mail, comms, payload>>
  BY DEF BehaviorApply, ReleasesPacket, upVars, cVars
<1>3. Held' = Held
  BY <1>2 DEF Held
<1>4. Making' = Making
  BY <1>2 DEF Making, GetNewDecadaPacket, ProfileAfter
<1>5. ASSUME NEW j \in 1..Len(llp_box), llp_box[j].kind = "end"
      PROVE  Readings'[llp_box[j].poll] = Readings[llp_box[j].poll]
  <2>0. PICK n : n = llp_box[j].poll
    OBVIOUS
  <2>1. /\ n \in Nat /\ b_mail.poll <= n /\ b_mail.poll \in Nat
        /\ profile \in Nat /\ profile <= b_mail.poll
        /\ b_mail.kind \in {"start", "data", "end"}
    BY <2>0, QueueFacts DEF StreamInv, StartInv, Precedes, TypeOK, Mail
  <2>2. b_mail.kind = "start" => profile < b_mail.poll
    BY <1>2 DEF StartInv
  <2>3. Loaded(n)' <=> Loaded(n)
    <3>1. CASE b_mail.kind = "start"
      <4>1. profile # n /\ profile' = 0 /\ n # 0
        BY <1>2, <2>1, <2>2, <3>1 DEF ProfileAfter
      <4> QED
        BY <1>2, <3>1, <4>1 DEF Loaded
    <3>2. CASE b_mail.kind = "data"
      <4>1. profile' = b_mail.poll /\ (profile = n => b_mail.poll = n)
        BY <1>2, <2>1, <3>2 DEF ProfileAfter
      <4> QED
        BY <1>2, <3>2, <4>1 DEF Loaded
    <3>3. CASE b_mail.kind = "end"
      BY <1>2, <3>3 DEF Loaded, ProfileAfter
    <3> QED
      BY <2>1, <3>1, <3>2, <3>3
  <2>4. Readings'[n] = Readings[n]
    BY <1>1, <2>1, <2>3 DEF Parts
  <2> QED
    BY <2>0, <2>4
<1>6. Due' = Due
  <2> DEFINE r == Readings
             q == Readings'
             box == llp_box
  <2>1. /\ r \in [Nat -> Nat] /\ q \in [Nat -> Nat] /\ box \in Seq(Mail)
        /\ \A j \in 1..Len(box) : box[j].kind = "end" => r[box[j].poll] = q[box[j].poll]
    BY <1>1, <1>5, QueueFacts DEF Parts
  <2>2. /\ FootersOf(box) \in Seq(Mail) /\ Due = DueFor(FootersOf(box), r)
        /\ Due' = DueFor(FootersOf(box), q)
    BY <1>1, <1>2 DEF Parts
  <2> HIDE DEF r, q, box
  <2>3. Agree(FootersOf(box), r, q)
    BY <2>1, AgreeOnFooters
  <2> QED
    BY <2>1, <2>2, <2>3, DueForAlike
<1> QED
  BY <1>1, <1>2, <1>3, <1>4, <1>6 DEF Parts

\* A step that leaves the mails, the profile and the packets where they are.
Quiet ==
  /\ UNCHANGED <<llp_box, up_box, b_mail, profile, payload>>
  /\ Held' = Held /\ Making' = Making
  /\ (behavior = "apply") = (behavior' = "apply")

\* Such a step leaves the packets on their way as they are.
LEMMA QuietKeeps == Quiet => Pending' = Pending
  BY DEF Quiet, Pending, Due, ReadingOf

\* The behavior thread puts its packet behind those queued.
LEMMA PutKeeps == TypeOK /\ TypeOK' /\ FreshInv /\ BehaviorPut => Pending' = Pending
<1> SUFFICES ASSUME TypeOK, TypeOK', FreshInv, BehaviorPut
             PROVE  Pending' = Pending
  OBVIOUS
<1>1. Parts /\ Parts'
  BY PartsFit, PartsFitNext
<1>2. /\ behavior = "put" /\ behavior' = "unlock"
      /\ UNCHANGED <<llp_box, b_mail, profile, comms, payload>>
  BY DEF BehaviorPut, llpVars, cVars
<1>3. PICK e : e = GetNewDecadaPacket
  OBVIOUS
<1>4. /\ Held' = Held /\ Making = <<e>> /\ Making' = <<>> /\ EndsIn(up_box', up_box, e)
      /\ e \in Packet
  BY <1>2, <1>3, QueueFacts
  DEF Held, Making, BehaviorPut, EndsIn, GetNewDecadaPacket, Packet, TypeOK
<1>5. Due' = Due
  BY <1>2 DEF Due, ReadingOf
<1>6. /\ up_box \in Seq(Packet) /\ up_box' \in Seq(Packet) /\ Held \in Seq(Packet)
      /\ Due \in Seq(Packet)
      /\ Pending = Row(Held, up_box, <<e>>, Due) /\ Pending' = Row(Held, up_box', <<>>, Due)
  BY <1>1, <1>4, <1>5 DEF Parts
<1> QED
  BY <1>4, <1>6, RowPut

\* The comms thread takes the first packet queued.
LEMMA CommsGetKeeps == TypeOK /\ TypeOK' /\ CommsGet => Pending' = Pending
<1> SUFFICES ASSUME TypeOK, TypeOK', CommsGet
             PROVE  Pending' = Pending
  OBVIOUS
<1>1. Parts /\ Parts'
  BY PartsFit, PartsFitNext
<1>2. /\ up_box # <<>> /\ up_box' = Tail(up_box) /\ Held = <<>> /\ Held' = <<Head(up_box)>>
      /\ UNCHANGED <<llp_box, b_mail, profile, behavior>>
  BY DEF CommsGet, Held, llpVars, bVars
<1>3. Due' = Due /\ Making' = Making
  BY <1>2 DEF Due, ReadingOf, Making, GetNewDecadaPacket
<1>4. /\ up_box \in Seq(Packet) /\ Making \in Seq(Packet) /\ Due \in Seq(Packet)
      /\ Pending = Row(<<>>, up_box, Making, Due)
      /\ Pending' = Row(<<Head(up_box)>>, Tail(up_box), Making, Due)
  BY <1>1, <1>2, <1>3 DEF Parts
<1> QED
  BY <1>2, <1>4, RowGet

\* Publish, whatever its result, hands over the first packet on its way.
LEMMA PublishHandsOver == TypeOK /\ TypeOK' /\ CommsPublish => Service!HandOver
<1> SUFFICES ASSUME TypeOK, TypeOK', CommsPublish
             PROVE  Service!HandOver
  OBVIOUS
<1>1. Parts /\ Parts'
  BY PartsFit, PartsFitNext
<1>2. /\ published' \in {published, Append(published, payload)}
      /\ Held = <<payload>> /\ Held' = <<>> /\ payload \in Packet
      /\ UNCHANGED <<llp_box, up_box, b_mail, profile, behavior, poll, sensor>>
  BY DEF CommsPublish, Held, llpVars, upVars, sVars, bVars, TypeOK
<1>3. Due' = Due /\ Making' = Making
  BY <1>2 DEF Due, ReadingOf, Making, GetNewDecadaPacket
<1>4. /\ up_box \in Seq(Packet) /\ Making \in Seq(Packet) /\ Due \in Seq(Packet)
      /\ Pending = Row(<<payload>>, up_box, Making, Due)
      /\ Pending' = Row(<<>>, up_box, Making, Due)
  BY <1>1, <1>2, <1>3 DEF Parts
<1>5. BeginsIn(Pending, payload, Pending')
  BY <1>2, <1>4, RowHandOver
<1> QED
  BY <1>2, <1>5 DEF Service!HandOver, BeginsIn

\* A footer put in the queue reports its poll; the other mails change nothing the service
\* sees, for a reading goes to the packet of the poll still open.
LEMMA SensorPutReports ==
  TypeOK /\ TypeOK' /\ StreamInv /\ SensorPut => Service!Report \/ UNCHANGED Service!vars
<1> SUFFICES ASSUME TypeOK, TypeOK', StreamInv, SensorPut
             PROVE  Service!Report \/ UNCHANGED Service!vars
  OBVIOUS
<1>1. Parts /\ Parts'
  BY PartsFit, PartsFitNext
<1>2. PICK m, p : m = s_mail /\ p = poll
  OBVIOUS
<1>3. /\ m \in Mail /\ m.kind = sensor /\ m.poll = p /\ p \in Nat
      /\ sensor \in {"start", "data", "end"} /\ sensor' \in NextKind(sensor)
      /\ UNCHANGED <<up_box, b_mail, profile, behavior, comms, payload, poll, published>>
  BY <1>2 DEF SensorPut, StreamInv, TypeOK, Mail, upVars, bVars, cVars, history
<1>4. PICK box, new : box = llp_box /\ new = llp_box'
  OBVIOUS
<1>5. /\ box \in Seq(Mail) /\ Len(box) \in Nat /\ Len(new) = Len(box) + 1
      /\ \A i \in 1..Len(box) : new[i] = box[i]
      /\ new[Len(box) + 1] = m
      /\ FootersOf(new) = IF m.kind = "end" THEN Append(FootersOf(box), m) ELSE FootersOf(box)
  <2>1. new = Append(box, m) /\ box \in Seq(Mail)
    BY <1>2, <1>4 DEF SensorPut, TypeOK
  <2> QED
    BY <1>3, <2>1, AppendFacts, FootersOfAppend
<1>6. \A n \in Nat : (m.kind = "data" /\ n = p) \/ (Loaded(n)' <=> Loaded(n))
  <2> TAKE n \in Nat
  <2> DEFINE D(x) == x.kind = "data" /\ x.poll = n
  <2>1. (\E i \in 1..Len(new) : D(new[i])) <=> D(m) \/ \E i \in 1..Len(box) : D(box[i])
    <3>1. \A i \in 1..Len(new) : i \in 1..Len(box) \/ i = Len(box) + 1
      BY <1>5
    <3>2. Len(box) + 1 \in 1..Len(new) /\ \A i \in 1..Len(box) : i \in 1..Len(new)
      BY <1>5
    <3> HIDE DEF D
    <3> QED
      BY <1>5, <3>1, <3>2
  <2> QED
    BY <1>3, <1>4, <2>1 DEF Loaded
<1>7. Held' = Held /\ Making' = Making
  BY <1>3 DEF Held, Making, GetNewDecadaPacket
<1>r. PICK r, q : r = Readings /\ q = Readings'
  OBVIOUS
<1>8. /\ r \in [Nat -> Nat] /\ q \in [Nat -> Nat]
      /\ \A n \in Nat : (m.kind = "data" /\ n = p) \/ q[n] = r[n]
      /\ q[p] \in {0, p}
  <2>1. r \in [Nat -> Nat] /\ q \in [Nat -> Nat]
    BY <1>1, <1>r DEF Parts
  <2>2. \A n \in Nat : (m.kind = "data" /\ n = p) \/ q[n] = r[n]
    BY <1>1, <1>r, <1>6 DEF Parts
  <2>3. q[p] \in {0, p}
    BY <1>1, <1>3, <1>r DEF Parts
  <2> QED
    BY <2>1, <2>2, <2>3
<1>9. Agree(FootersOf(box), r, q)
  <2>1. ASSUME NEW j \in 1..Len(box), box[j].kind = "end"
        PROVE  r[box[j].poll] = q[box[j].poll]
    <3>1. box[j].poll < p /\ box[j].poll \in Nat
      BY <1>2, <1>3, <1>4, <2>1, QueueFacts DEF StreamInv
    <3>2. PICK n \in Nat : n = box[j].poll /\ n < p
      BY <3>1
    <3>3. n # p
      BY <1>3, <3>2
    <3>4. q[n] = r[n]
      BY <1>8, <3>3
    <3> QED
      BY <3>2, <3>4
  <2> QED
    BY <1>5, <2>1, AgreeOnFooters
<1>10. /\ Due = DueFor(FootersOf(box), r) /\ Due' = DueFor(FootersOf(new), q)
       /\ FootersOf(box) \in Seq(Mail) /\ FootersOf(new) \in Seq(Mail)
  BY <1>1, <1>4, <1>r DEF Parts
<1>11. CASE sensor = "end"
  <2>1. EndsIn(FootersOf(new), FootersOf(box), m)
    BY <1>3, <1>5, <1>11 DEF EndsIn
  <2>2. EndsIn(Due', Due, PacketFor(m, q))
    BY <1>3, <1>8, <1>9, <1>10, <2>1, DueForAppend
  <2>3. PacketFor(m, q) = [of |-> p, reading |-> q[p]] /\ PacketFor(m, q) \in Packet
    BY <1>3, <1>8 DEF PacketFor, Packet
  <2>4. EndsIn(Pending', Pending, PacketFor(m, q))
    <3>1. /\ Held \in Seq(Packet) /\ up_box \in Seq(Packet) /\ Making \in Seq(Packet)
          /\ Due \in Seq(Packet) /\ Due' \in Seq(Packet)
          /\ Pending = Row(Held, up_box, Making, Due)
          /\ Pending' = Row(Held, up_box, Making, Due')
      BY <1>1, <1>3, <1>7 DEF Parts
    <3> QED
      BY <2>2, <2>3, <3>1, RowReport
  <2>5. sensor # "idle" /\ ~(sensor' # "idle")
    BY <1>3, <1>11 DEF NextKind
  <2>6. \E x \in {0, poll} : Pending' = Append(Pending, [of |-> poll, reading |-> x])
    <3>1. Pending' = Append(Pending, [of |-> poll, reading |-> q[p]])
      BY <1>2, <2>3, <2>4 DEF EndsIn
    <3>2. q[p] \in {0, poll}
      BY <1>2, <1>8
    <3> QED
      BY <3>1, <3>2
  <2> QED
    BY <1>3, <2>5, <2>6 DEF Service!Report
<1>12. CASE sensor # "end"
  <2>1. Due' = Due
    BY <1>3, <1>5, <1>8, <1>9, <1>10, <1>12, DueForAlike
  <2>2. Pending' = Pending
    BY <1>1, <1>3, <1>7, <2>1 DEF Parts
  <2>3. sensor # "idle" /\ sensor' # "idle"
    BY <1>3, <1>12 DEF NextKind
  <2> QED
    BY <1>3, <2>2, <2>3 DEF Service!vars
<1> QED
  BY <1>11, <1>12

\* With nothing in the mailboxes and in the threads' hands no packet is on its way.
LEMMA NothingPending ==
  /\ llp_box = <<>> /\ up_box = <<>> /\ comms = "boot" /\ behavior = "loop" => Pending = <<>>
<1> SUFFICES ASSUME llp_box = <<>>, up_box = <<>>, comms = "boot", behavior = "loop"
             PROVE  Pending = <<>>
  OBVIOUS
<1>1. Held = <<>> /\ Making = <<>>
  BY DEF Held, Making
<1>2. FootersOf(llp_box) = <<>>
  <2>1. Len(<<>>) = 0 /\ Len(<<>>) \in Nat
    OBVIOUS
  <2>2. \E f : Gathers(f, <<>>) /\ FootersOf(<<>>) = f[Len(<<>>)]
    BY <2>1, FootersExist
  <2> QED
    BY <2>1, <2>2 DEF Gathers
<1>3. Due = <<>>
  BY <1>2 DEF Due
<1>4. ((<<>> \o <<>>) \o <<>>) \o <<>> = <<>>
  OBVIOUS
<1> QED
  BY <1>1, <1>3, <1>4 DEF Pending

\* Every step of the threads is a step of the service or changes nothing it sees.
LEMMA ServiceStep == IInv /\ IInv' /\ [Next]_vars => [Service!Next]_(Service!vars)
<1> SUFFICES ASSUME IInv, IInv', [Next]_vars
             PROVE  Service!Next \/ UNCHANGED Service!vars
  OBVIOUS
<1>a. TypeOK /\ TypeOK' /\ StreamInv /\ FreshInv /\ StartInv
  BY DEF IInv
<1>1. CASE SensorPoll
  <2>1. Quiet /\ sensor = "idle" /\ sensor' # "idle" /\ poll' = poll + 1
        /\ published' = published
    BY <1>1 DEF SensorPoll, Quiet, Held, Making, GetNewDecadaPacket, llpVars, upVars, bVars,
        cVars, history
  <2> QED
    BY <2>1, QuietKeeps DEF Service!Next, Service!Begin
<1>2. CASE SensorPut
  BY <1>a, <1>2, SensorPutReports DEF Service!Next
<1>3. CASE BehaviorGet
  <2>1. UNCHANGED <<poll, sensor, published>>
    BY <1>3 DEF BehaviorGet, sVars, history
  <2> QED
    BY <1>a, <1>3, <2>1, GetKeeps DEF Service!vars
<1>4. CASE BehaviorApply
  <2>1. UNCHANGED <<poll, sensor, published>>
    BY <1>4 DEF BehaviorApply, sVars, history
  <2> QED
    BY <1>a, <1>4, <2>1, ApplyKeeps DEF Service!vars
<1>5. CASE BehaviorPut
  <2>1. UNCHANGED <<poll, sensor, published>>
    BY <1>5 DEF BehaviorPut, sVars, history
  <2> QED
    BY <1>a, <1>5, <2>1, PutKeeps DEF Service!vars
<1>6. CASE CommsGet
  <2>1. UNCHANGED <<poll, sensor, published>>
    BY <1>6 DEF CommsGet, sVars, history
  <2> QED
    BY <1>a, <1>6, <2>1, CommsGetKeeps DEF Service!vars
<1>7. CASE CommsPublish
  BY <1>a, <1>7, PublishHandsOver DEF Service!Next
<1>8. CASE SystemReset
  <2>1. /\ Pending' = <<>> /\ ~(sensor' # "idle") /\ UNCHANGED <<poll, published>>
    <3>1. (llp_box = <<>> /\ up_box = <<>> /\ comms = "boot" /\ behavior = "loop"
             => Pending = <<>>)'
      BY NothingPending, PTL
    <3> QED
      BY <1>8, <3>1 DEF SystemReset
  <2> QED
    BY <2>1 DEF Service!Next, Service!Reset
<1>9. CASE \/ SensorCalloc \/ BehaviorLock \/ BehaviorCalloc \/ BehaviorUnlock
           \/ CommsBoot \/ CommsGetNothing \/ CommsLockMqtt \/ CommsLockStdio
           \/ CommsUnlockMqtt \/ CommsFree \/ CommsNext \/ CommsRespond \/ CommsReconnect
           \/ CommsReconnectUnlock \/ CommsRetryDone \/ SubReconnect \/ SubReconnectUnlock
           \/ SubRetryDone
  <2>1. Quiet /\ UNCHANGED <<poll, sensor, published>>
    BY <1>9 DEF SensorCalloc, BehaviorLock, BehaviorCalloc, BehaviorUnlock, CommsBoot,
        CommsGetNothing, CommsLockMqtt, CommsLockStdio, CommsUnlockMqtt, CommsFree, CommsNext,
        CommsRespond, CommsNoResponse, CommsResponseLockMqtt, CommsResponseLockStdio,
        CommsResponsePublish, CommsResponseUnlock, CommsReconnect, CommsReconnectUnlock,
        CommsRetryDone, SubReconnect, SubReconnectUnlock, SubRetryDone, Quiet, Held, Making,
        GetNewDecadaPacket, bootVars, llpVars, upVars, sVars, bVars, cVars, history
  <2> QED
    BY <2>1, QuietKeeps DEF Service!vars
<1>10. CASE UNCHANGED vars
  <2>1. Quiet /\ UNCHANGED <<poll, sensor, published>>
    BY <1>10 DEF vars, Quiet, Held, Making, GetNewDecadaPacket, bootVars, llpVars, upVars,
        sVars, bVars, cVars, history
  <2> QED
    BY <2>1, QuietKeeps DEF Service!vars
<1> QED
  BY <1>1, <1>2, <1>3, <1>4, <1>5, <1>6, <1>7, <1>8, <1>9, <1>10
  DEF Next, Sensor, Behavior, Comms, SubMgr

\* For every pool size and any number of polls and resets, the four threads with their
\* mailboxes implement TelemetryService: packets of completed polls are handed to the broker
\* one at a time, in poll order, each with the reading of its own poll or none, and leave
\* the row otherwise only by a reset.
THEOREM Implements == Spec => ImplementsService
<1>1. Init => Service!Init
  <2>1. Init => Pending = <<>>
    BY NothingPending DEF Init
  <2> QED
    BY <2>1 DEF Init, Service!Init
<1>2. IInv /\ IInv' /\ [Next]_vars => [Service!Next]_(Service!vars)
  BY ServiceStep
<1> QED
  BY <1>1, <1>2, IInvAlways, PTL DEF Spec, ImplementsService, Service!Spec
=============================================================================
