-------------------------- MODULE OcpSessionProofs --------------------------
(* Proofs about the DTLS client: its record layer, its handshake and the     *)
(* session around them.                                                      *)
EXTENDS OcpSession, SequenceTheorems, WellFoundedInduction, FiniteSetTheorems, TLAPS

-----------------------------------------------------------------------------
(* Natural numbers.  A set that holds 0 and the successor of each of its     *)
(* numbers holds them all; stated of a set, it serves as induction.          *)

(* Every non-empty set of natural numbers has a least one. *)
LEMMA Least ==
    ASSUME NEW T, T \subseteq Nat, T # {}
    PROVE  \E x \in T : \A y \in T : x <= y
<1>1. IsWellFoundedOn(OpToRel(<, Nat), Nat)
  BY NatLessThanWellFounded
<1>2. PICK x \in T : \A y \in T : ~(<<y, x>> \in OpToRel(<, Nat))
  BY <1>1, WFMin
<1>3. \A y \in T : ~(y < x)
  BY <1>2 DEF OpToRel
<1>4. \A y \in T : x <= y
  BY <1>3
<1> QED
  BY <1>4

(* Induction up to a bound. *)
LEMMA UpTo ==
    ASSUME NEW n \in Nat, NEW S, 0 \in S, \A i \in 1 .. n : i - 1 \in S => i \in S
    PROVE  \A i \in 0 .. n : i \in S
<1> DEFINE T == {i \in 0 .. n : i \notin S}
<1>1. SUFFICES ASSUME T # {} PROVE FALSE
  OBVIOUS
<1>2. T \subseteq Nat
  OBVIOUS
<1>3. PICK x \in T : \A y \in T : x <= y
  BY <1>1, <1>2, Least
<1>4. x \in 1 .. n /\ x \notin S
  BY <1>3
<1>5. x - 1 \in 0 .. n /\ ~(x <= x - 1)
  BY <1>4
<1>6. x - 1 \in S
  BY <1>3, <1>5
<1> QED
  BY <1>4, <1>6

(* The largest member of a bounded set of integers. *)
LEMMA MaxFacts ==
    ASSUME NEW T, T \subseteq Int, T # {}, NEW b \in Int, \A x \in T : x <= b
    PROVE  /\ Max(T) \in T
           /\ \A x \in T : x <= Max(T)
<1> DEFINE D == {b - x : x \in T}
<1>0. \A x \in T : b - x \in Nat
  OBVIOUS
<1>1. D \subseteq Nat /\ D # {}
  BY <1>0
<1>2. PICK d \in D : \A y \in D : d <= y
  BY <1>1, Least
<1>3. PICK m \in T : d = b - m
  BY <1>2
<1>4. \A x \in T : b - m <= b - x
  BY <1>2, <1>3
<1>5. \A x \in T : m >= x
  BY <1>4
<1>6. \E m1 \in T : \A x \in T : m1 >= x
  BY <1>5
<1>7. Max(T) \in T /\ \A x \in T : Max(T) >= x
  BY <1>6 DEF Max
<1> QED
  BY <1>7

(* The least member of a set of natural numbers. *)
LEMMA MinFacts ==
    ASSUME NEW T, T \subseteq Nat, T # {}
    PROVE  /\ Min(T) \in T
           /\ \A x \in T : Min(T) <= x
<1>1. \E x \in T : \A y \in T : x <= y
  BY Least
<1> QED
  BY <1>1 DEF Min

-----------------------------------------------------------------------------
(* The recursive functions of the model exist. *)

(* What SendAll goes through, a message at a time. *)
SendSteps(f, r, messages, form, fault, at) ==
    /\ f[0] = r
    /\ \A i \in 1 .. Len(messages) :
          f[i] = SendMessage(f[i - 1], messages[i], form, IF i = at THEN fault ELSE "none")
    /\ SendAll(r, messages, form, fault, at) = f[Len(messages)]

(* SendAll ends after the steps of its messages. *)
LEMMA SendAllSteps ==
    ASSUME NEW r, NEW messages, Len(messages) \in Nat, NEW form, NEW fault, NEW at
    PROVE  \E f : SendSteps(f, r, messages, form, fault, at)
<1> DEFINE n == Len(messages)
           Step(v, i) == SendMessage(v, messages[i], form, IF i = at THEN fault ELSE "none")
           Good(g, k) == g = [i \in 0 .. k |-> IF i = 0 THEN r ELSE Step(g[i - 1], i)]
           S == {k \in 0 .. n : \E g : Good(g, k)}
<1>1. 0 \in S
  <2> DEFINE g0 == [i \in 0 .. 0 |-> r]
  <2>1. Good(g0, 0)
    OBVIOUS
  <2> HIDE DEF Good
  <2>2. \E g : Good(g, 0)
    BY <2>1
  <2> QED
    BY <2>2
<1>2. ASSUME NEW k \in 1 .. n, k - 1 \in S
      PROVE  k \in S
  <2>1. PICK g : Good(g, k - 1)
    BY <1>2
  <2> HIDE DEF Step
  <2> DEFINE g2 == [i \in 0 .. k |-> IF i = k THEN Step(g[k - 1], k) ELSE g[i]]
  <2>2. \A i \in 0 .. k - 1 : g[i] = IF i = 0 THEN r ELSE Step(g[i - 1], i)
    BY <2>1
  <2>3. \A i \in 0 .. k : g2[i] = IF i = 0 THEN r ELSE Step(g2[i - 1], i)
    <3> TAKE i \in 0 .. k
    <3>1. CASE i = k
      BY <3>1
    <3>2. CASE i # k
      <4>1. i \in 0 .. k - 1 /\ g2[i] = g[i]
        BY <3>2
      <4>2. CASE i = 0
        BY <4>1, <4>2, <2>2
      <4>3. CASE i # 0
        <5>1. g2[i - 1] = g[i - 1]
          BY <4>1, <4>3
        <5> QED
          BY <4>1, <4>3, <5>1, <2>2
      <4> QED
        BY <4>2, <4>3
    <3> QED
      BY <3>1, <3>2
  <2>4. Good(g2, k)
    BY <2>3
  <2> HIDE DEF Good
  <2>5. \E v : Good(v, k)
    BY <2>4
  <2> QED
    BY <2>5
<1>3. n \in S
  <2>1. \A i \in 0 .. n : i \in S
    BY <1>1, <1>2, UpTo
  <2> QED
    BY <2>1
<1>4. PICK f : Good(f, n)
  BY <1>3
<1> DEFINE after == CHOOSE after : after = [i \in 0 .. n |-> IF i = 0 THEN r ELSE Step(after[i - 1], i)]
<1>5. Good(after, n)
  BY <1>4
<1>6. SendAll(r, messages, form, fault, at) = after[n]
  BY DEF SendAll
<1> HIDE DEF Step, after
<1>7. after[0] = r /\ \A i \in 1 .. n : after[i] = Step(after[i - 1], i)
  BY <1>5
<1>8. SendSteps(after, r, messages, form, fault, at)
  BY <1>6, <1>7 DEF Step, SendSteps
<1> QED
  BY <1>8

(* DispatchAll ends after the steps of its messages. *)
LEMMA DispatchAllSteps ==
    ASSUME NEW h, NEW messages, Len(messages) \in Nat, NEW fault, NEW at
    PROVE  \E f : /\ f[0] = h
                  /\ \A i \in 1 .. Len(messages) :
                        f[i] = DispatchNext(f[i - 1], messages[i],
                                            IF i = at THEN fault ELSE "none")
                  /\ DispatchAll(h, messages, fault, at) = f[Len(messages)]
<1> DEFINE n == Len(messages)
           Step(v, i) == DispatchNext(v, messages[i], IF i = at THEN fault ELSE "none")
           Good(g, k) == g = [i \in 0 .. k |-> IF i = 0 THEN h ELSE Step(g[i - 1], i)]
           S == {k \in 0 .. n : \E g : Good(g, k)}
<1>1. 0 \in S
  <2> DEFINE g0 == [i \in 0 .. 0 |-> h]
  <2>1. Good(g0, 0)
    OBVIOUS
  <2> HIDE DEF Good
  <2>2. \E g : Good(g, 0)
    BY <2>1
  <2> QED
    BY <2>2
<1>2. ASSUME NEW k \in 1 .. n, k - 1 \in S
      PROVE  k \in S
  <2>1. PICK g : Good(g, k - 1)
    BY <1>2
  <2> HIDE DEF Step
  <2> DEFINE g2 == [i \in 0 .. k |-> IF i = k THEN Step(g[k - 1], k) ELSE g[i]]
  <2>2. \A i \in 0 .. k - 1 : g[i] = IF i = 0 THEN h ELSE Step(g[i - 1], i)
    BY <2>1
  <2>3. \A i \in 0 .. k : g2[i] = IF i = 0 THEN h ELSE Step(g2[i - 1], i)
    <3> TAKE i \in 0 .. k
    <3>1. CASE i = k
      BY <3>1
    <3>2. CASE i # k
      <4>1. i \in 0 .. k - 1 /\ g2[i] = g[i]
        BY <3>2
      <4>2. CASE i = 0
        BY <4>1, <4>2, <2>2
      <4>3. CASE i # 0
        <5>1. g2[i - 1] = g[i - 1]
          BY <4>1, <4>3
        <5> QED
          BY <4>1, <4>3, <5>1, <2>2
      <4> QED
        BY <4>2, <4>3
    <3> QED
      BY <3>1, <3>2
  <2>4. Good(g2, k)
    BY <2>3
  <2> HIDE DEF Good
  <2>5. \E v : Good(v, k)
    BY <2>4
  <2> QED
    BY <2>5
<1>3. n \in S
  <2>1. \A i \in 0 .. n : i \in S
    BY <1>1, <1>2, UpTo
  <2> QED
    BY <2>1
<1>4. PICK f : Good(f, n)
  BY <1>3
<1> DEFINE after == CHOOSE after : after = [i \in 0 .. n |-> IF i = 0 THEN h ELSE Step(after[i - 1], i)]
<1>5. Good(after, n)
  BY <1>4
<1>6. DispatchAll(h, messages, fault, at) = after[n]
  BY DEF DispatchAll
<1> HIDE DEF Step, after
<1>7. after[0] = h /\ \A i \in 1 .. n : after[i] = Step(after[i - 1], i)
  BY <1>5
<1> QED
  BY <1>6, <1>7 DEF Step

(* The records of the server's datagrams are counted. *)
LEMMA RecordsCounted ==
    ASSUME NEW P, NEW n \in Nat, P \in [1 .. n -> Nat]
    PROVE  \E f \in [0 .. n -> Nat] :
               f = [i \in 0 .. n |-> IF i = 0 THEN 0 ELSE f[i - 1] + P[i]]
<1> DEFINE Good(g, k) == g = [i \in 0 .. k |-> IF i = 0 THEN 0 ELSE g[i - 1] + P[i]]
           S == {k \in 0 .. n : \E g \in [0 .. k -> Nat] : Good(g, k)}
<1>1. 0 \in S
  <2> DEFINE g0 == [i \in 0 .. 0 |-> 0]
  <2>1. g0 \in [0 .. 0 -> Nat] /\ Good(g0, 0)
    OBVIOUS
  <2> HIDE DEF Good, g0
  <2>2. \E g \in [0 .. 0 -> Nat] : Good(g, 0)
    BY <2>1
  <2> QED
    BY <2>2
<1>2. ASSUME NEW k \in 1 .. n, k - 1 \in S
      PROVE  k \in S
  <2>1. PICK g \in [0 .. k - 1 -> Nat] : Good(g, k - 1)
    BY <1>2
  <2> DEFINE g2 == [i \in 0 .. k |-> IF i = k THEN g[k - 1] + P[k] ELSE g[i]]
  <2>2. \A i \in 0 .. k - 1 : g[i] = IF i = 0 THEN 0 ELSE g[i - 1] + P[i]
    BY <2>1
  <2>3. \A i \in 0 .. k : g2[i] = IF i = 0 THEN 0 ELSE g2[i - 1] + P[i]
    <3> TAKE i \in 0 .. k
    <3>1. CASE i = k
      BY <3>1
    <3>2. CASE i # k
      <4>1. i \in 0 .. k - 1 /\ g2[i] = g[i]
        BY <3>2
      <4>2. CASE i = 0
        BY <4>1, <4>2, <2>2
      <4>3. CASE i # 0
        <5>1. g2[i - 1] = g[i - 1]
          BY <4>1, <4>3
        <5> QED
          BY <4>1, <4>3, <5>1, <2>2
      <4> QED
        BY <4>2, <4>3
    <3> QED
      BY <3>1, <3>2
  <2>4. g2 \in [0 .. k -> Nat]
    OBVIOUS
  <2>5. Good(g2, k)
    BY <2>3
  <2> HIDE DEF Good, g2
  <2>6. \E v \in [0 .. k -> Nat] : Good(v, k)
    BY <2>4, <2>5
  <2> QED
    BY <2>6
<1>3. \A i \in 0 .. n : i \in S
  BY <1>1, <1>2, UpTo
<1>4. n \in S
  <2> HIDE DEF S
  <2> QED
    BY <1>3
<1>5. PICK g \in [0 .. n -> Nat] : Good(g, n)
  BY <1>4
<1> QED
  BY <1>5

(* RecordsUpTo is a function to the natural numbers. *)
LEMMA RecordsUpToType == RecordsUpTo \in [0 .. Len(Packing) -> Nat]
<1> DEFINE n == Len(Packing)
           P == [i \in 1 .. n |-> Len(Packing[i])]
<1>1. n \in Nat /\ P \in [1 .. n -> Nat]
  BY HandshakeAssumption
<1>2. PICK f \in [0 .. n -> Nat] : f = [i \in 0 .. n |-> IF i = 0 THEN 0 ELSE f[i - 1] + P[i]]
  BY <1>1, RecordsCounted
<1>3. f = [i \in 0 .. n |-> IF i = 0 THEN 0 ELSE f[i - 1] + Len(Packing[i])]
  <2>1. \A i \in 0 .. n : (IF i = 0 THEN 0 ELSE f[i - 1] + P[i])
                           = (IF i = 0 THEN 0 ELSE f[i - 1] + Len(Packing[i]))
    BY <1>1
  <2> QED
    BY <1>2, <2>1
<1>4. PICK u : u = RecordsUpTo
  OBVIOUS
<1>5. u = [i \in 0 .. n |-> IF i = 0 THEN 0 ELSE u[i - 1] + Len(Packing[i])]
  BY <1>3, <1>4 DEF RecordsUpTo
<1> DEFINE S == {i \in 0 .. n : u[i] \in Nat}
<1>6. 0 \in S
  BY <1>1, <1>5
<1>7. ASSUME NEW i \in 1 .. n, i - 1 \in S PROVE i \in S
  <2>1. u[i] = u[i - 1] + Len(Packing[i])
    BY <1>1, <1>5
  <2>2. Len(Packing[i]) \in Nat
    BY HandshakeAssumption
  <2> QED
    BY <1>7, <2>1, <2>2
<1>8. \A i \in 0 .. n : i \in S
  BY <1>1, <1>6, <1>7, UpTo
<1> QED
  BY <1>1, <1>4, <1>5, <1>8

-----------------------------------------------------------------------------
(* Sending *)

Three == {0, 1, 65535}

(* The record layer, whatever is left of a datagram. *)
RecordLayer(q) ==
    /\ DOMAIN q = {"next", "server", "seq", "nextseq", "enc", "dec", "ccs", "retransmit",
                   "win", "nextwin", "left"}
    /\ q.next \in {0, 1} /\ q.server \in {0, 1} /\ q.seq \in Nat /\ q.nextseq \in Nat
    /\ q.enc \in BOOLEAN /\ q.dec \in BOOLEAN /\ q.ccs \in BOOLEAN /\ q.retransmit \in BOOLEAN

(* The client's epoch: protected in epoch 1 and only there, and only there   *)
(* may the next flight be a repetition.                                      *)
Epochs(q) == IF q.enc THEN q.next = 1 ELSE q.next = 0 /\ ~q.retransmit

(* The next number of an epoch is above those used in it. *)
Numbered(q, w) ==
    /\ DOMAIN w = {"top", "reused", "clear"}
    /\ w.top \in [Three -> Int]
    /\ w.top[0] < q.seq /\ w.top[1] < q.nextseq /\ w.top[65535] < q.nextseq
    /\ ~w.reused
    /\ w.clear \subseteq {"alert"}
    /\ w.clear # {} => w.top[65535] >= 0

(* Sending leaves what receiving keeps. *)
SameReceiver(q, q2) ==
    /\ q2.server = q.server /\ q2.dec = q.dec /\ q2.ccs = q.ccs
    /\ q2.win = q.win /\ q2.nextwin = q.nextwin /\ q2.left = q.left

(* A repetition starts in the epoch before. *)
LEMMA BackFacts ==
    ASSUME NEW q, RecordLayer(q), Epochs(q)
    PROVE  /\ RecordLayer(BeforeRetransmission(q))
           /\ Epochs(BeforeRetransmission(q))
           /\ ~BeforeRetransmission(q).retransmit
           /\ SameReceiver(q, BeforeRetransmission(q))
           /\ BeforeRetransmission(q).seq = q.seq
           /\ BeforeRetransmission(q).nextseq = q.nextseq
           /\ q.enc /\ ~q.retransmit => BeforeRetransmission(q).enc
<1>1. (1 + 65535) % 65536 = 0
  OBVIOUS
<1>2. CASE q.retransmit
  BY <1>1, <1>2 DEF BeforeRetransmission, RecordLayer, Epochs, SameReceiver
<1>3. CASE ~q.retransmit
  BY <1>3 DEF BeforeRetransmission, RecordLayer, Epochs, SameReceiver
<1> QED
  BY <1>2, <1>3 DEF RecordLayer

(* A record is prepared with the number of its epoch. *)
LEMMA PrepareFacts ==
    ASSUME NEW q, RecordLayer(q), Epochs(q), ~q.retransmit, NEW type, NEW fault
    PROVE  LET p == PrepareRecord(q, type, fault)
           IN /\ DOMAIN p = {"rl", "ok"} /\ p.ok \in BOOLEAN
              /\ RecordLayer(p.rl) /\ Epochs(p.rl) /\ ~p.rl.retransmit
              /\ SameReceiver(q, p.rl)
              /\ p.rl.seq >= q.seq /\ p.rl.nextseq >= q.nextseq
              /\ p.ok /\ q.next = 0 => p.rl.seq = q.seq + 1
              /\ p.ok /\ q.next = 1 => p.rl.nextseq = q.nextseq + 1
              /\ q.enc => p.rl.enc
              /\ p.ok /\ type = "ccs" => p.rl.enc
<1> DEFINE later == q.next > 0
           n == IF later THEN q.nextseq ELSE q.seq
           counted == IF later THEN [q EXCEPT !.nextseq = @ + 1] ELSE [q EXCEPT !.seq = @ + 1]
           fails == n > MaxSeq \/ (q.enc /\ fault = "chip")
           changed == [counted EXCEPT !.next = q.next + 1, !.enc = TRUE]
           p == PrepareRecord(q, type, fault)
<1>1. /\ RecordLayer(counted) /\ SameReceiver(q, counted)
      /\ counted.next = q.next /\ counted.enc = q.enc /\ ~counted.retransmit
      /\ counted.seq >= q.seq /\ counted.nextseq >= q.nextseq
      /\ q.next = 0 => counted.seq = q.seq + 1
      /\ q.next = 1 => counted.nextseq = q.nextseq + 1
  BY DEF RecordLayer, SameReceiver
<1>2. p = IF fails THEN [rl |-> q, ok |-> FALSE]
          ELSE [rl |-> IF ~q.enc /\ type = "ccs" THEN changed ELSE counted, ok |-> TRUE]
  BY DEF PrepareRecord
<1> HIDE DEF counted, fails, p
<1>3. CASE fails
  <2>1. DOMAIN p = {"rl", "ok"} /\ p.rl = q /\ p.ok = FALSE
    BY <1>2, <1>3
  <2>2. p.rl.seq >= q.seq /\ p.rl.nextseq >= q.nextseq
    BY <2>1 DEF RecordLayer
  <2>3. SameReceiver(q, p.rl)
    BY <2>1 DEF SameReceiver
  <2> QED
    BY <2>1, <2>2, <2>3 DEF p
<1>4. CASE ~fails /\ ~q.enc /\ type = "ccs"
  <2>1. DOMAIN p = {"rl", "ok"} /\ p.rl = changed /\ p.ok = TRUE
    BY <1>2, <1>4
  <2>2. /\ RecordLayer(changed) /\ SameReceiver(q, changed)
        /\ changed.next = 1 /\ changed.enc /\ ~changed.retransmit
        /\ changed.seq = counted.seq /\ changed.nextseq = counted.nextseq
    BY <1>1, <1>4 DEF RecordLayer, SameReceiver, Epochs
  <2> QED
    BY <2>1, <2>2, <1>1 DEF p, Epochs
<1>5. CASE ~fails /\ ~(~q.enc /\ type = "ccs")
  <2>1. DOMAIN p = {"rl", "ok"} /\ p.rl = counted /\ p.ok = TRUE
    BY <1>2, <1>5
  <2> QED
    BY <2>1, <1>1, <1>5 DEF p, Epochs
<1> QED
  BY <1>3, <1>4, <1>5

(* A record sent is the first of its number in its epoch. *)
LEMMA LogFacts ==
    ASSUME NEW q, NEW q2, NEW w, NEW type, RecordLayer(q), RecordLayer(q2), Epochs(q),
           Numbered(q, w), q2.seq >= q.seq, q2.nextseq >= q.nextseq,
           q.next = 0 => q2.seq = q.seq + 1, q.next = 1 => q2.nextseq = q.nextseq + 1
    PROVE  Numbered(q2, Log(w, q.next, IF q.next > 0 THEN q.nextseq ELSE q.seq, q.enc, type))
<1>1. CASE q.next = 0
  BY <1>1 DEF Log, Numbered, RecordLayer, Epochs, Three
<1>2. CASE q.next = 1
  <2>0. q.next # 0 /\ q.enc = TRUE /\ q.next > 0
    BY <1>2 DEF RecordLayer, Epochs
  <2> DEFINE top == [w.top EXCEPT ![1] = q.nextseq]
             used == w.reused \/ q.nextseq <= w.top[1]
             g == [top |-> top, reused |-> used, clear |-> w.clear]
  <2>1. Log(w, q.next, IF q.next > 0 THEN q.nextseq ELSE q.seq, q.enc, type) = g
    BY <1>2, <2>0 DEF Log
  <2>2. w.top[1] \in Int /\ w.top[65535] \in Int /\ w.top[0] \in Int
    BY DEF Numbered, Three
  <2>3. ~(q.nextseq <= w.top[1])
    BY <2>2 DEF Numbered, RecordLayer
  <2>4. used = FALSE
    BY <2>3 DEF Numbered
  <2>5. /\ top \in [Three -> Int] /\ top[1] = q.nextseq
        /\ top[0] = w.top[0] /\ top[65535] = w.top[65535]
    BY DEF Numbered, RecordLayer, Three
  <2> HIDE DEF top, used
  <2>6. Numbered(q2, g)
    BY <1>2, <2>2, <2>4, <2>5 DEF Numbered, RecordLayer
  <2> QED
    BY <2>1, <2>6
<1> QED
  BY <1>1, <1>2 DEF RecordLayer

Sending(r) ==
    /\ DOMAIN r = {"rl", "wire", "ok"} /\ r.ok \in BOOLEAN
    /\ RecordLayer(r.rl) /\ Epochs(r.rl) /\ Numbered(r.rl, r.wire)

(* Numbers used stay below the next ones when these grow. *)
LEMMA NumberedGrows ==
    ASSUME NEW q, NEW q2, NEW w, RecordLayer(q), RecordLayer(q2), Numbered(q, w),
           q2.seq >= q.seq, q2.nextseq >= q.nextseq
    PROVE  Numbered(q2, w)
BY DEF Numbered, RecordLayer, Three

(* Sending a record keeps the numbers, and after a change of the cipher spec *)
(* the client's records are protected.                                       *)
LEMMA SendRecordFacts ==
    ASSUME NEW r, Sending(r), NEW type, NEW fault
    PROVE  LET g == SendRecord(r, type, fault)
           IN /\ Sending(g) /\ ~g.rl.retransmit
              /\ SameReceiver(r.rl, g.rl)
              /\ r.rl.enc /\ ~r.rl.retransmit => g.rl.enc
              /\ g.ok /\ type = "ccs" => g.rl.enc
<1> DEFINE back == BeforeRetransmission(r.rl)
           p == PrepareRecord(back, type, fault)
           s == IF back.next > 0 THEN back.nextseq ELSE back.seq
           g == SendRecord(r, type, fault)
           logged == Log(r.wire, back.next, s, back.enc, type)
<1>1. /\ RecordLayer(back) /\ Epochs(back) /\ ~back.retransmit /\ SameReceiver(r.rl, back)
      /\ back.seq = r.rl.seq /\ back.nextseq = r.rl.nextseq
      /\ r.rl.enc /\ ~r.rl.retransmit => back.enc
  BY BackFacts DEF Sending
<1>2. /\ DOMAIN p = {"rl", "ok"} /\ p.ok \in BOOLEAN
      /\ RecordLayer(p.rl) /\ Epochs(p.rl) /\ ~p.rl.retransmit
      /\ SameReceiver(back, p.rl)
      /\ p.rl.seq >= back.seq /\ p.rl.nextseq >= back.nextseq
      /\ p.ok /\ back.next = 0 => p.rl.seq = back.seq + 1
      /\ p.ok /\ back.next = 1 => p.rl.nextseq = back.nextseq + 1
      /\ back.enc => p.rl.enc
      /\ p.ok /\ type = "ccs" => p.rl.enc
  <2> HIDE DEF back
  <2> QED
    BY <1>1, PrepareFacts
<1>3. Numbered(back, r.wire)
  BY <1>1, NumberedGrows DEF Sending, RecordLayer
<1>4. Numbered(p.rl, r.wire)
  <2> HIDE DEF back, p
  <2> QED
    BY <1>1, <1>2, <1>3, NumberedGrows
<1>5. p.ok => Numbered(p.rl, logged)
  <2> HIDE DEF back, p
  <2> QED
    BY <1>1, <1>2, <1>3, LogFacts
<1>6. SameReceiver(r.rl, p.rl)
  BY <1>1, <1>2 DEF SameReceiver
<1>7. g = IF fault = "malloc" /\ back.enc THEN [r EXCEPT !.rl = back, !.ok = FALSE]
            ELSE IF ~p.ok THEN [r EXCEPT !.rl = p.rl, !.ok = FALSE]
            ELSE [rl |-> p.rl, ok |-> fault # "net",
                         wire |-> IF fault = "net" THEN r.wire ELSE logged]
  BY DEF SendRecord
<1> HIDE DEF back, p, s, g, logged
<1>8. CASE fault = "malloc" /\ back.enc
  <2>1. g = [r EXCEPT !.rl = back, !.ok = FALSE]
    BY <1>7, <1>8
  <2>2. DOMAIN g = {"rl", "wire", "ok"} /\ g.rl = back /\ g.ok = FALSE /\ g.wire = r.wire
    BY <2>1 DEF Sending
  <2> QED
    BY <2>2, <1>1, <1>3 DEF Sending, g
<1>9. CASE ~(fault = "malloc" /\ back.enc) /\ ~p.ok
  <2>1. g = [r EXCEPT !.rl = p.rl, !.ok = FALSE]
    BY <1>7, <1>9
  <2>2. DOMAIN g = {"rl", "wire", "ok"} /\ g.rl = p.rl /\ g.ok = FALSE /\ g.wire = r.wire
    BY <2>1 DEF Sending
  <2> QED
    BY <2>2, <1>1, <1>2, <1>4, <1>6 DEF Sending, g
<1>10. CASE ~(fault = "malloc" /\ back.enc) /\ p.ok
  <2>1. g = [rl |-> p.rl, ok |-> fault # "net",
             wire |-> IF fault = "net" THEN r.wire ELSE logged]
    BY <1>7, <1>10
  <2>2. /\ DOMAIN g = {"rl", "wire", "ok"} /\ g.rl = p.rl /\ g.ok \in BOOLEAN
        /\ g.wire = r.wire \/ g.wire = logged
    BY <2>1
  <2> QED
    BY <2>2, <1>1, <1>2, <1>4, <1>5, <1>6, <1>10 DEF Sending, g
<1> QED
  BY <1>8, <1>9, <1>10, <1>2

(* The record layer as an alert of the epoch before finds it when the        *)
(* repetition has not begun, and what it leaves.                             *)
Reverted(q, old) ==
    /\ DOMAIN old = DOMAIN q /\ old.next = 0 /\ old.enc = FALSE /\ old.retransmit = TRUE
    /\ old.seq = q.seq /\ old.nextseq = q.nextseq /\ SameReceiver(q, old)

Broken(q, g) ==
    /\ DOMAIN g = {"rl", "wire", "ok"} /\ DOMAIN g.rl = DOMAIN q
    /\ g.rl.next = 65535 /\ g.rl.enc = FALSE /\ g.rl.retransmit = FALSE
    /\ g.rl.seq = q.seq /\ g.rl.nextseq \in {q.nextseq, q.nextseq + 1}
    /\ SameReceiver(q, g.rl) /\ Numbered(g.rl, g.wire)

(* The alert of a repetition that broke off before its first record leaves   *)
(* in an epoch that is not one; the number is new in it.                     *)
LEMMA BrokenRepetition ==
    ASSUME NEW q, RecordLayer(q), NEW r, DOMAIN r = {"rl", "wire", "ok"},
           Reverted(q, r.rl), Numbered(q, r.wire)
    PROVE  Broken(q, SendRecord(r, "alert", "none"))
<1> DEFINE old == r.rl
           w == r.wire
           g == SendRecord(r, "alert", "none")
<1> USE DEF Reverted
<1> DEFINE back == BeforeRetransmission(r.rl)
           p == PrepareRecord(back, "alert", "none")
           counted == [back EXCEPT !.nextseq = @ + 1]
           top == [w.top EXCEPT ![65535] = back.nextseq]
<1>2. (0 + 65535) % 65536 = 65535
  OBVIOUS
<1>3. back = [old EXCEPT !.next = (@ + 65535) % 65536, !.enc = FALSE, !.retransmit = FALSE]
  <2>1. r.rl.retransmit
    OBVIOUS
  <2>2. BeforeRetransmission(r.rl)
          = [r.rl EXCEPT !.next = (@ + 65535) % 65536, !.enc = FALSE, !.retransmit = FALSE]
    BY <2>1 DEF BeforeRetransmission
  <2> QED
    BY <2>2
<1> DEFINE n == IF back.next > 0 THEN back.nextseq ELSE back.seq
           logged == Log(r.wire, back.next, n, back.enc, "alert")
<1>7. g = IF "none" = "malloc" /\ back.enc THEN [r EXCEPT !.rl = back, !.ok = FALSE]
          ELSE IF ~p.ok THEN [r EXCEPT !.rl = p.rl, !.ok = FALSE]
          ELSE [rl |-> p.rl, ok |-> "none" # "net",
                wire |-> IF "none" = "net" THEN r.wire ELSE logged]
  BY DEF SendRecord
<1> HIDE DEF back
<1>4. /\ DOMAIN back = DOMAIN q /\ back.next = 65535 /\ back.enc = FALSE /\ back.retransmit = FALSE
      /\ back.seq = q.seq /\ back.nextseq = q.nextseq /\ SameReceiver(q, back)
  BY <1>2, <1>3 DEF RecordLayer, SameReceiver
<1>5. p = IF back.nextseq > MaxSeq THEN [rl |-> back, ok |-> FALSE] ELSE [rl |-> counted, ok |-> TRUE]
  BY <1>4 DEF PrepareRecord
<1>6. /\ DOMAIN counted = DOMAIN q /\ counted.next = 65535 /\ counted.enc = FALSE
      /\ counted.retransmit = FALSE /\ counted.seq = q.seq /\ counted.nextseq = q.nextseq + 1
      /\ SameReceiver(q, counted)
  BY <1>4 DEF RecordLayer, SameReceiver
<1> HIDE DEF p, counted, logged, back, n, top, g
<1>8. ASSUME back.nextseq > MaxSeq PROVE Broken(q, g)
  <2>1. p.ok = FALSE /\ p.rl = back
    BY <1>5, <1>8
  <2>2. DOMAIN g = {"rl", "wire", "ok"} /\ g.rl = back /\ g.wire = w
    BY <1>7, <2>1
  <2>3. Numbered(g.rl, g.wire)
    BY <2>2, <1>4 DEF Numbered
  <2> QED
    BY <2>2, <2>3, <1>4 DEF Broken
<1>9. ASSUME back.nextseq <= MaxSeq PROVE Broken(q, g)
  <2>1. p.ok = TRUE /\ p.rl = counted
    BY <1>4, <1>5, <1>9, RecordAssumption DEF RecordLayer
  <2>2. DOMAIN g = {"rl", "wire", "ok"} /\ g.rl = counted /\ g.wire = logged
    BY <1>7, <2>1
  <2> USE DEF top
  <2> DEFINE used == w.reused \/ back.nextseq <= w.top[65535]
  <2>3. logged = [top |-> top, reused |-> used, clear |-> w.clear \cup {"alert"}]
    BY <1>4 DEF logged, Log, n
  <2>4. w.top[1] \in Int /\ w.top[65535] \in Int /\ w.top[0] \in Int
    BY DEF Numbered, Three
  <2>5. used = FALSE
    BY <1>4, <2>4 DEF Numbered, RecordLayer
  <2>6. /\ top \in [Three -> Int] /\ top[65535] = q.nextseq
        /\ top[0] = w.top[0] /\ top[1] = w.top[1]
    BY <1>4 DEF Numbered, RecordLayer, Three
  <2> HIDE DEF top, used
  <2>7. g.wire = [top |-> top, reused |-> used, clear |-> w.clear \cup {"alert"}]
    BY <2>2, <2>3
  <2>8. g.wire.top = top /\ g.wire.reused = FALSE /\ g.wire.clear = w.clear \cup {"alert"}
        /\ DOMAIN g.wire = {"top", "reused", "clear"}
    BY <2>5, <2>7
  <2>9. Numbered(counted, g.wire)
    BY <1>6, <2>4, <2>6, <2>8 DEF Numbered, RecordLayer
  <2> QED
    BY <2>2, <2>9, <1>6 DEF Broken
<1>10. back.nextseq > MaxSeq \/ back.nextseq <= MaxSeq
  BY <1>4, RecordAssumption DEF RecordLayer
<1> QED
  BY <1>8, <1>9, <1>10 DEF g

(* An alert keeps the numbers, and the epoch unless a repetition broke off.  *)
LEMMA SendAlertFacts ==
    ASSUME NEW q, RecordLayer(q), Epochs(q), NEW w, Numbered(q, w), NEW error
    PROVE  LET g == SendAlert(q, w, error)
           IN /\ DOMAIN g = {"rl", "wire", "ok"}
              /\ RecordLayer(g.rl) /\ Numbered(g.rl, g.wire) /\ SameReceiver(q, g.rl)
              /\ ~q.retransmit => Epochs(g.rl) /\ ~g.rl.retransmit
<1> DEFINE g == SendAlert(q, w, error)
           same == [rl |-> q, wire |-> w, ok |-> TRUE]
           old == [q EXCEPT !.enc = FALSE, !.next = @ - 1]
           r == [rl |-> old, wire |-> w, ok |-> TRUE]
           s == SendRecord(r, "alert", "none")
           new == [s.rl EXCEPT !.enc = TRUE, !.next = (@ + 1) % 65536]
<1>1. CASE ~AlertInOldEpoch(q, error)
  <2>1. g = SendRecord(same, "alert", "none")
    BY <1>1 DEF SendAlert
  <2>2. Sending(same)
    BY DEF Sending
  <2> HIDE DEF same, g
  <2>3. Sending(g) /\ ~g.rl.retransmit /\ SameReceiver(same.rl, g.rl)
    BY <2>1, <2>2, SendRecordFacts
  <2>4. same.rl = q
    BY DEF same
  <2> QED
    BY <2>3, <2>4 DEF Sending, g
<1>2. CASE AlertInOldEpoch(q, error)
  <2>1. q.enc /\ q.next = 1
    BY <1>2 DEF AlertInOldEpoch, Epochs
  <2>2. g = [s EXCEPT !.rl.enc = TRUE, !.rl.next = (@ + 1) % 65536]
    BY <1>2 DEF SendAlert
  <2>3. CASE q.retransmit
    <3>0. Reverted(q, old)
      BY <2>1, <2>3 DEF RecordLayer, SameReceiver, Reverted
    <3>b. DOMAIN r = {"rl", "wire", "ok"} /\ r.rl = old /\ r.wire = w
      BY DEF r, old
    <3> HIDE DEF s, r, old, g
    <3>c. Broken(q, s)
      BY <3>0, <3>b, BrokenRepetition DEF s
    <3>1. /\ DOMAIN s = {"rl", "wire", "ok"} /\ DOMAIN s.rl = DOMAIN q
          /\ s.rl.next = 65535 /\ s.rl.enc = FALSE /\ s.rl.retransmit = FALSE
          /\ s.rl.seq = q.seq /\ s.rl.nextseq \in {q.nextseq, q.nextseq + 1}
          /\ SameReceiver(q, s.rl) /\ Numbered(s.rl, s.wire)
      BY <3>c DEF Broken
    <3>2. (65535 + 1) % 65536 = 0
      OBVIOUS
    <3>3. DOMAIN g = {"rl", "wire", "ok"} /\ g.rl = new /\ g.wire = s.wire
      BY <2>2, <3>1
    <3>a. /\ DOMAIN new = DOMAIN q /\ new.enc = TRUE /\ new.next = 0 /\ new.retransmit = FALSE
          /\ new.seq = s.rl.seq /\ new.nextseq = s.rl.nextseq /\ SameReceiver(s.rl, new)
      BY <3>1, <3>2 DEF RecordLayer, SameReceiver
    <3>4. /\ RecordLayer(new) /\ SameReceiver(q, new)
          /\ new.seq = s.rl.seq /\ new.nextseq = s.rl.nextseq
      <4>1. SameReceiver(q, new)
        BY <3>1, <3>a DEF SameReceiver
      <4>2. new.server \in {0, 1} /\ new.dec \in BOOLEAN /\ new.ccs \in BOOLEAN
        BY <4>1 DEF SameReceiver, RecordLayer
      <4>3. new.seq \in Nat /\ new.nextseq \in Nat
        BY <3>1, <3>a DEF RecordLayer
      <4> HIDE DEF new
      <4>4. new.enc \in BOOLEAN /\ new.retransmit \in BOOLEAN /\ new.next \in {0, 1}
        BY <3>a
      <4>5. DOMAIN new = {"next", "server", "seq", "nextseq", "enc", "dec", "ccs", "retransmit",
                          "win", "nextwin", "left"}
        BY <3>a DEF RecordLayer
      <4>6. RecordLayer(new)
        BY <4>2, <4>3, <4>4, <4>5 DEF RecordLayer
      <4> QED
        BY <4>1, <4>6, <3>a
    <3>5. Numbered(new, s.wire)
      BY <3>1, <3>4 DEF Numbered
    <3> QED
      BY <3>3, <3>4, <3>5, <2>3 DEF g
  <2>4. CASE ~q.retransmit
    <3>1. RecordLayer(old) /\ Epochs(old) /\ ~old.retransmit /\ SameReceiver(q, old)
          /\ old.seq = q.seq /\ old.nextseq = q.nextseq /\ old.next = 0 /\ old.enc = FALSE
      BY <2>1, <2>4 DEF RecordLayer, Epochs, SameReceiver
    <3>2. Numbered(old, w)
      BY <3>1 DEF Numbered
    <3>3. Sending(r)
      BY <3>1, <3>2 DEF Sending
    <3> DEFINE p == PrepareRecord(old, "alert", "none")
    <3> HIDE DEF old
    <3>4. Sending(s) /\ ~s.rl.retransmit /\ SameReceiver(r.rl, s.rl)
      BY <3>3, SendRecordFacts
    <3>5. s.rl.next = 0
      <4>1. BeforeRetransmission(r.rl) = old
        BY <3>1 DEF BeforeRetransmission
      <4>2. p.rl.next = 0
        BY <3>1 DEF PrepareRecord, RecordLayer
      <4>3. s.rl = p.rl
        BY <4>1 DEF SendRecord
      <4> QED
        BY <4>2, <4>3
    <3> HIDE DEF s, r, g
    <3>6. (0 + 1) % 65536 = 1
      OBVIOUS
    <3>7. DOMAIN g = {"rl", "wire", "ok"} /\ g.rl = new /\ g.wire = s.wire
      BY <2>2, <3>4 DEF Sending
    <3>8. /\ RecordLayer(new) /\ SameReceiver(s.rl, new) /\ new.enc = TRUE /\ new.next = 1
          /\ new.retransmit = FALSE /\ new.seq = s.rl.seq /\ new.nextseq = s.rl.nextseq
      BY <3>4, <3>5, <3>6 DEF Sending, RecordLayer, SameReceiver
    <3>9. SameReceiver(q, new)
      <4>1. r.rl = old
        BY DEF r
      <4> QED
        BY <3>1, <3>4, <3>8, <4>1 DEF SameReceiver
    <3>10. Numbered(new, s.wire)
      BY <3>4, <3>8 DEF Sending, Numbered
    <3> QED
      BY <3>7, <3>8, <3>9, <3>10 DEF Epochs, g
  <2> QED
    BY <2>3, <2>4
<1> QED
  BY <1>1, <1>2

(* What sending any number of messages leaves. *)
After(r, g) ==
    /\ Sending(g) /\ SameReceiver(r.rl, g.rl)
    /\ ~r.rl.retransmit => ~g.rl.retransmit /\ (r.rl.enc => g.rl.enc)

(* Sending goes on from where it got. *)
LEMMA AfterTransitive ==
    ASSUME NEW r, NEW g, NEW h, After(r, g), After(g, h)
    PROVE  After(r, h)
BY DEF After, SameReceiver

(* One message: once it is sent a repetition has begun, and with the change  *)
(* of the cipher spec the epoch is the protected one.                        *)
LEMMA SendMessageFacts ==
    ASSUME NEW r, Sending(r), NEW m, NEW form, NEW fault
    PROVE  LET g == SendMessage(r, m, form, fault)
           IN /\ After(r, g)
              /\ g.ok => r.ok /\ ~g.rl.retransmit
              /\ g.ok /\ m = "ccs" => g.rl.enc
<1> DEFINE g == SendMessage(r, m, form, fault)
           fails == ~r.ok \/ fault = "alloc" \/ (fault = "form" /\ form)
           type == IF m = "ccs" THEN "ccs" ELSE "handshake"
<1>1. CASE fails
  <2>1. g = [r EXCEPT !.ok = FALSE]
    BY <1>1 DEF SendMessage
  <2>2. DOMAIN g = {"rl", "wire", "ok"} /\ g.rl = r.rl /\ g.wire = r.wire /\ g.ok = FALSE
    BY <2>1 DEF Sending
  <2> HIDE DEF g
  <2>3. Sending(g)
    BY <2>2 DEF Sending
  <2>4. SameReceiver(r.rl, g.rl)
    BY <2>2 DEF SameReceiver
  <2> QED
    BY <2>2, <2>3, <2>4 DEF After, g
<1>2. CASE ~fails
  <2>1. g = SendRecord(r, type, fault)
    BY <1>2 DEF SendMessage
  <2> HIDE DEF g, type
  <2>2. /\ Sending(g) /\ ~g.rl.retransmit /\ SameReceiver(r.rl, g.rl)
        /\ r.rl.enc /\ ~r.rl.retransmit => g.rl.enc
        /\ g.ok /\ type = "ccs" => g.rl.enc
    BY <2>1, SendRecordFacts
  <2>3. m = "ccs" => type = "ccs"
    BY DEF type
  <2>4. r.ok
    BY <1>2
  <2> QED
    BY <2>2, <2>3, <2>4 DEF After, g
<1> QED
  BY <1>1, <1>2

(* The messages of a flight. *)
LEMMA SendAllFacts ==
    ASSUME NEW r, Sending(r), NEW messages, Len(messages) \in Nat \ {0}, NEW form, NEW fault, NEW at
    PROVE  LET g == SendAll(r, messages, form, fault, at)
           IN /\ After(r, g)
              /\ g.ok => ~g.rl.retransmit
              /\ g.ok /\ (\E k \in 1 .. Len(messages) : messages[k] = "ccs") => g.rl.enc
<1> DEFINE n == Len(messages)
           g == SendAll(r, messages, form, fault, at)
<1>0. PICK f : SendSteps(f, r, messages, form, fault, at)
  <2>1. Len(messages) \in Nat
    OBVIOUS
  <2> QED
    BY <2>1, SendAllSteps
<1>1. /\ f[0] = r
      /\ \A i \in 1 .. n :
            f[i] = SendMessage(f[i - 1], messages[i], form, IF i = at THEN fault ELSE "none")
      /\ g = f[n]
  BY <1>0 DEF SendSteps
<1> HIDE DEF g
<1>2. ASSUME NEW i \in 1 .. n, Sending(f[i - 1])
      PROVE  /\ After(f[i - 1], f[i])
             /\ f[i].ok => f[i - 1].ok /\ ~f[i].rl.retransmit
             /\ f[i].ok /\ messages[i] = "ccs" => f[i].rl.enc
  <2>1. f[i] = SendMessage(f[i - 1], messages[i], form, IF i = at THEN fault ELSE "none")
    BY <1>1
  <2> QED
    BY <2>1, <1>2, SendMessageFacts
<1> DEFINE Good(i) == /\ After(r, f[i])
                      /\ f[i].ok /\ i # 0 => ~f[i].rl.retransmit
                      /\ f[i].ok /\ (\E k \in 1 .. i : messages[k] = "ccs") => f[i].rl.enc
           S == {i \in 0 .. n : Good(i)}
<1>3. 0 \in S
  <2>1. After(r, r)
    BY DEF After, Sending, SameReceiver, RecordLayer
  <2> QED
    BY <1>1, <2>1
<1>4. ASSUME NEW i \in 1 .. n, i - 1 \in S PROVE i \in S
  <2>1. Good(i - 1)
    BY <1>4
  <2>2. Sending(f[i - 1])
    BY <2>1 DEF After
  <2>3. /\ After(f[i - 1], f[i])
        /\ f[i].ok => f[i - 1].ok /\ ~f[i].rl.retransmit
        /\ f[i].ok /\ messages[i] = "ccs" => f[i].rl.enc
    BY <1>2, <2>2
  <2>4. After(r, f[i])
    BY <2>1, <2>3, AfterTransitive
  <2>5. ASSUME f[i].ok, NEW k \in 1 .. i, messages[k] = "ccs" PROVE f[i].rl.enc
    <3>1. CASE k = i
      BY <2>3, <2>5, <3>1
    <3>2. CASE k # i
      <4>1. k \in 1 .. i - 1 /\ i - 1 # 0
        BY <3>2
      <4>2. f[i - 1].ok /\ f[i - 1].rl.enc /\ ~f[i - 1].rl.retransmit
        BY <2>1, <2>3, <2>5, <4>1
      <4> QED
        BY <2>3, <4>2 DEF After
    <3> QED
      BY <3>1, <3>2
  <2>6. Good(i)
    BY <2>3, <2>4, <2>5
  <2> QED
    BY <2>6
<1>5. n \in S
  <2> HIDE DEF S
  <2>1. \A i \in 0 .. n : i \in S
    BY <1>3, <1>4, UpTo
  <2> QED
    BY <2>1
<1>6. Good(n) /\ n # 0
  BY <1>5
<1> QED
  BY <1>1, <1>6 DEF g

(* Flight 5 holds the change of the cipher spec. *)
LEMMA FlightFiveFacts ==
    ASSUME NEW opt
    PROVE  /\ Len(FlightFive(opt)) \in Nat \ {0}
           /\ \E k \in 1 .. Len(FlightFive(opt)) : FlightFive(opt)[k] = "ccs"
<1> DEFINE asked == "CertificateRequest" \in opt
           m1 == <<"ClientCertificate">>
           m2 == <<"ClientKeyExchange">>
           m3 == <<"CertificateVerify">>
           m4 == <<"ccs", "ClientFinished">>
           f == FlightFive(opt)
<1>1. CASE ~asked
  <2>1. f = << >> \o m2 \o << >> \o m4
    BY <1>1 DEF FlightFive
  <2>2. Len(f) = 3 /\ f[2] = "ccs"
    BY <2>1
  <2> QED
    BY <2>2
<1>2. CASE asked /\ ~HasCertificate
  <2>1. f = m1 \o m2 \o << >> \o m4
    BY <1>2 DEF FlightFive
  <2>2. Len(f) = 4 /\ f[3] = "ccs"
    BY <2>1
  <2> QED
    BY <2>2
<1>3. CASE asked /\ HasCertificate
  <2>1. f = m1 \o m2 \o m3 \o m4
    BY <1>3 DEF FlightFive
  <2>2. Len(f) = 5 /\ f[4] = "ccs"
    BY <2>1
  <2> QED
    BY <2>2
<1> QED
  BY <1>1, <1>2, <1>3

(* A flight of the client, new or once more. *)
LEMMA SendFlightFacts ==
    ASSUME NEW r, Sending(r), ~r.rl.retransmit, NEW sf, sf.id \in {1, 3, 5},
           sf.id = 5 /\ sf.state # "ready" => r.rl.enc, NEW opt, NEW fault, NEW at
    PROVE  LET g == SendFlight(r, sf, opt, fault, at)
           IN /\ Sending(g) /\ SameReceiver(r.rl, g.rl)
              /\ g.rl.retransmit => sf.id = 5 /\ sf.state # "ready"
              /\ g.ok => ~g.rl.retransmit
              /\ g.ok /\ sf.id = 5 => g.rl.enc
<1> DEFINE g == SendFlight(r, sf, opt, fault, at)
<1>1. CASE sf.id = 1
  <2> DEFINE form == sf.state = "ready"
  <2>1. g = SendAll(r, <<"ClientHello">>, form, fault, at)
    BY <1>1 DEF SendFlight, Flight1Handler, Messages
  <2>2. Len(<<"ClientHello">>) \in Nat \ {0}
    OBVIOUS
  <2> HIDE DEF g, form
  <2>3. After(r, g) /\ (g.ok => ~g.rl.retransmit)
    BY <2>1, <2>2, SendAllFacts
  <2> QED
    BY <1>1, <2>3 DEF After, g
<1>2. CASE sf.id = 3
  <2> DEFINE form == Formed(sf)
  <2>1. g = SendAll(r, <<"ClientHello">>, form, fault, at)
    BY <1>2 DEF SendFlight, Flight3Handler, Messages
  <2>2. Len(<<"ClientHello">>) \in Nat \ {0}
    OBVIOUS
  <2> HIDE DEF g, form
  <2>3. After(r, g) /\ (g.ok => ~g.rl.retransmit)
    BY <2>1, <2>2, SendAllFacts
  <2> QED
    BY <1>2, <2>3 DEF After, g
<1>3. CASE sf.id = 5
  <2> DEFINE form == sf.state = "ready"
             again == [r EXCEPT !.rl.retransmit = TRUE]
             start == IF sf.state = "ready" THEN r ELSE again
  <2>1. g = SendAll(start, FlightFive(opt), form, fault, at)
    BY <1>3 DEF SendFlight, Flight5Handler
  <2>2. /\ Sending(start) /\ SameReceiver(r.rl, start.rl)
        /\ start.rl.retransmit => sf.state # "ready"
    <3>1. CASE sf.state = "ready"
      BY <3>1 DEF SameReceiver
    <3>2. CASE sf.state # "ready"
      <4>1. /\ DOMAIN again = {"rl", "wire", "ok"} /\ again.wire = r.wire /\ again.ok = r.ok
            /\ DOMAIN again.rl = DOMAIN r.rl
            /\ again.rl.enc = r.rl.enc /\ again.rl.next = r.rl.next
            /\ again.rl.seq = r.rl.seq /\ again.rl.nextseq = r.rl.nextseq
            /\ again.rl.retransmit = TRUE /\ SameReceiver(r.rl, again.rl)
        BY DEF Sending, RecordLayer, SameReceiver
      <4>2. start = again
        BY <3>2
      <4> HIDE DEF again, start
      <4>3. r.rl.enc
        BY <1>3, <3>2
      <4>4. RecordLayer(again.rl)
        BY <4>1 DEF Sending, RecordLayer, SameReceiver
      <4>5. Epochs(again.rl)
        BY <4>1, <4>3 DEF Sending, Epochs
      <4>6. Numbered(again.rl, again.wire)
        BY <4>1 DEF Sending, Numbered
      <4> QED
        BY <3>2, <4>1, <4>2, <4>4, <4>5, <4>6 DEF Sending
    <3> QED
      BY <3>1, <3>2
  <2> HIDE DEF g, form, start
  <2>3. /\ After(start, g) /\ (g.ok => ~g.rl.retransmit)
        /\ g.ok => g.rl.enc
    BY <2>1, <2>2, FlightFiveFacts, SendAllFacts
  <2>4. SameReceiver(r.rl, g.rl)
    BY <2>2, <2>3 DEF After, SameReceiver
  <2>5. g.rl.retransmit => sf.state # "ready"
    BY <2>2, <2>3 DEF After
  <2> QED
    BY <1>3, <2>3, <2>4, <2>5 DEF After, g
<1> QED
  BY <1>1, <1>2, <1>3

-----------------------------------------------------------------------------
(* The inductive invariant, part by part *)

IsSeq(s) == s \in Seq({s[i] : i \in DOMAIN s})

(* A window of epoch e behind the records taken: each of them is below it or *)
(* marked, and a mark is not below what it starts from, so that the window   *)
(* can start behind the highest mark.                                        *)
Window(w, ids, e) ==
    /\ DOMAIN w = {"lo", "hi", "got"}
    /\ w.lo \in Nat /\ w.hi = w.lo + (WindowSize - 1)
    /\ w.got \subseteq Nat /\ \A g \in w.got : g <= w.hi
    /\ w.got # {} => \E g \in w.got : g >= w.lo
    /\ \A id \in ids : id[1] = e => id[2] < w.lo \/ id[2] \in w.got

Known(ids) == ids \subseteq {0, 1} \X Nat

Windows(q, ids) ==
    /\ Known(ids)
    /\ Window(q.win, ids, 0) /\ Window(q.nextwin, ids, 1)

(* What the network may deliver. *)
IsRecord(q) ==
    /\ q.epoch \in {0, 1} /\ q.seq \in Nat /\ IsSeq(q.body)
    /\ q.type = "alert" => q.body[1].type \in {"fatal", "warning", "unlisted"}
Datagram(d) == IsSeq(d) /\ \A i \in DOMAIN d : IsRecord(d[i])

(* Flights listed while the answer to flight last is awaited. *)
FlightsOf(last) == IF last \in {4, 5, 6} THEN {4, 6} ELSE {2, 4}
IsList(rf, last) ==
    /\ IsSeq(rf) /\ Len(rf) <= 2
    /\ \A i \in DOMAIN rf : "id" \in DOMAIN rf[i] /\ rf[i].id \in FlightsOf(last)
    /\ \A i, j \in DOMAIN rf : rf[i].id = rf[j].id => i = j

(* The record layer, and the windows behind the records taken. *)
RecordsInv ==
    /\ RecordLayer(rl) /\ Numbered(rl, wire)
    /\ hs.fatal \/ (Epochs(rl) /\ ~rl.retransmit)
    /\ rl.ccs => rl.server = 0

WindowsInv ==
    /\ DOMAIN seen = {"ids", "twice"} /\ ~seen.twice
    /\ Windows(rl, seen.ids)

(* The server, and what is on its way. *)
ServerInv ==
    /\ DOMAIN srv = {"cookie", "has", "seq", "seq1", "sent", "extra"}
    /\ srv.seq \in Nat /\ srv.seq1 \in Nat /\ srv.extra \in 0 .. MaxExtra
    /\ faults \in 0 .. MaxFaults
    /\ Datagram(rl.left) /\ \A d \in net : Datagram(d)

(* The handshake: its parts, what holds while it goes on (the last flight of *)
(* the client is the one it holds, and flight 5 was sent only with the       *)
(* change of the cipher spec) and what holds when it ends.                   *)
Handshake(h) ==
    /\ DOMAIN h = {"last", "timeout", "sf", "rf", "flight", "rseq", "opt", "chip", "auth",
                   "fatal", "status"}
    /\ h.last \in 0 .. 6 /\ h.timeout \in Nat
    /\ DOMAIN h.sf = {"id", "state"} /\ h.sf.id \in {0, 1, 3, 5}
    /\ h.auth \in {"initialised", "started", "completed", "closed"}
    /\ h.fatal \in BOOLEAN
    /\ IsList(h.rf, h.last)

GoesOn(h, enc) ==
    /\ h.last # 6 /\ h.fatal = FALSE /\ h.status # "ok"
    /\ h.auth = IF h.last = 0 THEN "initialised" ELSE "started"
    /\ h.last \in {1, 3, 5} => h.sf.id = h.last /\ h.sf.state = "transmitted"
    /\ h.sf.id = 5 => enc

FlightsInv ==
    /\ Handshake(hs)
    /\ mode \in {"send", "recv", "exit"}
    /\ hs.auth = "initialised" => srv.has = {}
    /\ mode # "exit" => GoesOn(hs, rl.enc)
    /\ mode = "recv" => hs.last \in {1, 3, 5} /\ hs.rf # << >>
    /\ hs.status = "ok" => ~hs.fatal

(* The session around the handshake. *)
SessionInv ==
    /\ DOMAIN ses = {"phase", "mem", "socket", "chip", "registered", "buf", "reading", "undefined"}
    /\ ses.phase \in {"none", "ready", "handshake", "connected", "over"}
    /\ ses.mem \subseteq Memory
    /\ ses.phase \in {"none", "ready"} => hs = InitialHandshake /\ mode = "send" /\ ~ses.chip
    /\ ses.phase = "connected" => mode = "exit" /\ ~hs.fatal
    /\ ses.reading \in BOOLEAN /\ (ses.reading => ses.phase = "connected")
    /\ LeftBehind

HandshakeInv == RecordsInv /\ WindowsInv /\ ServerInv /\ FlightsInv
IInv == HandshakeInv /\ SessionInv
-----------------------------------------------------------------------------
(* Receiving *)

(* The window starts anew behind all that was taken. *)
LEMMA WindowSlides ==
    ASSUME NEW w, NEW ids, Known(ids), NEW e, Window(w, ids, e)
    PROVE  Window(SlideWindow(w), ids, e)
<1> DEFINE lo == IF w.got = {} THEN w.lo ELSE Max(w.got) + 1
           hi == lo + (WindowSize - 1)
           got == (MaxSeq + 1) .. hi
           w2 == SlideWindow(w)
<1>0. WindowSize \in Nat \ {0} /\ MaxSeq \in Nat
  BY RecordAssumption
<1>1. w2 = [lo |-> lo, hi |-> hi, got |-> got]
  BY DEF SlideWindow
<1>2. lo \in Nat /\ lo >= w.lo /\ \A g \in w.got : g < lo
  <2>1. CASE w.got = {}
    BY <2>1 DEF Window
  <2>2. CASE w.got # {}
    <3>1. w.got \subseteq Int /\ w.hi \in Int /\ \A g \in w.got : g <= w.hi
      BY <1>0 DEF Window
    <3>2. Max(w.got) \in w.got /\ \A g \in w.got : g <= Max(w.got)
      BY <2>2, <3>1, MaxFacts
    <3> QED
      BY <2>2, <3>2 DEF Window
  <2> QED
    BY <2>1, <2>2
<1> HIDE DEF lo
<1>3. hi \in Nat /\ hi >= lo
  BY <1>0, <1>2
<1>4. got \subseteq Nat /\ \A g \in got : g <= hi
  BY <1>0, <1>3
<1>5. got # {} => hi \in got
  BY <1>0, <1>3
<1>6. \A id \in ids : id[1] = e => id[2] < lo
  <2>1. ASSUME NEW id \in ids, id[1] = e PROVE id[2] < lo
    <3>1. id[2] \in Nat /\ w.lo \in Nat
      BY DEF Window, Known
    <3>2. id[2] < w.lo \/ id[2] \in w.got
      BY <2>1 DEF Window
    <3> QED
      BY <1>2, <3>1, <3>2
  <2> QED
    BY <2>1
<1> HIDE DEF got, w2
<1>7. /\ DOMAIN w2 = {"lo", "hi", "got"}
      /\ w2.lo = lo /\ w2.hi = hi /\ w2.got = got
  BY <1>1
<1>8. Window(w2, ids, e)
  BY <1>2, <1>3, <1>4, <1>5, <1>6, <1>7 DEF Window
<1> QED
  BY <1>8 DEF w2

(* What a window says to record id. *)
Accounted(c, ids, e, id) ==
    /\ c.verdict \in {"ignore", "malloc", "decrypt", "moved", "updated"}
    /\ c.verdict \in {"moved", "updated"} =>
          id \notin ids /\ Window(c.win, ids, e) /\ Window(c.win, ids \cup {id}, e)

(* A window that marks or moves does so for a record not taken before. *)
LEMMA CheckReplayFacts ==
    ASSUME NEW w, NEW ids, Known(ids), NEW e \in {0, 1}, Window(w, ids, e),
           NEW s \in Nat, NEW valid \in {"ok", "bad", "malloc", "decrypt"}
    PROVE  Accounted(CheckReplay(w, s, valid), ids, e, <<e, s>>)
<1> DEFINE c == CheckReplay(w, s, valid)
           ids2 == ids \cup {<<e, s>>}
<1>0. WindowSize \in Nat \ {0} /\ w.lo \in Nat /\ w.hi \in Int
  BY RecordAssumption DEF Window
<1>1. CASE s < w.lo \/ s \in w.got \/ valid = "bad"
  <2>1. c.verdict = "ignore"
    BY <1>1 DEF CheckReplay
  <2> QED
    BY <2>1 DEF Accounted
<1>2. CASE ~(s < w.lo \/ s \in w.got \/ valid = "bad") /\ valid # "ok"
  <2>1. c.verdict = valid
    BY <1>2 DEF CheckReplay
  <2> QED
    BY <1>2, <2>1 DEF Accounted
<1>3. CASE ~(s < w.lo \/ s \in w.got) /\ valid = "ok"
  <2> DEFINE g == c.win
  <2>1. s >= w.lo
    BY <1>0, <1>3
  <2>2. <<e, s>> \notin ids
    <3>1. <<e, s>>[1] = e /\ <<e, s>>[2] = s
      OBVIOUS
    <3> QED
      BY <1>3, <3>1 DEF Window
  <2>3. \A id \in ids2 : id[1] = e => id[2] = s \/ (id[2] \in Nat /\ (id[2] < w.lo \/ id[2] \in w.got))
    <3>1. ASSUME NEW id \in ids, id[1] = e
          PROVE  id[2] \in Nat /\ (id[2] < w.lo \/ id[2] \in w.got)
      BY <3>1 DEF Window, Known
    <3>2. <<e, s>>[2] = s
      OBVIOUS
    <3> QED
      BY <3>1, <3>2
  <2>4. CASE s > w.hi
    <3> DEFINE lo == s - (WindowSize - 1)
               got == {x \in w.got : x > s - WindowSize} \cup {s}
    <3>1. c = [win |-> [lo |-> lo, hi |-> s, got |-> got], verdict |-> "moved"]
      BY <1>3, <2>4 DEF CheckReplay
    <3>2. DOMAIN g = {"lo", "hi", "got"} /\ g.lo = lo /\ g.hi = s /\ g.got = got /\ c.verdict = "moved"
      BY <3>1
    <3>3. lo \in Nat /\ lo > w.lo /\ s = lo + (WindowSize - 1) /\ s >= lo
      BY <1>0, <2>4 DEF Window
    <3>4. got \subseteq Nat /\ s \in got /\ \A x \in got : x <= s
      BY <1>0, <2>4 DEF Window
    <3>5. \A n \in Nat : (n < w.lo \/ n \in w.got) => n < lo \/ n \in got
      BY <1>0, <3>3 DEF Window
    <3>6. \A id \in ids2 : id[1] = e => id[2] < lo \/ id[2] \in got
      BY <2>3, <3>4, <3>5
    <3> HIDE DEF got, lo, g
    <3>7. Window(g, ids2, e) /\ Window(g, ids, e)
      BY <3>2, <3>3, <3>4, <3>6 DEF Window
    <3> QED
      BY <1>3, <2>1, <2>2, <3>2, <3>7 DEF g, Accounted
  <2>5. CASE ~(s > w.hi)
    <3> DEFINE got == w.got \cup {s}
    <3>1. c = [win |-> [w EXCEPT !.got = @ \cup {s}], verdict |-> "updated"]
      BY <1>3, <2>5 DEF CheckReplay
    <3>2. DOMAIN g = {"lo", "hi", "got"} /\ g.lo = w.lo /\ g.hi = w.hi /\ g.got = got /\ c.verdict = "updated"
      BY <3>1 DEF Window
    <3>3. got \subseteq Nat /\ s \in got /\ \A x \in got : x <= w.hi
      BY <1>0, <2>5 DEF Window
    <3>6. \A id \in ids2 : id[1] = e => id[2] < w.lo \/ id[2] \in got
      BY <2>3, <3>3
    <3> HIDE DEF got, g
    <3>7. Window(g, ids2, e) /\ Window(g, ids, e)
      BY <2>1, <3>2, <3>3, <3>6 DEF Window
    <3> QED
      BY <1>3, <2>1, <2>2, <3>2, <3>7 DEF g, Accounted
  <2> QED
    BY <2>4, <2>5
<1> QED
  BY <1>1, <1>2, <1>3

(* Receiving leaves what sending keeps. *)
SameSender(q, q2) ==
    /\ RecordLayer(q2)
    /\ q2.next = q.next /\ q2.server = q.server /\ q2.seq = q.seq /\ q2.nextseq = q.nextseq
    /\ q2.enc = q.enc /\ q2.retransmit = q.retransmit /\ q2.left = q.left
    /\ q2.ccs => q2.server = 0

(* A record that is looked at changes only what is known of the last one. *)
LEMMA ProcessFacts ==
    ASSUME NEW q, RecordLayer(q), q.ccs => q.server = 0, NEW record, NEW expected, NEW fault
    PROVE  LET p == ProcessRecord(q, record, expected, fault)
           IN /\ DOMAIN p = {"rl", "valid"}
              /\ p.valid \in {"ok", "bad", "malloc", "decrypt"}
              /\ SameSender(q, p.rl) /\ p.rl.win = q.win /\ p.rl.nextwin = q.nextwin
<1> DEFINE r == [q EXCEPT !.dec = FALSE]
           deciphered == Decrypt(record, fault)
           takes == q.next = q.server + 1 /\ record.epoch = 0 /\ expected = "handshake"
           p == ProcessRecord(q, record, expected, fault)
           r2 == [r EXCEPT !.ccs = TRUE]
           r3 == [r EXCEPT !.dec = (deciphered = "ok")]
           Fine(v) == /\ DOMAIN v = {"rl", "valid"}
                      /\ v.valid \in {"ok", "bad", "malloc", "decrypt"}
                      /\ SameSender(q, v.rl) /\ v.rl.win = q.win /\ v.rl.nextwin = q.nextwin
<1>1. SameSender(q, r) /\ r.win = q.win /\ r.nextwin = q.nextwin
  BY DEF SameSender, RecordLayer
<1>2. takes => SameSender(q, r2) /\ r2.win = q.win /\ r2.nextwin = q.nextwin
  BY DEF SameSender, RecordLayer
<1>3. deciphered \in {"ok", "decrypt"}
  BY DEF Decrypt
<1> HIDE DEF deciphered
<1>4. SameSender(q, r3) /\ r3.win = q.win /\ r3.nextwin = q.nextwin
  BY DEF SameSender, RecordLayer
<1>5. p = IF record.type = "ccs"
          THEN IF takes THEN [rl |-> r2, valid |-> "ok"] ELSE [rl |-> r, valid |-> "bad"]
          ELSE IF record.type = "app" /\ expected = "handshake" THEN [rl |-> r, valid |-> "bad"]
          ELSE IF ~q.enc \/ record.epoch # q.next THEN [rl |-> r, valid |-> "ok"]
          ELSE IF fault = "malloc" THEN [rl |-> r, valid |-> "malloc"]
          ELSE [rl |-> r3, valid |-> deciphered]
  BY DEF ProcessRecord, deciphered
<1> HIDE DEF r, r2, r3, takes, p
<1>6. \A v \in {"ok", "bad", "malloc"} : Fine([rl |-> r, valid |-> v])
  BY <1>1
<1>7. takes => Fine([rl |-> r2, valid |-> "ok"])
  BY <1>2
<1>8. Fine([rl |-> r3, valid |-> deciphered])
  BY <1>3, <1>4
<1> HIDE DEF Fine
<1>9. Fine(p)
  BY <1>5, <1>6, <1>7, <1>8
<1> QED
  BY <1>9 DEF Fine, p

(* What receiving a record makes of record layer q. *)
Recorded(q, ids, record, r) ==
    /\ DOMAIN r = {"rl", "status"}
    /\ SameSender(q, r.rl) /\ Windows(r.rl, ids)
    /\ r.status \in {"ok", "alert", "app"} =>
          /\ <<record.epoch, record.seq>> \notin ids
          /\ Windows(r.rl, ids \cup {<<record.epoch, record.seq>>})
    /\ r.status = "alert" => record.type = "alert"

(* Only a record that was not taken before is accepted, and it is marked. *)
LEMMA ReceiveRecordFacts ==
    ASSUME NEW q, RecordLayer(q), q.ccs => q.server = 0, NEW ids, Windows(q, ids),
           NEW record, record.epoch \in {0, 1}, record.seq \in Nat, NEW expected, NEW fault
    PROVE  Recorded(q, ids, record, ReceiveRecord(q, record, expected, fault))
<1> DEFINE id == <<record.epoch, record.seq>>
           p == ProcessRecord(q, record, expected, fault)
           old == IF record.epoch = 0 THEN q.win ELSE q.nextwin
           c == CheckReplay(old, record.seq, p.valid)
           seen2 == record.seq < old.lo \/ record.seq \in old.got
           after == IF seen2 THEN q ELSE p.rl
           new == IF record.epoch = 0 THEN [after EXCEPT !.win = c.win]
                  ELSE [after EXCEPT !.nextwin = c.win]
           kind == IF record.type \in {"alert", "app"} THEN record.type ELSE "ok"
           r == ReceiveRecord(q, record, expected, fault)
<1>1. r = IF ~EpochAccepted(q, record.epoch) THEN [rl |-> q, status |-> "epoch"]
          ELSE IF c.verdict \in {"decrypt", "malloc"} THEN [rl |-> after, status |-> c.verdict]
          ELSE IF c.verdict = "ignore" THEN [rl |-> after, status |-> "error"]
          ELSE [rl |-> new, status |-> kind]
  BY DEF ReceiveRecord
<1>2. /\ p.valid \in {"ok", "bad", "malloc", "decrypt"}
      /\ SameSender(q, p.rl) /\ p.rl.win = q.win /\ p.rl.nextwin = q.nextwin
  BY ProcessFacts
<1>3. SameSender(q, q)
  BY DEF SameSender
<1> HIDE DEF p
<1>4. SameSender(q, after) /\ after.win = q.win /\ after.nextwin = q.nextwin
  BY <1>2, <1>3
<1> HIDE DEF after
<1>5. Windows(after, ids)
  BY <1>4 DEF Windows
<1>6. Known(ids) /\ Window(old, ids, record.epoch)
  BY DEF Windows
<1> HIDE DEF old
<1>7. Accounted(c, ids, record.epoch, id)
  <2> DEFINE v == p.valid
  <2>1. v \in {"ok", "bad", "malloc", "decrypt"}
    BY <1>2
  <2> HIDE DEF v
  <2> QED
    BY <1>6, <2>1, CheckReplayFacts DEF v
<1> HIDE DEF c
<1>8. CASE ~EpochAccepted(q, record.epoch)
  <2>1. DOMAIN r = {"rl", "status"} /\ r.rl = q /\ r.status = "epoch"
    BY <1>1, <1>8
  <2> QED
    BY <1>3, <2>1 DEF Recorded
<1>9. CASE EpochAccepted(q, record.epoch) /\ c.verdict \in {"decrypt", "malloc", "ignore"}
  <2>1. DOMAIN r = {"rl", "status"} /\ r.rl = after /\ r.status \in {"decrypt", "malloc", "error"}
    BY <1>1, <1>9
  <2> QED
    BY <1>4, <1>5, <2>1 DEF Recorded
<1>10. CASE EpochAccepted(q, record.epoch) /\ c.verdict \in {"moved", "updated"}
  <2>1. DOMAIN r = {"rl", "status"} /\ r.rl = new /\ r.status = kind
    BY <1>1, <1>10
  <2>2. /\ id \notin ids
        /\ Window(c.win, ids, record.epoch) /\ Window(c.win, ids \cup {id}, record.epoch)
    BY <1>7, <1>10 DEF Accounted
  <2>3. \A e \in {0, 1} : e # record.epoch =>
            (\A w : Window(w, ids, e) => Window(w, ids \cup {id}, e))
    <3>1. id[1] = record.epoch
      OBVIOUS
    <3> QED
      BY <3>1 DEF Window
  <2>4. Known(ids \cup {id})
    BY <1>6 DEF Known
  <2> HIDE DEF id
  <2>5. CASE record.epoch = 0
    <3>1. /\ new.win = c.win /\ new.nextwin = q.nextwin /\ SameSender(q, new)
      BY <1>4, <2>5 DEF SameSender, RecordLayer
    <3>2. Window(q.nextwin, ids, 1) /\ Window(q.nextwin, ids \cup {id}, 1)
      BY <2>3, <2>5 DEF Windows
    <3> HIDE DEF new
    <3>3. Windows(new, ids) /\ Windows(new, ids \cup {id})
      BY <1>6, <2>2, <2>4, <2>5, <3>1, <3>2 DEF Windows
    <3> QED
      BY <2>1, <2>2, <3>1, <3>3 DEF id, Recorded
  <2>6. CASE record.epoch = 1
    <3>1. /\ new.nextwin = c.win /\ new.win = q.win /\ SameSender(q, new)
      BY <1>4, <2>6 DEF SameSender, RecordLayer
    <3>2. Window(q.win, ids, 0) /\ Window(q.win, ids \cup {id}, 0)
      BY <2>3, <2>6 DEF Windows
    <3> HIDE DEF new
    <3>3. Windows(new, ids) /\ Windows(new, ids \cup {id})
      BY <1>6, <2>2, <2>4, <2>6, <3>1, <3>2 DEF Windows
    <3> QED
      BY <2>1, <2>2, <3>1, <3>3 DEF id, Recorded
  <2> QED
    BY <2>5, <2>6
<1> QED
  BY <1>7, <1>8, <1>9, <1>10 DEF Accounted

(* A sequence over any set is one over its own members. *)
LEMMA IsSeqOf ==
    ASSUME NEW T, NEW s \in Seq(T)
    PROVE  IsSeq(s) /\ Len(s) \in Nat /\ DOMAIN s = 1 .. Len(s)
<1> DEFINE U == {s[i] : i \in DOMAIN s}
<1>1. Len(s) \in Nat /\ DOMAIN s = 1 .. Len(s) /\ s = [i \in 1 .. Len(s) |-> s[i]]
  OBVIOUS
<1>2. \A i \in 1 .. Len(s) : s[i] \in U
  BY <1>1
<1> HIDE DEF U
<1>3. [i \in 1 .. Len(s) |-> s[i]] \in Seq(U)
  BY <1>1, <1>2, IsASeq
<1>4. s \in Seq(U)
  BY <1>1, <1>3
<1> QED
  BY <1>1, <1>4 DEF IsSeq, U

(* A sequence is a function on the numbers up to its length. *)
LEMMA IsSeqFacts ==
    ASSUME NEW s, IsSeq(s)
    PROVE  Len(s) \in Nat /\ DOMAIN s = 1 .. Len(s)
BY DEF IsSeq

(* The records of a datagram that are handed over are some of it. *)
LEMMA DatagramFacts ==
    ASSUME NEW d, Datagram(d)
    PROVE  /\ Datagram(KnownRecords(d))
           /\ KnownRecords(d) # << >> => IsRecord(d[1]) /\ Datagram(KnownRecords(Tail(d)))
<1>1. ASSUME NEW c, Datagram(c) PROVE Datagram(KnownRecords(c))
  <2> DEFINE junk == {i \in DOMAIN c : c[i].type = "junk"}
             U == {c[i] : i \in DOMAIN c}
  <2>1. IsSeq(c) /\ Len(c) \in Nat /\ DOMAIN c = 1 .. Len(c) /\ c \in Seq(U)
    BY <1>1, IsSeqFacts DEF Datagram, IsSeq
  <2>2. CASE junk = {}
    BY <1>1, <2>2 DEF KnownRecords
  <2>3. CASE junk # {}
    <3> DEFINE n == Min(junk) - 1
               p == SubSeq(c, 1, n)
    <3>1. KnownRecords(c) = p
      BY <2>3 DEF KnownRecords
    <3>2. junk \subseteq Nat /\ junk \subseteq 1 .. Len(c)
      BY <2>1
    <3>3. Min(junk) \in 1 .. Len(c)
      BY <2>3, <3>2, MinFacts
    <3> HIDE DEF junk, U
    <3>4. n \in 0 .. Len(c)
      BY <2>1, <3>3
    <3> HIDE DEF n
    <3>5. p \in Seq(U) /\ Len(p) = n /\ \A i \in 1 .. n : p[i] = c[i]
      BY <2>1, <3>4
    <3> HIDE DEF p
    <3>6. IsSeq(p) /\ DOMAIN p = 1 .. n
      BY <3>5, IsSeqOf
    <3>7. \A i \in 1 .. n : i \in DOMAIN c
      BY <2>1, <3>4
    <3> QED
      BY <1>1, <3>1, <3>5, <3>6, <3>7 DEF Datagram
  <2> QED
    BY <2>2, <2>3
<1>2. ASSUME KnownRecords(d) # << >> PROVE IsRecord(d[1]) /\ Datagram(Tail(d))
  <2> DEFINE U == {d[i] : i \in DOMAIN d}
  <2>1. IsSeq(d) /\ Len(d) \in Nat /\ DOMAIN d = 1 .. Len(d) /\ d \in Seq(U)
    BY IsSeqFacts DEF Datagram, IsSeq
  <2>2. d # << >>
    <3>1. SUFFICES ASSUME d = << >> PROVE FALSE
      OBVIOUS
    <3>2. DOMAIN d = {}
      BY <3>1
    <3> QED
      BY <1>2, <3>1, <3>2 DEF KnownRecords
  <2> HIDE DEF U
  <2>3. Len(d) > 0 /\ Tail(d) \in Seq(U) /\ Len(Tail(d)) = Len(d) - 1
        /\ \A i \in 1 .. Len(d) - 1 : Tail(d)[i] = d[i + 1]
    BY <2>1, <2>2
  <2>4. IsSeq(Tail(d)) /\ DOMAIN Tail(d) = 1 .. Len(d) - 1
    BY <2>3, IsSeqOf
  <2>5. \A i \in 1 .. Len(d) - 1 : IsRecord(Tail(d)[i])
    BY <2>1, <2>3 DEF Datagram
  <2> QED
    BY <2>1, <2>3, <2>4, <2>5 DEF Datagram
<1> QED
  BY <1>1, <1>2

-----------------------------------------------------------------------------
(* Handling the server's flights *)

IsHandler(h) ==
    /\ DOMAIN h = {"fl", "rf", "flight", "rseq", "opt", "chip", "rl", "status"}
    /\ "id" \in DOMAIN h.fl

(* What a handler leaves alone. *)
Keeps(h, g) == IsHandler(g) /\ g.fl.id = h.fl.id /\ g.rf = h.rf /\ g.rl = h.rl

(* A message goes into its node or a new one; the flight and the record      *)
(* layer stay.                                                               *)
LEMMA BufferFacts ==
    ASSUME NEW h, IsHandler(h), NEW f, NEW m, NEW fault
    PROVE  /\ Keeps(h, Buffer(h, f, m, fault))
           /\ Buffer(h, f, m, fault).status # "notinflight"
<1> DEFINE Fine(g) == Keeps(h, g) /\ g.status # "notinflight"
<1>1. \A s : s # "notinflight" => Fine([h EXCEPT !.status = s])
  BY DEF Keeps, IsHandler
<1>2. \A node, s : s # "notinflight" =>
         Fine([h EXCEPT !.fl.nodes[m.type] = node, !.status = s])
  BY DEF Keeps, IsHandler
<1>3. \A g, o : Fine(g) => Fine([g EXCEPT !.opt = o]) /\ Fine([g EXCEPT !.flight = o])
  BY DEF Keeps, IsHandler
<1>4. \A o, nodes, s : s # "notinflight" =>
         Fine([h EXCEPT !.flight = f, !.fl.nodes = nodes, !.opt = o, !.status = s])
  BY DEF Keeps, IsHandler
<1>5. Fine([h EXCEPT !.flight = f, !.status = "malloc"])
  BY DEF Keeps, IsHandler
<1>6. Fine(CheckAndBuffer(h, m, fault))
  <2> DEFINE n == h.fl.nodes[m.type]
             buffered == [n EXCEPT !.held = TRUE, !.got = @ \cup m.part]
             now == IF n.state = "partial" THEN buffered ELSE n
             done == Counted([now EXCEPT !.state = "complete"])
             limit == LimitReached(now)
             g == CheckAndBuffer(h, m, fault)
             bad == [n EXCEPT !.held = TRUE]
             whole == Whole(m.type, now.got)
  <2> DEFINE status == IF limit THEN "maxcount" ELSE "ok"
             first == [h EXCEPT !.fl.nodes[m.type] = done, !.status = status]
             opt == Noted(h.opt, m.type)
             g1 == [h EXCEPT !.status = "malloc"]
             g2 == [h EXCEPT !.fl.nodes[m.type] = bad, !.status = "badseq"]
             g3 == [h EXCEPT !.fl.nodes[m.type] = now, !.status = "incomplete"]
             g4 == [first EXCEPT !.opt = opt]
  <2>1. g = g1 \/ g = g2 \/ g = g3 \/ g = g4
    BY DEF CheckAndBuffer, IsHandler
  <2>2. status # "notinflight"
    OBVIOUS
  <2> HIDE DEF n, buffered, now, done, limit, bad, g, status, opt, Fine
  <2>3. Fine(first)
    BY <1>2, <2>2
  <2> HIDE DEF first
  <2>4. Fine(g4)
    BY <1>3, <2>3
  <2>5. Fine(g1)
    BY <1>1
  <2>6. Fine(g2) /\ Fine(g3)
    BY <1>2
  <2> HIDE DEF g1, g2, g3, g4
  <2>7. Fine(g)
    BY <2>1, <2>4, <2>5, <2>6
  <2> QED
    BY <2>7 DEF g
<1> DEFINE b == CheckAndBuffer(h, m, fault)
           g == Buffer(h, f, m, fault)
           n == IF m.type = "ccs" THEN CipherSpecNode ELSE NewNode(m)
           whole == n.state = "complete"
           nodes == AddNode(h.fl.nodes, m.type, n)
           opt == IF whole THEN Noted(h.opt, m.type) ELSE h.opt
           status == IF whole THEN "ok" ELSE "incomplete"
           g1 == [b EXCEPT !.flight = f]
           g2 == [h EXCEPT !.flight = f, !.status = "malloc"]
           g3 == [h EXCEPT !.flight = f, !.fl.nodes = nodes, !.opt = opt, !.status = status]
<1>7. g = b \/ g = g1 \/ g = g2 \/ g = g3
  BY DEF Buffer
<1>8. status # "notinflight"
  OBVIOUS
<1> HIDE DEF b, g, n, whole, nodes, opt, status, Fine
<1>9. Fine(b)
  BY <1>6 DEF b
<1>10. Fine(g1)
  BY <1>3, <1>9
<1>11. Fine(g3)
  BY <1>4, <1>8
<1> HIDE DEF g1, g2, g3
<1>12. Fine(g)
  BY <1>5, <1>7, <1>9, <1>10, <1>11 DEF g2
<1> QED
  BY <1>12 DEF Fine, g

(* So does the step to the chip. *)
LEMMA GiveToChipFacts ==
    ASSUME NEW h, IsHandler(h), NEW fault
    PROVE  /\ Keeps(h, GiveToChip(h, fault))
           /\ GiveToChip(h, fault).status # "notinflight"
<1> DEFINE processed == [t \in DOMAIN h.fl.nodes |-> [h.fl.nodes[t] EXCEPT !.state = "processed"]]
           chip == Append(h.chip, h.fl.id)
           given == [h EXCEPT !.fl.state = "received", !.chip = chip]
           seq == LastSeq(h.fl)
           status == IF h.fl.id = 6 THEN fault ELSE "chip"
           fails == fault \in {"chip", "interr", "hserr"}
           bad == [h EXCEPT !.fl.state = "received", !.status = status]
           good == [given EXCEPT !.fl.nodes = processed, !.fl.state = "processed",
                                 !.rseq = seq, !.status = "ok"]
           g == GiveToChip(h, fault)
<1>1. g = IF fails THEN bad ELSE good
  BY DEF GiveToChip
<1>2. fails => status # "notinflight"
  OBVIOUS
<1> HIDE DEF processed, seq, chip, g, status
<1>3. Keeps(h, bad) /\ bad.status = status
  BY DEF Keeps, IsHandler
<1>4. Keeps(h, good) /\ good.status = "ok"
  BY DEF Keeps, IsHandler
<1> HIDE DEF bad, good, fails
<1>5. Keeps(h, g) /\ g.status # "notinflight"
  BY <1>1, <1>2, <1>3, <1>4
<1> QED
  BY <1>5 DEF g

(* Steps that keep a handler's flight and record layer, and their sequence. *)
LEMMA KeepsFacts ==
    /\ \A h : IsHandler(h) => Keeps(h, h)
    /\ \A h, s : IsHandler(h) => Keeps(h, [h EXCEPT !.fl.state = s])
    /\ \A h, g, k : Keeps(h, g) /\ Keeps(g, k) => Keeps(h, k)
    /\ \A h, g, s : Keeps(h, g) => Keeps(h, Status(g, s)) /\ Status(g, s).status = s
    /\ \A h, g : Keeps(h, g) => Keeps(h, [g EXCEPT !.fl = ClearMessages(@)])
    /\ \A h, g : Keeps(h, g) => Keeps(h, [g EXCEPT !.flight = 0, !.fl = ClearMessages(@)])
<1>1. \A h : IsHandler(h) => Keeps(h, h)
  BY DEF Keeps
<1>2. \A h, s : IsHandler(h) => Keeps(h, [h EXCEPT !.fl.state = s])
  BY DEF Keeps, IsHandler
<1>3. \A h, g, k : Keeps(h, g) /\ Keeps(g, k) => Keeps(h, k)
  BY DEF Keeps
<1>4. \A h, g, s : Keeps(h, g) => Keeps(h, Status(g, s)) /\ Status(g, s).status = s
  BY DEF Keeps, IsHandler, Status
<1>5. \A fl : "id" \in DOMAIN fl =>
          "id" \in DOMAIN ClearMessages(fl) /\ ClearMessages(fl).id = fl.id
  BY DEF ClearMessages
<1>6. \A h, g : Keeps(h, g) => Keeps(h, [g EXCEPT !.fl = ClearMessages(@)])
  BY <1>5 DEF Keeps, IsHandler
<1>7. \A h, g : Keeps(h, g) => Keeps(h, [g EXCEPT !.flight = 0, !.fl = ClearMessages(@)])
  BY <1>5 DEF Keeps, IsHandler
<1> QED
  BY <1>1, <1>2, <1>3, <1>4, <1>6, <1>7

(* Flight 2 keeps them. *)
LEMMA Flight2Facts ==
    ASSUME NEW h0, IsHandler(h0), NEW last, NEW m, NEW fault
    PROVE  Keeps(h0, Flight2Handler(h0, last, m, fault))
<1> DEFINE h == IF h0.fl.state = "processed" THEN [h0 EXCEPT !.fl.state = "rereceive"] ELSE h0
           b == Buffer(h, 2, m, fault)
           done == GiveToChip(b, fault)
           clear == [done EXCEPT !.fl = ClearMessages(@)]
           g == Flight2Handler(h0, last, m, fault)
<1>1. \/ \E s : g = Status(h, s)
      \/ g = b \/ (\E s : g = Status(b, s)) \/ g = done \/ g = clear
  BY DEF Flight2Handler
<1>2. Keeps(h0, h)
  BY KeepsFacts
<1> HIDE DEF g, h
<1>3. Keeps(h, b)
  BY <1>2, BufferFacts DEF Keeps
<1> HIDE DEF b
<1>4. Keeps(b, done)
  BY <1>3, GiveToChipFacts DEF Keeps
<1> HIDE DEF done
<1>5. Keeps(h0, b) /\ Keeps(h0, done)
  BY <1>2, <1>3, <1>4, KeepsFacts
<1>6. Keeps(h0, clear)
  BY <1>5, KeepsFacts
<1>7. \A s : Keeps(h0, Status(h, s)) /\ Keeps(h0, Status(b, s))
  BY <1>2, <1>5, KeepsFacts
<1> HIDE DEF clear
<1>8. Keeps(h0, g)
  BY <1>1, <1>5, <1>6, <1>7
<1> QED
  BY <1>8 DEF g

(* Flight 4 keeps them, new or once more. *)
LEMMA Flight4Facts ==
    ASSUME NEW h0, IsHandler(h0), NEW last, NEW m, NEW fault
    PROVE  Keeps(h0, Flight4Handler(h0, last, m, fault))
<1> DEFINE again == h0.fl.state \in {"processed", "rereceive"}
           h == IF again THEN [h0 EXCEPT !.fl.state = "rereceive"] ELSE h0
           g == Flight4Handler(h0, last, m, fault)
<1>1. g = Status(h, "notinflight") \/ g = Flight4Again(h, m) \/ g = FirstFlight4(h, last, m, fault)
  BY DEF Flight4Handler
<1>2. Keeps(h0, h)
  BY KeepsFacts
<1> HIDE DEF g, h
<1>3. IsHandler(h)
  BY <1>2 DEF Keeps
<1>4. Keeps(h, FirstFlight4(h, last, m, fault))
  <2> DEFINE b == Buffer(h, 4, m, fault)
             done == GiveToChip(b, fault)
             clear == [done EXCEPT !.flight = 0, !.fl = ClearMessages(@)]
             k == FirstFlight4(h, last, m, fault)
  <2>1. \/ \E s : k = Status(h, s)
        \/ k = b \/ (\E s : k = Status(b, s)) \/ k = done \/ k = clear
    BY DEF FirstFlight4
  <2> HIDE DEF k
  <2>2. Keeps(h, b) /\ IsHandler(b)
    BY <1>3, BufferFacts DEF Keeps
  <2> HIDE DEF b
  <2>3. Keeps(b, done)
    BY <2>2, GiveToChipFacts
  <2> HIDE DEF done
  <2>4. Keeps(h, done) /\ Keeps(h, h)
    BY <1>3, <2>2, <2>3, KeepsFacts
  <2>5. Keeps(h, clear)
    BY <2>4, KeepsFacts
  <2>6. \A s : Keeps(h, Status(h, s)) /\ Keeps(h, Status(b, s))
    BY <2>2, <2>4, KeepsFacts
  <2> HIDE DEF clear
  <2>7. Keeps(h, k)
    BY <2>1, <2>2, <2>4, <2>5, <2>6
  <2> QED
    BY <2>7 DEF k
<1>5. Keeps(h, Flight4Again(h, m))
  <2> DEFINE fl == MarkAgain(h.fl, m)
             marked == [h EXCEPT !.flight = 4, !.fl = fl]
             fl2 == ClearMessages([fl EXCEPT !.state = "processed"])
             clear == [marked EXCEPT !.status = "ok", !.fl = fl2]
             k == Flight4Again(h, m)
  <2>1. \/ \E s : k = Status(h, s)
        \/ \E s : k = Status(marked, s)
        \/ k = clear
    BY <1>3 DEF Flight4Again, IsHandler
  <2>2. "id" \in DOMAIN fl /\ fl.id = h.fl.id
    <3> DEFINE n == [h.fl.nodes[m.type] EXCEPT !.got = @ \cup m.part]
               n2 == IF Whole(m.type, n.got) THEN Counted([n EXCEPT !.state = "processed"]) ELSE n
    <3>1. fl = [h.fl EXCEPT !.nodes[m.type] = n2]
      BY DEF MarkAgain
    <3> HIDE DEF n2
    <3> QED
      BY <1>3, <3>1 DEF IsHandler
  <2> HIDE DEF fl
  <2>3. "id" \in DOMAIN fl2 /\ fl2.id = h.fl.id
    BY <2>2 DEF ClearMessages
  <2> HIDE DEF fl2, k
  <2>4. Keeps(h, marked) /\ Keeps(h, clear) /\ Keeps(h, h)
    BY <1>3, <2>2, <2>3 DEF Keeps, IsHandler
  <2> HIDE DEF marked, clear
  <2>5. \A s : Keeps(h, Status(h, s)) /\ Keeps(h, Status(marked, s))
    BY <2>4, KeepsFacts
  <2>6. Keeps(h, k)
    BY <2>1, <2>4, <2>5
  <2> QED
    BY <2>6 DEF k
<1>6. Keeps(h0, g)
  <2>1. Keeps(h, Status(h, "notinflight"))
    BY <1>3, KeepsFacts
  <2> QED
    BY <1>1, <1>2, <1>4, <1>5, <2>1, KeepsFacts
<1> QED
  BY <1>6 DEF g

(* Flight 6 moves the record layer once, when the cipher spec changes, and   *)
(* then it is the flight that came.                                          *)
LEMMA Flight6Facts ==
    ASSUME NEW h0, IsHandler(h0), NEW last, NEW m, NEW fault
    PROVE  LET g == Flight6Handler(h0, last, m, fault)
           IN /\ m.type # "ccs" => Keeps(h0, g)
              /\ m.type = "ccs" =>
                    /\ IsHandler(g) /\ g.fl.id = h0.fl.id /\ g.rf = h0.rf
                    /\ g.rl = ChangeServerState(h0.rl)
                    /\ g.status # "notinflight"
<1> DEFINE h == IF m.type = "ccs" THEN [h0 EXCEPT !.rl = ChangeServerState(@)] ELSE h0
           b == Buffer(h, 6, m, fault)
           done == GiveToChip(b, fault)
           g == Flight6Handler(h0, last, m, fault)
<1>1. \/ ~InFlight(6, m.type) /\ g = Status(h, "notinflight")
      \/ \E s : s # "notinflight" /\ g = Status(h, s)
      \/ g = b
      \/ \E s : s # "notinflight" /\ g = Status(b, s)
      \/ g = done
  BY DEF Flight6Handler
<1>2. m.type = "ccs" => InFlight(6, m.type)
  <2>1. Messages(6) = <<"ccs", "Finished">>
    BY DEF Messages
  <2> QED
    BY <2>1 DEF InFlight
<1>3. /\ IsHandler(h) /\ h.fl.id = h0.fl.id /\ h.rf = h0.rf
      /\ h.rl = IF m.type = "ccs" THEN ChangeServerState(h0.rl) ELSE h0.rl
  BY DEF IsHandler
<1> HIDE DEF g, h
<1>4. Keeps(h, b) /\ b.status # "notinflight"
  BY <1>3, BufferFacts
<1> HIDE DEF b
<1>5. Keeps(b, done) /\ done.status # "notinflight"
  BY <1>4, GiveToChipFacts DEF Keeps
<1> HIDE DEF done
<1>6. Keeps(h, h) /\ Keeps(h, b) /\ Keeps(h, done)
  BY <1>3, <1>4, <1>5, KeepsFacts
<1>7. \A s : /\ Keeps(h, Status(h, s)) /\ Status(h, s).status = s
             /\ Keeps(h, Status(b, s)) /\ Status(b, s).status = s
  BY <1>6, KeepsFacts
<1>8. Keeps(h, g) /\ (m.type = "ccs" => g.status # "notinflight")
  BY <1>1, <1>2, <1>4, <1>5, <1>6, <1>7
<1> QED
  BY <1>3, <1>8 DEF Keeps, g

(* A flight's handler keeps the flight, and the record layer but for the     *)
(* change of the cipher spec.                                                *)
LEMMA FlightHandlerFacts ==
    ASSUME NEW h, IsHandler(h), h.fl.id \in {2, 4, 6}, NEW last, NEW m, NEW fault
    PROVE  LET g == FlightHandler(h, last, m, fault)
           IN /\ ~(m.type = "ccs" /\ h.fl.id = 6) => Keeps(h, g)
              /\ m.type = "ccs" /\ h.fl.id = 6 =>
                    /\ IsHandler(g) /\ g.fl.id = h.fl.id /\ g.rf = h.rf
                    /\ g.rl = ChangeServerState(h.rl)
                    /\ g.status # "notinflight"
<1>1. CASE h.fl.id = 2
  <2>1. FlightHandler(h, last, m, fault) = Flight2Handler(h, last, m, fault)
    BY <1>1 DEF FlightHandler
  <2> QED
    BY <1>1, <2>1, Flight2Facts
<1>2. CASE h.fl.id = 4
  <2>1. FlightHandler(h, last, m, fault) = Flight4Handler(h, last, m, fault)
    BY <1>2 DEF FlightHandler
  <2> QED
    BY <1>2, <2>1, Flight4Facts
<1>3. CASE h.fl.id = 6
  <2>1. FlightHandler(h, last, m, fault) = Flight6Handler(h, last, m, fault)
    BY <1>3 DEF FlightHandler
  <2> QED
    BY <1>3, <2>1, Flight6Facts
<1> QED
  BY <1>1, <1>2, <1>3

(* The handler's data while some flight is listed. *)
Listing(h, last) == IsHandler(h) /\ IsList(h.rf, last) /\ h.rf # << >>

(* What offering a message of some type to the i-th flight makes of h. *)
AfterOffer(h, g, last, i, type) ==
    /\ Listing(g, last)
    /\ g.status # "notinflight" => Len(g.rf) = 1
    /\ g.status = "notinflight" => Len(g.rf) = Len(h.rf)
    /\ g.rl = IF type = "ccs" /\ h.rf[i].id = 6 THEN ChangeServerState(h.rl) ELSE h.rl
    /\ type = "ccs" /\ h.rf[i].id = 6 => g.status # "notinflight"

(* A handler changes the flight it is offered, and the list shrinks to that  *)
(* flight unless the message is not one of its flight.                       *)
LEMMA OfferedFacts ==
    ASSUME NEW h, NEW last, Listing(h, last), NEW i \in DOMAIN h.rf, NEW m, NEW fault
    PROVE  AfterOffer(h, Offered(Offer(h, i, m, fault), i), last, i, m.type)
<1> DEFINE h2 == [h EXCEPT !.fl = h.rf[i]]
           o == Offer(h, i, m, fault)
           g == Offered(o, i)
           rf2 == [h.rf EXCEPT ![i] = o.fl]
           type == m.type
<1>1. /\ IsHandler(h2) /\ h2.fl = h.rf[i] /\ h2.rf = h.rf /\ h2.rl = h.rl
      /\ h.rf[i].id \in {2, 4, 6}
  BY DEF Listing, IsHandler, IsList, FlightsOf
<1>2. o = FlightHandler(h2, hs.last, m, fault)
  BY DEF Offer
<1> HIDE DEF h2, o
<1>3. /\ IsHandler(o) /\ o.fl.id = h.rf[i].id /\ o.rf = h.rf
      /\ o.rl = IF m.type = "ccs" /\ h.rf[i].id = 6 THEN ChangeServerState(h.rl) ELSE h.rl
      /\ m.type = "ccs" /\ h.rf[i].id = 6 => o.status # "notinflight"
  <2>1. CASE m.type = "ccs" /\ h.rf[i].id = 6
    <3>1. /\ IsHandler(o) /\ o.fl.id = h2.fl.id /\ o.rf = h2.rf
          /\ o.rl = ChangeServerState(h2.rl) /\ o.status # "notinflight"
      BY <1>1, <1>2, <2>1, FlightHandlerFacts
    <3> QED
      BY <1>1, <2>1, <3>1
  <2>2. CASE ~(m.type = "ccs" /\ h.rf[i].id = 6)
    <3>1. Keeps(h2, o)
      BY <1>1, <1>2, <2>2, FlightHandlerFacts
    <3> QED
      BY <1>1, <2>2, <3>1 DEF Keeps
  <2> QED
    BY <2>1, <2>2
<1>4. /\ IsHandler(g) /\ g.status = o.status /\ g.rl = o.rl
      /\ g.rf = IF o.status = "notinflight" THEN rf2 ELSE <<o.fl>>
  BY <1>3 DEF Offered, IsHandler
<1>5. Len(h.rf) \in Nat /\ DOMAIN h.rf = 1 .. Len(h.rf)
  BY IsSeqFacts DEF Listing, IsList
<1>6. /\ IsList(<<o.fl>>, last) /\ <<o.fl>> # << >> /\ Len(<<o.fl>>) = 1
  <2>1. <<o.fl>> \in Seq({o.fl}) /\ DOMAIN <<o.fl>> = {1} /\ <<o.fl>>[1] = o.fl /\ Len(<<o.fl>>) = 1
    OBVIOUS
  <2>2. IsSeq(<<o.fl>>)
    BY <2>1, IsSeqOf
  <2> QED
    BY <1>3, <2>1, <2>2 DEF IsList, IsHandler, Listing
<1>7. IsList(rf2, last) /\ rf2 # << >> /\ Len(rf2) = Len(h.rf)
  <2> DEFINE U == {h.rf[k] : k \in DOMAIN h.rf} \cup {o.fl}
  <2>1. h.rf \in Seq(U)
    <3>1. h.rf = [k \in 1 .. Len(h.rf) |-> h.rf[k]]
      BY DEF Listing, IsList, IsSeq
    <3>2. \A k \in 1 .. Len(h.rf) : h.rf[k] \in U
      BY <1>5
    <3> HIDE DEF U
    <3>3. [k \in 1 .. Len(h.rf) |-> h.rf[k]] \in Seq(U)
      BY <1>5, <3>2, IsASeq
    <3> QED
      BY <3>1, <3>3
  <2>2. o.fl \in U
    OBVIOUS
  <2> HIDE DEF U
  <2>3. /\ rf2 \in Seq(U) /\ Len(rf2) = Len(h.rf) /\ DOMAIN rf2 = DOMAIN h.rf
        /\ \A k \in DOMAIN h.rf : rf2[k] = IF k = i THEN o.fl ELSE h.rf[k]
    BY <1>5, <2>1, <2>2
  <2> HIDE DEF rf2
  <2>4. IsSeq(rf2)
    BY <2>3, IsSeqOf
  <2>5. \A k \in DOMAIN h.rf : "id" \in DOMAIN rf2[k] /\ rf2[k].id = h.rf[k].id
    BY <1>3, <2>3 DEF IsHandler, Listing, IsList
  <2>6. IsList(rf2, last)
    BY <2>3, <2>4, <2>5 DEF IsList, Listing
  <2>7. rf2 # << >>
    BY <1>5, <2>3
  <2> QED
    BY <2>3, <2>6, <2>7
<1> HIDE DEF g, rf2
<1>8. AfterOffer(h, g, last, i, m.type)
  BY <1>3, <1>4, <1>6, <1>7 DEF AfterOffer, Listing
<1> QED
  BY <1>8 DEF g, o

(* A message goes to one flight; the record layer moves at most once. *)
LEMMA DispatchFacts ==
    ASSUME NEW h, NEW last, Listing(h, last), NEW m, NEW fault
    PROVE  LET g == Dispatch(h, m, fault)
           IN /\ Listing(g, last)
              /\ g.status # "notinflight" => Len(g.rf) = 1
              /\ m.type # "ccs" => g.rl = h.rl
              /\ g.rl \in {h.rl, ChangeServerState(h.rl)}
<1> DEFINE a == Offered(Offer(h, 1, m, fault), 1)
           b == Offered(Offer(a, 2, m, fault), 2)
           g == Dispatch(h, m, fault)
<1>1. g = IF Len(a.rf) = 1 THEN a ELSE b
  BY DEF Dispatch, OfferSecond
<1>2. 1 \in DOMAIN h.rf
  BY IsSeqFacts DEF Listing, IsList, IsSeq
<1>3. AfterOffer(h, a, last, 1, m.type)
  BY <1>2, OfferedFacts
<1> HIDE DEF a, g
<1>4. CASE Len(a.rf) = 1
  BY <1>1, <1>3, <1>4 DEF AfterOffer, g
<1>5. CASE Len(a.rf) # 1
  <2>1. a.status = "notinflight" /\ a.rl = h.rl /\ Listing(a, last)
    BY <1>3, <1>5 DEF AfterOffer
  <2>2. 2 \in DOMAIN a.rf /\ Len(a.rf) = 2
    <3>1. IsSeq(a.rf) /\ Len(a.rf) <= 2 /\ a.rf # << >>
      BY <2>1 DEF Listing, IsList
    <3>2. Len(a.rf) \in Nat /\ DOMAIN a.rf = 1 .. Len(a.rf)
      BY <3>1, IsSeqFacts
    <3>3. Len(a.rf) # 0
      BY <3>1 DEF IsSeq
    <3> DEFINE n == Len(a.rf)
    <3>4. n \in Nat /\ n <= 2 /\ n # 0 /\ n # 1 /\ DOMAIN a.rf = 1 .. n
      BY <1>5, <3>1, <3>2, <3>3
    <3> HIDE DEF n
    <3>5. n = 2 /\ 2 \in 1 .. n
      BY <3>4
    <3> QED
      BY <3>4, <3>5 DEF n
  <2>3. AfterOffer(a, b, last, 2, m.type)
    BY <2>1, <2>2, OfferedFacts
  <2> HIDE DEF b
  <2> QED
    BY <1>1, <1>5, <2>1, <2>3 DEF AfterOffer, g
<1> QED
  BY <1>4, <1>5

(* All the messages of a record. *)
LEMMA DispatchAllFacts ==
    ASSUME NEW h, NEW last, Listing(h, last), h.status = "ignore",
           NEW messages, Len(messages) \in Nat, NEW fault, NEW at
    PROVE  LET g == DispatchAll(h, messages, fault, at)
           IN /\ Listing(g, last)
              /\ g.status = "ok" => Len(g.rf) = 1
              /\ (\A i \in 1 .. Len(messages) : messages[i].type # "ccs") => g.rl = h.rl
              /\ Len(messages) = 1 => g.rl \in {h.rl, ChangeServerState(h.rl)}
<1> DEFINE n == Len(messages)
           plain == \A i \in 1 .. n : messages[i].type # "ccs"
           g == DispatchAll(h, messages, fault, at)
<1>1. PICK f : /\ f[0] = h
               /\ \A i \in 1 .. n :
                     f[i] = DispatchNext(f[i - 1], messages[i], IF i = at THEN fault ELSE "none")
               /\ DispatchAll(h, messages, fault, at) = f[n]
  BY DispatchAllSteps
<1> DEFINE Fine(v, w) == /\ Listing(w, last)
                         /\ w.status = "ok" => Len(w.rf) = 1
                         /\ plain => w.rl = v.rl
                         /\ w.rl \in {v.rl, ChangeServerState(v.rl)}
           Good(i) == /\ Listing(f[i], last)
                      /\ f[i].status = "ok" => Len(f[i].rf) = 1
                      /\ plain => f[i].rl = h.rl
           S == {i \in 0 .. n : Good(i)}
<1>2. ASSUME NEW i \in 1 .. n, Good(i - 1)
      PROVE  Fine(f[i - 1], f[i])
  <2> DEFINE now == IF i = at THEN fault ELSE "none"
             v == f[i - 1]
             w == f[i]
             m == messages[i]
  <2>1. w = IF v.status \in Leaves THEN v ELSE Dispatch(v, m, now)
    BY <1>1 DEF DispatchNext
  <2>2. Listing(v, last) /\ (v.status = "ok" => Len(v.rf) = 1)
    BY <1>2
  <2>3. plain => m.type # "ccs"
    OBVIOUS
  <2> HIDE DEF now, v, w, m, plain, Good
  <2>4. CASE v.status \in Leaves
    BY <2>1, <2>2, <2>4 DEF v, w
  <2>5. CASE v.status \notin Leaves
    <3>1. w = Dispatch(v, m, now)
      BY <2>1, <2>5
    <3>2. /\ Listing(w, last)
          /\ w.status # "notinflight" => Len(w.rf) = 1
          /\ m.type # "ccs" => w.rl = v.rl
          /\ w.rl \in {v.rl, ChangeServerState(v.rl)}
      BY <2>2, <3>1, DispatchFacts
    <3> QED
      BY <2>3, <3>2 DEF v, w
  <2> QED
    BY <2>4, <2>5
<1>3. Good(0)
  BY <1>1
<1>4. ASSUME NEW i \in 1 .. n, i - 1 \in S PROVE i \in S
  <2>1. Good(i - 1)
    BY <1>4
  <2>2. Fine(f[i - 1], f[i])
    BY <1>2, <2>1
  <2> HIDE DEF plain
  <2>3. Good(i)
    BY <2>1, <2>2
  <2> HIDE DEF Good
  <2> QED
    BY <2>3
<1>5. n \in S
  <2>1. 0 \in S
    BY <1>3
  <2> HIDE DEF S
  <2>2. \A i \in 0 .. n : i \in S
    BY <1>4, <2>1, UpTo
  <2> QED
    BY <2>2
<1>6. Good(n)
  BY <1>5
<1>7. n = 1 => f[n].rl \in {h.rl, ChangeServerState(h.rl)}
  <2>1. SUFFICES ASSUME n = 1 PROVE f[1].rl \in {h.rl, ChangeServerState(h.rl)}
    OBVIOUS
  <2>2. 1 \in 1 .. n /\ 1 - 1 = 0
    BY <2>1
  <2> HIDE DEF Good
  <2>3. Fine(f[0], f[1])
    BY <1>2, <1>3, <2>2
  <2> QED
    BY <1>1, <2>3
<1> HIDE DEF g
<1>8. g = f[n]
  BY <1>1 DEF g
<1> QED
  BY <1>6, <1>7, <1>8 DEF g

(* The list of flights awaited holds each flight once. *)
LEMMA AddFacts ==
    ASSUME NEW rf, NEW last, IsList(rf, last), NEW f \in FlightsOf(last)
    PROVE  IsList(Add(rf, f), last) /\ Add(rf, f) # << >>
<1>1. IsSeq(rf) /\ Len(rf) \in Nat /\ DOMAIN rf = 1 .. Len(rf)
  BY IsSeqFacts DEF IsList
<1>2. CASE Listed(rf, f)
  <2>1. Add(rf, f) = rf
    BY <1>2 DEF Add
  <2>2. rf # << >>
    <3>1. PICK i \in DOMAIN rf : rf[i].id = f
      BY <1>2 DEF Listed
    <3> QED
      BY <1>1, <3>1
  <2> QED
    BY <2>1, <2>2
<1>3. CASE ~Listed(rf, f)
  <2> DEFINE new == NewFlight(f)
             g == Append(rf, new)
             n == Len(rf)
             U == {rf[k] : k \in DOMAIN rf} \cup {new}
  <2>1. Add(rf, f) = g
    BY <1>3 DEF Add
  <2>2. "id" \in DOMAIN new /\ new.id = f
    BY DEF NewFlight
  <2>3. rf \in Seq(U)
    <3>1. rf = [k \in 1 .. Len(rf) |-> rf[k]]
      BY <1>1 DEF IsSeq
    <3>2. \A k \in 1 .. Len(rf) : rf[k] \in U
      BY <1>1
    <3> HIDE DEF U
    <3>3. [k \in 1 .. Len(rf) |-> rf[k]] \in Seq(U)
      BY <1>1, <3>2, IsASeq
    <3> QED
      BY <3>1, <3>3
  <2>4. new \in U
    OBVIOUS
  <2> HIDE DEF U, new
  <2>5. /\ g \in Seq(U) /\ Len(g) = n + 1 /\ DOMAIN g = 1 .. n + 1
        /\ g[n + 1] = new /\ \A k \in 1 .. n : g[k] = rf[k]
    BY <2>3, <2>4
  <2>6. n <= 1
    <3>1. SUFFICES ASSUME n > 1 PROVE FALSE
      BY <1>1
    <3>2. 1 \in DOMAIN rf /\ 2 \in DOMAIN rf
      BY <1>1, <3>1
    <3>3. rf[1].id \in FlightsOf(last) \ {f} /\ rf[2].id \in FlightsOf(last) \ {f}
      BY <1>3, <3>2 DEF IsList, Listed
    <3>4. rf[1].id = rf[2].id
      BY <3>3 DEF FlightsOf
    <3> QED
      BY <3>2, <3>4 DEF IsList
  <2> HIDE DEF g
  <2>7. IsSeq(g)
    BY <2>5, IsSeqOf
  <2>8. n \in Nat
    BY <1>1
  <2>9. \A i \in 1 .. n + 1 : i = n + 1 \/ i \in 1 .. n
    BY <2>8
  <2>10. \A i \in 1 .. n : "id" \in DOMAIN rf[i] /\ rf[i].id \in FlightsOf(last) /\ rf[i].id # f
    BY <1>1, <1>3 DEF IsList, Listed
  <2>11. \A i, j \in 1 .. n : rf[i].id = rf[j].id => i = j
    BY <1>1 DEF IsList
  <2> HIDE DEF n
  <2>12. \A i \in DOMAIN g : "id" \in DOMAIN g[i] /\ g[i].id \in FlightsOf(last)
    BY <2>2, <2>5, <2>9, <2>10
  <2>13. \A i, j \in DOMAIN g : g[i].id = g[j].id => i = j
    <3>1. TAKE i, j \in DOMAIN g
    <3>2. CASE i \in 1 .. n /\ j \in 1 .. n
      BY <2>5, <2>11, <3>2
    <3>3. CASE i = n + 1 /\ j \in 1 .. n
      BY <2>2, <2>5, <2>10, <3>3
    <3>4. CASE i \in 1 .. n /\ j = n + 1
      BY <2>2, <2>5, <2>10, <3>4
    <3>5. CASE i = n + 1 /\ j = n + 1
      BY <3>5
    <3> QED
      BY <2>5, <2>9, <3>1, <3>2, <3>3, <3>4, <3>5
  <2>14. Len(g) <= 2
    BY <2>5, <2>6, <2>8
  <2>15. g # << >>
    BY <2>5, <2>8
  <2> QED
    BY <2>1, <2>7, <2>12, <2>13, <2>14, <2>15 DEF IsList
<1> QED
  BY <1>2, <1>3

(* After a flight is sent there is one to wait for. *)
LEMMA AwaitedFacts ==
    ASSUME NEW rf, NEW last \in {1, 3, 5}, IsList(rf, last)
    PROVE  IsList(Awaited(rf, last), last) /\ Awaited(rf, last) # << >>
<1> DEFINE first == Answers(last)[1]
           second == Answers(last)[2]
<1>1. first \in FlightsOf(last) /\ second \in FlightsOf(last)
  BY DEF Answers, FlightsOf
<1> HIDE DEF first, second
<1>2. \A l : IsList(l, last) => /\ IsList(Add(l, first), last) /\ Add(l, first) # << >>
                                /\ IsList(Add(l, second), last) /\ Add(l, second) # << >>
  BY <1>1, AddFacts
<1>3. CASE ~Listed(rf, first)
  <2>1. Awaited(rf, last) = Add(Add(rf, first), second)
    BY <1>3 DEF Awaited, first, second
  <2> QED
    BY <1>2, <2>1
<1>4. CASE Listed(rf, first) /\ rf[1].state = "processed"
  <2>1. Awaited(rf, last) = Add(rf, second)
    BY <1>4 DEF Awaited, first, second
  <2> QED
    BY <1>2, <2>1
<1>5. CASE Listed(rf, first) /\ rf[1].state # "processed"
  <2>1. Awaited(rf, last) = rf
    BY <1>5 DEF Awaited, first
  <2>2. Add(rf, first) = rf
    BY <1>5 DEF Add
  <2> QED
    BY <1>2, <2>1, <2>2
<1> QED
  BY <1>3, <1>4, <1>5

-----------------------------------------------------------------------------
(* The steps of the handshake *)

(* A failing call is counted. *)
LEMMA FaultyFacts ==
    ASSUME faults \in 0 .. MaxFaults, NEW kinds, NEW fault \in MayFail(kinds), Faulty(fault)
    PROVE  faults' \in 0 .. MaxFaults
<1>0. MaxFaults \in Nat
  BY HandshakeAssumption
<1>1. CASE fault = "none"
  BY <1>1 DEF Faulty
<1>2. CASE fault # "none"
  <2>1. faults > 0
    BY <1>2 DEF MayFail
  <2> QED
    BY <1>0, <1>2, <2>1 DEF Faulty
<1> QED
  BY <1>1, <1>2

(* What a step that only sends leaves of the receiver's side. *)
LEMMA ReceiverKept ==
    ASSUME NEW q, NEW q2, SameReceiver(q, q2), NEW ids
    PROVE  /\ Windows(q, ids) => Windows(q2, ids)
           /\ Datagram(q.left) => Datagram(q2.left)
           /\ (q.ccs => q.server = 0) => (q2.ccs => q2.server = 0)
BY DEF SameReceiver, Windows

(* An empty list. *)
LEMMA EmptyList ==
    ASSUME NEW last
    PROVE  IsList(<< >>, last)
<1>1. DOMAIN << >> = {} /\ Len(<< >>) = 0 /\ << >> \in Seq({})
  OBVIOUS
<1>2. IsSeq(<< >>)
  BY <1>1, IsSeqOf
<1> QED
  BY <1>1, <1>2 DEF IsList

(* Leaving the handshake. *)
LEMMA EndedFacts ==
    ASSUME NEW h, Handshake(h), NEW status, NEW fatal \in BOOLEAN
    PROVE  /\ Handshake(Ended(h, status, fatal))
           /\ Ended(h, status, fatal).status = status /\ Ended(h, status, fatal).fatal = fatal
           /\ Ended(h, status, fatal).auth = h.auth /\ Ended(h, status, fatal).last = h.last
<1> DEFINE g == Ended(h, status, fatal)
<1>1. /\ DOMAIN g = DOMAIN h
      /\ g.last = h.last /\ g.timeout = h.timeout /\ g.auth = h.auth
      /\ g.sf = NoFlight /\ g.rf = << >> /\ g.fatal = fatal /\ g.status = status
  BY DEF Ended, Handshake
<1>2. DOMAIN NoFlight = {"id", "state"} /\ NoFlight.id = 0
  BY DEF NoFlight
<1> HIDE DEF g
<1>3. Handshake(g)
  BY <1>1, <1>2, EmptyList DEF Handshake
<1> QED
  BY <1>1, <1>3 DEF g

(* The flight that is sent next. *)
LEMMA NextFlightFacts ==
    ASSUME NEW h, Handshake(h), NEW enc, GoesOn(h, enc)
    PROVE  LET sf == NextFlight(h.sf, h.last)
           IN /\ DOMAIN sf = {"id", "state"} /\ sf.id \in {1, 3, 5}
              /\ IsList(h.rf, sf.id)
              /\ sf.id = 5 /\ sf.state # "ready" => enc
              /\ h.auth # "started" => sf.id = 1
<1> DEFINE sf == NextFlight(h.sf, h.last)
<1>1. h.last \in 0 .. 5
  BY DEF Handshake, GoesOn
<1>2. CASE h.last \in {1, 3, 5}
  <2>1. h.last % 2 = 1
    BY <1>2
  <2>2. sf = [h.sf EXCEPT !.state = IF @ = "transmitted" THEN "retransmit" ELSE @]
    BY <2>1 DEF NextFlight
  <2>3. DOMAIN sf = {"id", "state"} /\ sf.id = h.last
    BY <1>2, <2>2 DEF Handshake, GoesOn
  <2> QED
    BY <1>2, <2>3 DEF Handshake, GoesOn
<1>3. CASE h.last \in {0, 2, 4}
  <2>1. h.last % 2 # 1
    BY <1>3
  <2>2. sf = IF h.sf.id = h.last + 1 THEN h.sf ELSE [id |-> h.last + 1, state |-> "ready"]
    BY <2>1 DEF NextFlight
  <2>3. DOMAIN sf = {"id", "state"} /\ sf.id = h.last + 1
    BY <2>2 DEF Handshake
  <2>4. FlightsOf(h.last + 1) = FlightsOf(h.last)
    BY <1>3 DEF FlightsOf
  <2>5. IsList(h.rf, sf.id)
    BY <2>3, <2>4 DEF Handshake, IsList
  <2>6. sf.id = 5 /\ sf.state # "ready" => enc
    BY <2>2 DEF GoesOn
  <2> QED
    BY <1>3, <2>3, <2>5, <2>6 DEF GoesOn
<1> QED
  BY <1>1, <1>2, <1>3

(* What sending leaves for the next state: the record layer q and the wire   *)
(* w, from which a handshake with or without a fatal error goes on.          *)
LEMMA SentRecords ==
    ASSUME HandshakeInv, NEW q, NEW w, RecordLayer(q), Numbered(q, w), SameReceiver(rl, q),
           rl' = q, wire' = w, hs'.fatal \/ (Epochs(q) /\ ~q.retransmit),
           UNCHANGED <<seen, net>>, faults' \in 0 .. MaxFaults,
           DOMAIN srv' = DOMAIN srv, srv'.seq = srv.seq, srv'.seq1 = srv.seq1, srv'.extra = srv.extra
    PROVE  RecordsInv' /\ WindowsInv' /\ ServerInv'
<1>1. RecordsInv'
  BY ReceiverKept DEF HandshakeInv, RecordsInv
<1>2. WindowsInv'
  BY ReceiverKept DEF HandshakeInv, WindowsInv
<1>3. ServerInv'
  BY ReceiverKept DEF HandshakeInv, ServerInv
<1> QED
  BY <1>1, <1>2, <1>3

(* Sending a flight, with or without success. *)
LEMMA SendStep ==
    ASSUME HandshakeInv, NEW fault \in MayFail(SendFaults), NEW at, Send(fault, at)
    PROVE  HandshakeInv'
<1> DEFINE sf == NextFlight(hs.sf, hs.last)
           noNode == fault = "node" /\ sf.id # hs.sf.id
           r0 == [rl |-> rl, wire |-> wire, ok |-> TRUE]
           r == SendFlight(r0, sf, hs.opt, fault, at)
           failed == noNode \/ ~r.ok
           result == IF noNode THEN [rl |-> rl, wire |-> wire] ELSE r
           rf == Awaited(hs.rf, sf.id)
           noList == fault = "list" /\ rf # hs.rf
           began == [hs EXCEPT !.auth = "started"]
           newsf == [sf EXCEPT !.state = "transmitted"]
           flight == IF Formed(sf) THEN sf.id ELSE hs.flight
           sent == [began EXCEPT !.last = sf.id, !.sf = newsf, !.rf = rf, !.flight = flight]
<1>1. /\ mode = "send"
      /\ failed /\ hs.auth = "started" => Fail(result, "send")
      /\ failed /\ hs.auth # "started" =>
            /\ mode' = "exit" /\ hs' = Ended(hs, "send", hs.fatal)
            /\ rl' = result.rl /\ wire' = result.wire
      /\ ~failed /\ noList =>
            /\ mode' = "exit" /\ hs' = Ended(began, "list", TRUE)
            /\ rl' = SendAlert(r.rl, r.wire, "list").rl
            /\ wire' = SendAlert(r.rl, r.wire, "list").wire
      /\ ~failed /\ ~noList => mode' = "recv" /\ hs' = sent /\ rl' = r.rl /\ wire' = r.wire
      /\ srv' = IF r.ok /\ ~noNode THEN [srv EXCEPT !.has = @ \cup {sf.id}] ELSE srv
      /\ Faulty(fault)
      /\ UNCHANGED <<net, seen>>
  BY DEF Send, Handshake
<1>2. /\ Handshake(hs) /\ GoesOn(hs, rl.enc)
      /\ RecordLayer(rl) /\ Numbered(rl, wire) /\ Epochs(rl) /\ ~rl.retransmit
  BY <1>1 DEF HandshakeInv, RecordsInv, FlightsInv, GoesOn
<1>3. /\ DOMAIN sf = {"id", "state"} /\ sf.id \in {1, 3, 5}
      /\ IsList(hs.rf, sf.id)
      /\ sf.id = 5 /\ sf.state # "ready" => rl.enc
      /\ hs.auth # "started" => sf.id = 1
  BY <1>2, NextFlightFacts
<1>4. /\ Sending(r0) /\ r0.rl = rl /\ r0.wire = wire
  BY <1>2 DEF Sending
<1> HIDE DEF sf, r0
<1>5. /\ Sending(r) /\ SameReceiver(rl, r.rl)
      /\ r.rl.retransmit => sf.id = 5 /\ sf.state # "ready"
      /\ r.ok => ~r.rl.retransmit
      /\ r.ok /\ sf.id = 5 => r.rl.enc
  BY <1>2, <1>3, <1>4, SendFlightFacts
<1> HIDE DEF r
<1>6. IsList(rf, sf.id) /\ rf # << >>
  BY <1>3, AwaitedFacts
<1> HIDE DEF rf
<1>7. /\ RecordLayer(result.rl) /\ Numbered(result.rl, result.wire) /\ Epochs(result.rl)
      /\ SameReceiver(rl, result.rl)
      /\ result.rl.retransmit => sf.id = 5
  <2>1. CASE noNode
    <3>1. result.rl = rl /\ result.wire = wire
      BY <2>1
    <3> QED
      BY <1>2, <3>1 DEF SameReceiver
  <2>2. CASE ~noNode
    <3>1. result = r
      BY <2>2
    <3> QED
      BY <1>5, <3>1 DEF Sending
  <2> QED
    BY <2>1, <2>2
<1> HIDE DEF result
<1>8. faults' \in 0 .. MaxFaults
  BY <1>1, FaultyFacts DEF HandshakeInv, ServerInv
<1>9. /\ DOMAIN srv' = DOMAIN srv /\ srv'.seq = srv.seq /\ srv'.seq1 = srv.seq1
      /\ srv'.extra = srv.extra
      /\ failed => srv'.has = srv.has
  BY <1>1 DEF HandshakeInv, ServerInv
<1>10. UNCHANGED <<seen, net>>
  BY <1>1
<1> HIDE DEF noNode, noList
<1>11. CASE failed /\ hs.auth = "started"
  <2> DEFINE a == SendAlert(result.rl, result.wire, "send")
  <2>1. mode' = "exit" /\ hs' = Ended(hs, "send", TRUE) /\ rl' = a.rl /\ wire' = a.wire
    BY <1>1, <1>11 DEF Fail
  <2>2. RecordLayer(a.rl) /\ Numbered(a.rl, a.wire) /\ SameReceiver(result.rl, a.rl)
    BY <1>7, SendAlertFacts
  <2> HIDE DEF a
  <2>3. SameReceiver(rl, a.rl)
    BY <1>7, <2>2 DEF SameReceiver
  <2>4. Handshake(hs') /\ hs'.status = "send" /\ hs'.fatal = TRUE /\ hs'.auth = "started"
    <3> DEFINE fatal == TRUE
    <3>1. fatal \in BOOLEAN /\ hs' = Ended(hs, "send", fatal)
      BY <2>1
    <3> HIDE DEF fatal
    <3>2. Handshake(hs') /\ hs'.status = "send" /\ hs'.fatal = fatal /\ hs'.auth = hs.auth
      BY <1>2, <3>1, EndedFacts
    <3> QED
      BY <1>11, <3>2 DEF fatal
  <2>5. RecordsInv' /\ WindowsInv' /\ ServerInv'
    BY <1>8, <1>9, <1>10, <2>1, <2>2, <2>3, <2>4, SentRecords
  <2>6. FlightsInv'
    BY <2>1, <2>4 DEF FlightsInv
  <2> QED
    BY <2>5, <2>6 DEF HandshakeInv
<1>12. CASE failed /\ hs.auth # "started"
  <2>1. mode' = "exit" /\ hs' = Ended(hs, "send", FALSE) /\ rl' = result.rl /\ wire' = result.wire
    BY <1>1, <1>2, <1>12 DEF GoesOn
  <2>2. sf.id = 1
    BY <1>3, <1>12
  <2>3. Handshake(hs') /\ hs'.status = "send" /\ hs'.fatal = FALSE /\ hs'.auth = hs.auth
    <3> DEFINE fatal == FALSE
    <3>1. fatal \in BOOLEAN /\ hs' = Ended(hs, "send", fatal)
      BY <2>1
    <3> HIDE DEF fatal
    <3>2. Handshake(hs') /\ hs'.status = "send" /\ hs'.fatal = fatal /\ hs'.auth = hs.auth
      BY <1>2, <3>1, EndedFacts
    <3> QED
      BY <3>2 DEF fatal
  <2>4. ~result.rl.retransmit
    BY <1>7, <2>2
  <2>5. RecordsInv' /\ WindowsInv' /\ ServerInv'
    <3> DEFINE q == result.rl
    <3>1. RecordLayer(q) /\ Numbered(q, result.wire) /\ SameReceiver(rl, q) /\ rl' = q
          /\ Epochs(q) /\ ~q.retransmit
      BY <1>7, <2>1, <2>4
    <3> HIDE DEF q
    <3> QED
      BY <1>8, <1>9, <1>10, <2>1, <3>1, SentRecords
  <2>6. FlightsInv'
    BY <1>9, <1>12, <2>1, <2>3 DEF FlightsInv, HandshakeInv
  <2> QED
    BY <2>5, <2>6 DEF HandshakeInv
<1>13. Handshake(began) /\ began.auth = "started"
  BY <1>2 DEF Handshake
<1>14. CASE ~failed /\ noList
  <2> DEFINE a == SendAlert(r.rl, r.wire, "list")
  <2>1. mode' = "exit" /\ hs' = Ended(began, "list", TRUE) /\ rl' = a.rl /\ wire' = a.wire
    BY <1>1, <1>14
  <2>2. RecordLayer(a.rl) /\ Numbered(a.rl, a.wire) /\ SameReceiver(r.rl, a.rl)
    BY <1>5, SendAlertFacts DEF Sending
  <2> HIDE DEF a
  <2>3. SameReceiver(rl, a.rl)
    BY <1>5, <2>2 DEF SameReceiver
  <2> HIDE DEF began
  <2>4. Handshake(hs') /\ hs'.status = "list" /\ hs'.fatal = TRUE /\ hs'.auth = "started"
    <3> DEFINE fatal == TRUE
    <3>1. fatal \in BOOLEAN /\ hs' = Ended(began, "list", fatal)
      BY <2>1
    <3> HIDE DEF fatal
    <3>2. Handshake(hs') /\ hs'.status = "list" /\ hs'.fatal = fatal /\ hs'.auth = began.auth
      BY <1>13, <3>1, EndedFacts
    <3> QED
      BY <1>13, <3>2 DEF fatal
  <2>5. RecordsInv' /\ WindowsInv' /\ ServerInv'
    BY <1>8, <1>9, <1>10, <2>1, <2>2, <2>3, <2>4, SentRecords
  <2>6. FlightsInv'
    BY <2>1, <2>4 DEF FlightsInv
  <2> QED
    BY <2>5, <2>6 DEF HandshakeInv
<1>15. CASE ~failed /\ ~noList
  <2>1. mode' = "recv" /\ hs' = sent /\ rl' = r.rl /\ wire' = r.wire
    BY <1>1, <1>15
  <2>2. /\ DOMAIN hs' = DOMAIN hs /\ hs'.last = sf.id /\ hs'.sf = newsf /\ hs'.rf = rf
        /\ hs'.auth = "started" /\ hs'.fatal = hs.fatal /\ hs'.status = hs.status
        /\ hs'.timeout = hs.timeout
    BY <1>2, <2>1 DEF Handshake
  <2>3. DOMAIN newsf = {"id", "state"} /\ newsf.id = sf.id /\ newsf.state = "transmitted"
    BY <1>3
  <2> HIDE DEF newsf
  <2>4. r.ok /\ ~r.rl.retransmit /\ (sf.id = 5 => r.rl.enc)
    BY <1>5, <1>15
  <2>5. Handshake(hs')
    BY <1>2, <1>3, <1>6, <2>2, <2>3 DEF Handshake
  <2>6. GoesOn(hs', rl'.enc)
    BY <1>2, <1>3, <2>1, <2>2, <2>3, <2>4 DEF GoesOn
  <2>7. RecordsInv' /\ WindowsInv' /\ ServerInv'
    BY <1>5, <1>8, <1>9, <1>10, <2>1, <2>4, SentRecords DEF Sending
  <2>8. FlightsInv'
    BY <1>2, <1>3, <1>6, <2>1, <2>2, <2>5, <2>6 DEF FlightsInv, GoesOn
  <2> QED
    BY <2>7, <2>8 DEF HandshakeInv
<1> QED
  BY <1>11, <1>12, <1>14, <1>15

(* What a record leaves of the sender's side, whatever becomes of it. *)
Took(q, q2) ==
    /\ RecordLayer(q2)
    /\ q2.next = q.next /\ q2.seq = q.seq /\ q2.nextseq = q.nextseq
    /\ q2.enc = q.enc /\ q2.retransmit = q.retransmit
    /\ q2.ccs => q2.server = 0

(* The windows stay, and the change of the cipher spec is taken at most once. *)
Moved(q, q2) == Took(q, q2) /\ q2.win = q.win /\ q2.nextwin = q.nextwin

(* What becomes of a record handed over: the list is that of the flights     *)
(* awaited, one flight when one is done.                                     *)
LEMMA HandedOver ==
    ASSUME HandshakeInv, mode = "recv", NEW record, IsRecord(record), NEW fault, NEW at
    PROVE  LET h == Received(record, fault, at)
               r == ReceiveRecord(rl, record, "handshake", fault)
           IN /\ Listing(h, hs.last) /\ (h.status = "ok" => Len(h.rf) = 1)
              /\ Moved(r.rl, h.rl)
<1> DEFINE r == ReceiveRecord(rl, record, "handshake", fault)
           messages == IF r.rl.ccs THEN <<[type |-> "ccs"]>> ELSE record.body
           h0 == [fl |-> hs.rf[1], rf |-> hs.rf, flight |-> hs.flight, rseq |-> hs.rseq,
                  opt |-> hs.opt, chip |-> hs.chip, rl |-> r.rl, status |-> "ignore"]
           h == Received(record, fault, at)
           all == DispatchAll(h0, messages, fault, at)
           same == [h0 EXCEPT !.rl.ccs = FALSE]
           level == record.body[1].type
<1>0. /\ RecordLayer(rl) /\ (rl.ccs => rl.server = 0) /\ Windows(rl, seen.ids)
      /\ record.epoch \in {0, 1} /\ record.seq \in Nat /\ IsSeq(record.body)
      /\ record.type = "alert" => level \in {"fatal", "warning", "unlisted"}
  BY DEF HandshakeInv, RecordsInv, WindowsInv, IsRecord
<1>a. IsList(hs.rf, hs.last) /\ hs.rf # << >>
  BY DEF HandshakeInv, FlightsInv, Handshake
<1>1. SameSender(rl, r.rl) /\ (r.status = "alert" => record.type = "alert")
  <2>1. Recorded(rl, seen.ids, record, r)
    BY <1>0, ReceiveRecordFacts
  <2> QED
    BY <2>1 DEF Recorded
<1>2. h = CASE r.status = "ok" -> IF Expected(r.rl, messages) THEN all ELSE same
            [] r.status = "alert" -> [h0 EXCEPT !.status = level]
            [] r.status = "malloc" -> [h0 EXCEPT !.status = "malloc"]
            [] OTHER -> h0
  BY DEF Received
<1> HIDE DEF r, h, messages, all
<1>3. Listing(h0, hs.last) /\ h0.status = "ignore" /\ h0.rl = r.rl
  <2>1. IsSeq(hs.rf) /\ Len(hs.rf) \in Nat /\ DOMAIN hs.rf = 1 .. Len(hs.rf)
    BY <1>a, IsSeqFacts DEF IsList
  <2>2. Len(hs.rf) # 0
    BY <1>a, <2>1 DEF IsSeq
  <2>3. 1 \in DOMAIN hs.rf
    BY <2>1, <2>2
  <2>4. "id" \in DOMAIN hs.rf[1]
    BY <1>a, <2>3 DEF IsList
  <2> QED
    BY <1>a, <2>4 DEF Listing, IsHandler
<1>4. Moved(r.rl, r.rl)
  BY <1>1 DEF Moved, Took, SameSender
<1> HIDE DEF h0
<1>5. CASE r.status = "ok" /\ Expected(r.rl, messages)
  <2>1. h = all
    BY <1>2, <1>5
  <2>2. Len(messages) \in Nat
    BY <1>0, IsSeqFacts DEF messages
  <2>3. /\ Listing(all, hs.last)
        /\ all.status = "ok" => Len(all.rf) = 1
        /\ (\A i \in 1 .. Len(messages) : messages[i].type # "ccs") => all.rl = h0.rl
        /\ Len(messages) = 1 => all.rl \in {h0.rl, ChangeServerState(h0.rl)}
    BY <1>3, <2>2, DispatchAllFacts DEF all
  <2>4. CASE r.rl.ccs
    <3>1. Len(messages) = 1
      BY <2>4 DEF messages
    <3>2. r.rl.server = 0 /\ RecordLayer(r.rl)
      BY <1>1, <2>4 DEF SameSender
    <3>3. Moved(r.rl, ChangeServerState(r.rl))
      BY <3>2 DEF Moved, Took, ChangeServerState, RecordLayer
    <3>4. Moved(r.rl, all.rl)
      BY <1>3, <1>4, <2>3, <3>1, <3>3
    <3> QED
      BY <2>1, <2>3, <3>4 DEF h, r
  <2>5. CASE ~r.rl.ccs
    <3>1. messages = record.body
      BY <2>5 DEF messages
    <3>2. \A i \in DOMAIN messages : messages[i].type # "ccs"
      BY <1>5, <2>5 DEF Expected
    <3>3. DOMAIN messages = 1 .. Len(messages)
      BY <1>0, <3>1, IsSeqFacts
    <3>4. all.rl = r.rl
      BY <1>3, <2>3, <3>2, <3>3
    <3> QED
      BY <1>4, <2>1, <2>3, <3>4 DEF h, r
  <2> QED
    BY <2>4, <2>5
<1>6. \A s : s # "ok" => /\ Listing([h0 EXCEPT !.status = s], hs.last)
                         /\ [h0 EXCEPT !.status = s].status # "ok"
                         /\ [h0 EXCEPT !.status = s].rl = r.rl
  BY <1>3 DEF Listing, IsHandler
<1>7. CASE r.status = "ok" /\ ~Expected(r.rl, messages)
  <2>1. h = same
    BY <1>2, <1>7
  <2>2. Listing(same, hs.last) /\ same.status = "ignore" /\ same.rl = [r.rl EXCEPT !.ccs = FALSE]
    BY <1>3 DEF Listing, IsHandler
  <2>3. Moved(r.rl, [r.rl EXCEPT !.ccs = FALSE])
    BY <1>4 DEF Moved, Took, RecordLayer
  <2> HIDE DEF same
  <2> QED
    BY <2>1, <2>2, <2>3 DEF h, r
<1>8. CASE r.status = "alert"
  <2>1. h = [h0 EXCEPT !.status = level]
    BY <1>2, <1>8
  <2>2. level # "ok"
    BY <1>0, <1>1, <1>8
  <2> HIDE DEF level
  <2> QED
    BY <1>4, <1>6, <2>1, <2>2 DEF h, r
<1>9. CASE r.status = "malloc"
  <2>1. h = [h0 EXCEPT !.status = "malloc"]
    BY <1>2, <1>9
  <2> QED
    BY <1>4, <1>6, <2>1 DEF h, r
<1>10. CASE r.status \notin {"ok", "alert", "malloc"}
  <2>1. h = h0
    BY <1>2, <1>10
  <2> QED
    BY <1>3, <1>4, <2>1 DEF h, r
<1> QED
  BY <1>5, <1>7, <1>8, <1>9, <1>10

(* The handshake with a record that came, and the windows that account for   *)
(* it.                                                                       *)
LEMMA ReceivedFacts ==
    ASSUME HandshakeInv, mode = "recv", NEW record, IsRecord(record), NEW fault, NEW at
    PROVE  LET h == Received(record, fault, at)
               r == ReceiveRecord(rl, record, "handshake", fault)
               id == <<record.epoch, record.seq>>
           IN /\ Listing(h, hs.last) /\ (h.status = "ok" => Len(h.rf) = 1)
              /\ Took(rl, h.rl) /\ Windows(h.rl, seen.ids)
              /\ r.status \in {"ok", "alert"} =>
                    id \notin seen.ids /\ Windows(h.rl, seen.ids \cup {id})
<1> DEFINE id == <<record.epoch, record.seq>>
           r == ReceiveRecord(rl, record, "handshake", fault)
           h == Received(record, fault, at)
<1>0. /\ RecordLayer(rl) /\ (rl.ccs => rl.server = 0) /\ Windows(rl, seen.ids)
      /\ record.epoch \in {0, 1} /\ record.seq \in Nat
  BY DEF HandshakeInv, RecordsInv, WindowsInv, IsRecord
<1>1. /\ SameSender(rl, r.rl) /\ Windows(r.rl, seen.ids)
      /\ r.status \in {"ok", "alert", "app"} =>
            id \notin seen.ids /\ Windows(r.rl, seen.ids \cup {id})
  <2>1. Recorded(rl, seen.ids, record, r)
    BY <1>0, ReceiveRecordFacts
  <2> QED
    BY <2>1 DEF Recorded
<1>2. Listing(h, hs.last) /\ (h.status = "ok" => Len(h.rf) = 1) /\ Moved(r.rl, h.rl)
  BY HandedOver
<1> HIDE DEF id, r, h
<1>3. Took(rl, h.rl)
  BY <1>1, <1>2 DEF Moved, Took, SameSender
<1>4. \A ids : Windows(r.rl, ids) => Windows(h.rl, ids)
  BY <1>2 DEF Moved, Windows
<1> QED
  BY <1>1, <1>2, <1>3, <1>4 DEF id, r, h

(* A timeout gives up or sends again. *)
LEMMA TimedOutFacts ==
    ASSUME NEW h, Handshake(h), TimedOut(h)
    PROVE  /\ Handshake(hs') /\ hs'.auth = h.auth
           /\ \/ mode' = "exit" /\ hs'.fatal = FALSE /\ hs'.status = "timeout"
              \/ /\ mode' = "send" /\ hs'.last = h.last /\ hs'.sf = h.sf
                 /\ hs'.fatal = h.fatal /\ hs'.status = h.status
<1> DEFINE t == IF h.timeout * 2 = 64 THEN MaxFlightTimeout ELSE h.timeout * 2
           later == [h EXCEPT !.timeout = t]
<1>1. h.timeout \in Nat /\ MaxFlightTimeout \in Nat
  BY DEF Handshake, MaxFlightTimeout
<1>2. t \in Nat
  BY <1>1
<1>3. IF t > MaxFlightTimeout THEN mode' = "exit" /\ hs' = Ended(later, "timeout", FALSE)
      ELSE mode' = "send" /\ hs' = later
  BY DEF TimedOut
<1> HIDE DEF t
<1>4. /\ Handshake(later) /\ later.auth = h.auth /\ later.last = h.last /\ later.sf = h.sf
      /\ later.fatal = h.fatal /\ later.status = h.status
  BY <1>2 DEF Handshake
<1> HIDE DEF later
<1>5. CASE t > MaxFlightTimeout
  <2> DEFINE fatal == FALSE
  <2>1. fatal \in BOOLEAN /\ hs' = Ended(later, "timeout", fatal) /\ mode' = "exit"
    BY <1>3, <1>5
  <2> HIDE DEF fatal
  <2>2. Handshake(hs') /\ hs'.status = "timeout" /\ hs'.fatal = fatal /\ hs'.auth = later.auth
    BY <1>4, <2>1, EndedFacts
  <2> QED
    BY <1>4, <2>1, <2>2 DEF fatal
<1>6. CASE ~(t > MaxFlightTimeout)
  BY <1>3, <1>4, <1>6
<1> QED
  BY <1>5, <1>6

(* The handshake after a record. *)
LEMMA ProcessedFacts ==
    ASSUME HandshakeInv, NEW h, Listing(h, hs.last)
    PROVE  LET p == Processed(h)
           IN /\ Handshake(p) /\ p.rf = h.rf /\ p.rf # << >>
              /\ p.last = hs.last /\ p.sf = hs.sf /\ p.auth = hs.auth
              /\ p.fatal = hs.fatal /\ p.status = hs.status
<1> DEFINE p == Processed(h)
<1>1. /\ DOMAIN p = DOMAIN hs /\ p.rf = h.rf
      /\ p.last = hs.last /\ p.sf = hs.sf /\ p.auth = hs.auth /\ p.timeout = hs.timeout
      /\ p.fatal = hs.fatal /\ p.status = hs.status
  BY DEF Processed, HandshakeInv, FlightsInv, Handshake
<1> HIDE DEF p
<1>2. Handshake(p) /\ p.rf # << >>
  BY <1>1 DEF HandshakeInv, FlightsInv, Handshake, Listing
<1> QED
  BY <1>1, <1>2 DEF p

(* A flight of the server is processed. *)
LEMMA AdvancedFacts ==
    ASSUME HandshakeInv, mode = "recv", NEW h, Listing(h, hs.last), Len(h.rf) = 1, Advanced(h),
           rl'.enc = rl.enc
    PROVE  FlightsInv' /\ hs'.fatal = FALSE
<1> DEFINE p == Processed(h)
           id == h.rf[1].id
           next == [p EXCEPT !.last = id, !.timeout = DefaultTimeout]
           done == [next EXCEPT !.auth = "completed"]
<1>1. /\ Handshake(p) /\ p.rf = h.rf /\ p.rf # << >>
      /\ p.last = hs.last /\ p.sf = hs.sf /\ p.auth = hs.auth
      /\ p.fatal = hs.fatal /\ p.status = hs.status
  BY ProcessedFacts
<1>2. GoesOn(hs, rl.enc) /\ hs.last \in {1, 3, 5}
  BY DEF HandshakeInv, FlightsInv
<1> HIDE DEF p
<1>3. IF next.last = 6 THEN mode' = "exit" /\ hs' = Ended(done, "ok", FALSE)
      ELSE mode' = "send" /\ hs' = next
  BY DEF Advanced, p
<1>4. IsSeq(h.rf) /\ DOMAIN h.rf = {1}
  <2>1. IsSeq(h.rf)
    BY DEF Listing, IsList
  <2>2. DOMAIN h.rf = 1 .. Len(h.rf)
    BY <2>1, IsSeqFacts
  <2> QED
    BY <2>1, <2>2
<1>5. "id" \in DOMAIN h.rf[1] /\ id \in {2, 4, 6}
  BY <1>4 DEF Listing, IsList, FlightsOf
<1>6. IsList(h.rf, id)
  <2>1. id \in FlightsOf(id)
    <3>1. \A f \in {2, 4, 6} : f \in FlightsOf(f)
      BY DEF FlightsOf
    <3> QED
      BY <1>5, <3>1
  <2>2. h.rf[1].id = id
    OBVIOUS
  <2> HIDE DEF id
  <2> QED
    BY <1>4, <2>1, <2>2 DEF Listing, IsList
<1> HIDE DEF id
<1>7. /\ Handshake(next) /\ next.last = id /\ next.sf = hs.sf /\ next.auth = hs.auth
      /\ next.fatal = hs.fatal /\ next.status = hs.status
  <2>1. DefaultTimeout \in Nat
    BY HandshakeAssumption
  <2>2. /\ DOMAIN next = DOMAIN p /\ next.last = id /\ next.timeout = DefaultTimeout
        /\ next.rf = h.rf /\ next.sf = p.sf /\ next.auth = p.auth
        /\ next.fatal = p.fatal /\ next.status = p.status
    BY <1>1 DEF Handshake
  <2> HIDE DEF next
  <2>3. Handshake(next)
    BY <1>1, <1>5, <1>6, <2>1, <2>2 DEF Handshake
  <2> QED
    BY <1>1, <2>2, <2>3
<1> HIDE DEF next
<1>8. CASE id = 6
  <2> DEFINE fatal == FALSE
  <2>1. fatal \in BOOLEAN /\ mode' = "exit" /\ hs' = Ended(done, "ok", fatal)
    BY <1>3, <1>7, <1>8
  <2>2. Handshake(done) /\ done.auth = "completed"
    BY <1>7 DEF Handshake
  <2> HIDE DEF fatal, done
  <2>3. Handshake(hs') /\ hs'.status = "ok" /\ hs'.fatal = fatal /\ hs'.auth = "completed"
    BY <2>1, <2>2, EndedFacts
  <2> QED
    BY <2>1, <2>3 DEF FlightsInv, fatal
<1>9. CASE id # 6
  <2>1. mode' = "send" /\ hs' = next
    BY <1>3, <1>7, <1>9
  <2>2. GoesOn(hs', rl.enc)
    BY <1>2, <1>5, <1>7, <1>9, <2>1 DEF GoesOn
  <2>3. hs'.auth # "initialised"
    BY <1>2, <1>7, <2>1 DEF GoesOn
  <2>4. hs'.status # "ok" /\ hs'.fatal = FALSE
    BY <2>2 DEF GoesOn
  <2>5. GoesOn(hs', rl'.enc)
    BY <2>2
  <2> QED
    BY <1>7, <2>1, <2>3, <2>4, <2>5 DEF FlightsInv
<1> QED
  BY <1>8, <1>9

(* The record layer after a record: the rest of the datagram is kept, or it  *)
(* is dropped and the windows start anew.                                    *)
LEMMA KeptFacts ==
    ASSUME NEW q, NEW q2, Took(q, q2), NEW ids, Windows(q2, ids), NEW rest
    PROVE  LET k == [q2 EXCEPT !.left = rest]
           IN Took(q, k) /\ Windows(k, ids) /\ k.left = rest
<1> DEFINE k == [q2 EXCEPT !.left = rest]
<1>1. /\ DOMAIN k = DOMAIN q2 /\ k.left = rest /\ k.win = q2.win /\ k.nextwin = q2.nextwin
      /\ k.next = q2.next /\ k.server = q2.server /\ k.seq = q2.seq /\ k.nextseq = q2.nextseq
      /\ k.enc = q2.enc /\ k.dec = q2.dec /\ k.ccs = q2.ccs /\ k.retransmit = q2.retransmit
  BY DEF Took, RecordLayer
<1> HIDE DEF k
<1>2. Took(q, k)
  BY <1>1 DEF Took, RecordLayer
<1>3. Windows(k, ids)
  BY <1>1 DEF Windows
<1> QED
  BY <1>1, <1>2, <1>3 DEF k

(* When the windows move on, a record taken stays taken.                     *)
LEMMA SlidFacts ==
    ASSUME NEW q, NEW q2, Took(q, q2), NEW ids, Windows(q2, ids), NEW completed
    PROVE  LET k == Slide(q2, completed)
           IN Took(q, k) /\ Windows(k, ids) /\ k.left = q2.left
<1> DEFINE k == Slide(q2, completed)
<1>1. /\ DOMAIN k = DOMAIN q2 /\ k.left = q2.left /\ k.win = SlideWindow(q2.win)
      /\ k.nextwin \in {q2.nextwin, SlideWindow(q2.nextwin)}
      /\ k.next = q2.next /\ k.server = q2.server /\ k.seq = q2.seq /\ k.nextseq = q2.nextseq
      /\ k.enc = q2.enc /\ k.dec = q2.dec /\ k.ccs = q2.ccs /\ k.retransmit = q2.retransmit
  BY DEF Slide, Took, RecordLayer
<1> HIDE DEF k
<1>2. Took(q, k)
  BY <1>1 DEF Took, RecordLayer
<1>3. Known(ids) /\ Window(q2.win, ids, 0) /\ Window(q2.nextwin, ids, 1)
  BY DEF Windows
<1>4. Window(SlideWindow(q2.win), ids, 0) /\ Window(SlideWindow(q2.nextwin), ids, 1)
  BY <1>3, WindowSlides
<1>5. Windows(k, ids)
  BY <1>1, <1>3, <1>4 DEF Windows
<1> QED
  BY <1>1, <1>2, <1>5 DEF k

(* The records and the windows after a record that brought no alert. *)
LEMMA TookRecords ==
    ASSUME HandshakeInv, ~hs.fatal, NEW q, Took(rl, q), rl' = q, wire' = wire,
           DOMAIN seen' = {"ids", "twice"}, ~seen'.twice, Windows(q, seen'.ids),
           Datagram(q.left), UNCHANGED <<net, srv>>, faults' \in 0 .. MaxFaults
    PROVE  RecordsInv' /\ WindowsInv' /\ ServerInv'
<1>1. RecordLayer(rl) /\ Numbered(rl, wire) /\ Epochs(rl) /\ ~rl.retransmit
  BY DEF HandshakeInv, RecordsInv
<1>2. RecordLayer(q) /\ Numbered(q, wire) /\ Epochs(q) /\ ~q.retransmit
  BY <1>1 DEF Took, Numbered, Epochs
<1>3. RecordsInv'
  BY <1>2 DEF RecordsInv, Took
<1>4. WindowsInv'
  BY DEF WindowsInv
<1>5. ServerInv'
  BY DEF ServerInv, HandshakeInv
<1> QED
  BY <1>3, <1>4, <1>5

(* A record in the handshake. *)
LEMMA TakeStep ==
    ASSUME HandshakeInv, mode = "recv", NEW record, IsRecord(record), NEW rest, Datagram(rest),
           NEW fault, NEW at, NEW late, Take(record, rest, fault, at, late),
           UNCHANGED <<net, srv>>, faults' \in 0 .. MaxFaults
    PROVE  HandshakeInv'
<1> DEFINE h == Received(record, fault, at)
           r == ReceiveRecord(rl, record, "handshake", fault)
           id == <<record.epoch, record.seq>>
           p == Processed(h)
           kept == [h.rl EXCEPT !.left = rest]
           dropped == [h.rl EXCEPT !.left = << >>]
           done == h.rf[1].id = 6
           slid == Slide(dropped, done)
           alerted == SendAlert(kept, wire, h.status)
<1>1. seen' = IF r.status \notin {"ok", "alert"} THEN seen
              ELSE [ids |-> seen.ids \cup {id}, twice |-> seen.twice \/ id \in seen.ids]
  BY DEF Take
<1>2. \/ h.status = "ok" /\ Advanced(h) /\ rl' = slid /\ wire' = wire
      \/ TimedOut(p) /\ rl' = kept /\ wire' = wire
      \/ /\ h.status # "ok" /\ mode' = "exit" /\ hs' = Ended(p, h.status, TRUE)
         /\ rl' = alerted.rl /\ wire' = alerted.wire
      \/ mode' = "exit" /\ hs' = Ended(p, "alert", FALSE) /\ rl' = kept /\ wire' = wire
      \/ mode' = mode /\ hs' = p /\ rl' = kept /\ wire' = wire
  BY DEF Take
<1>3. /\ Listing(h, hs.last) /\ (h.status = "ok" => Len(h.rf) = 1)
      /\ Took(rl, h.rl) /\ Windows(h.rl, seen.ids)
      /\ r.status \in {"ok", "alert"} =>
            id \notin seen.ids /\ Windows(h.rl, seen.ids \cup {id})
  BY ReceivedFacts
<1> HIDE DEF h, r, id
<1>4. DOMAIN seen' = {"ids", "twice"} /\ ~seen'.twice /\ Windows(h.rl, seen'.ids)
  <2>1. DOMAIN seen = {"ids", "twice"} /\ ~seen.twice
    BY DEF HandshakeInv, WindowsInv
  <2> QED
    BY <1>1, <1>3, <2>1
<1>5. Took(rl, kept) /\ Windows(kept, seen'.ids) /\ Datagram(kept.left)
  <2> DEFINE ids == seen'.ids
  <2> HIDE DEF ids
  <2>1. Windows(h.rl, ids)
    BY <1>4 DEF ids
  <2>2. Took(rl, kept) /\ Windows(kept, ids) /\ kept.left = rest
    BY <1>3, <2>1, KeptFacts
  <2> QED
    BY <2>2 DEF ids
<1>6. Took(rl, slid) /\ Windows(slid, seen'.ids) /\ Datagram(slid.left)
  <2> DEFINE ids == seen'.ids
  <2> HIDE DEF ids, done
  <2>1. Windows(h.rl, ids)
    BY <1>4 DEF ids
  <2>2. Took(rl, dropped) /\ Windows(dropped, ids) /\ dropped.left = << >>
    BY <1>3, <2>1, KeptFacts
  <2> HIDE DEF dropped
  <2>3. Took(rl, slid) /\ Windows(slid, ids) /\ slid.left = << >>
    BY <2>2, SlidFacts
  <2>4. Datagram(<< >>)
    <3>1. << >> \in Seq({}) /\ DOMAIN << >> = {}
      OBVIOUS
    <3> QED
      BY <3>1, IsSeqOf DEF Datagram
  <2> QED
    BY <2>3, <2>4 DEF ids
<1>7. /\ Handshake(p) /\ p.rf = h.rf /\ p.rf # << >>
      /\ p.last = hs.last /\ p.sf = hs.sf /\ p.auth = hs.auth
      /\ p.fatal = hs.fatal /\ p.status = hs.status
  BY <1>3, ProcessedFacts
<1>8. GoesOn(hs, rl.enc) /\ hs.last \in {1, 3, 5}
  BY DEF HandshakeInv, FlightsInv
<1>9. p.auth = "started" /\ ~hs.fatal
  BY <1>7, <1>8 DEF GoesOn
<1> HIDE DEF p, kept, slid
<1>10. CASE h.status = "ok" /\ Advanced(h) /\ rl' = slid /\ wire' = wire
  <2>1. rl'.enc = rl.enc
    BY <1>6, <1>10 DEF Took
  <2>2. FlightsInv' /\ hs'.fatal = FALSE
    BY <1>3, <1>10, <2>1, AdvancedFacts
  <2>3. RecordsInv' /\ WindowsInv' /\ ServerInv'
    BY <1>4, <1>6, <1>9, <1>10, TookRecords
  <2> QED
    BY <2>2, <2>3 DEF HandshakeInv
<1>11. CASE TimedOut(p) /\ rl' = kept /\ wire' = wire
  <2>1. RecordsInv' /\ WindowsInv' /\ ServerInv'
    BY <1>4, <1>5, <1>9, <1>11, TookRecords
  <2>2. rl'.enc = rl.enc
    BY <1>5, <1>11 DEF Took
  <2>3. /\ Handshake(hs') /\ hs'.auth = p.auth
        /\ \/ mode' = "exit" /\ hs'.fatal = FALSE /\ hs'.status = "timeout"
           \/ /\ mode' = "send" /\ hs'.last = p.last /\ hs'.sf = p.sf
              /\ hs'.fatal = p.fatal /\ hs'.status = p.status
    BY <1>7, <1>11, TimedOutFacts
  <2>4. mode' = "send" => GoesOn(hs', rl'.enc)
    BY <1>7, <1>8, <2>2, <2>3 DEF GoesOn
  <2>5. hs'.status = "ok" => ~hs'.fatal
    BY <1>7, <1>8, <2>3 DEF GoesOn
  <2>6. FlightsInv'
    BY <1>9, <2>3, <2>4, <2>5 DEF FlightsInv
  <2> QED
    BY <2>1, <2>6 DEF HandshakeInv
<1>12. CASE /\ h.status # "ok" /\ mode' = "exit" /\ hs' = Ended(p, h.status, TRUE)
            /\ rl' = alerted.rl /\ wire' = alerted.wire
  <2>1. RecordLayer(kept) /\ Epochs(kept) /\ Numbered(kept, wire)
    BY <1>5 DEF HandshakeInv, RecordsInv, FlightsInv, GoesOn, Took, Epochs, Numbered
  <2>2. RecordLayer(alerted.rl) /\ Numbered(alerted.rl, alerted.wire) /\ SameReceiver(kept, alerted.rl)
    BY <2>1, SendAlertFacts
  <2> HIDE DEF alerted
  <2> DEFINE fatal == TRUE
  <2>3. fatal \in BOOLEAN /\ hs' = Ended(p, h.status, fatal)
    BY <1>12
  <2> HIDE DEF fatal
  <2>4. Handshake(hs') /\ hs'.status = h.status /\ hs'.fatal = fatal /\ hs'.auth = p.auth
    BY <1>7, <2>3, EndedFacts
  <2>5. kept.ccs => kept.server = 0
    BY <1>5 DEF Took
  <2>6. Windows(alerted.rl, seen'.ids) /\ Datagram(alerted.rl.left)
        /\ (alerted.rl.ccs => alerted.rl.server = 0)
    BY <1>5, <2>2, <2>5 DEF SameReceiver, Windows
  <2>7. RecordsInv'
    BY <1>12, <2>2, <2>4, <2>6 DEF RecordsInv, fatal
  <2>8. WindowsInv'
    BY <1>4, <1>12, <2>6 DEF WindowsInv
  <2>9. ServerInv'
    BY <1>12, <2>6 DEF ServerInv, HandshakeInv
  <2>10. FlightsInv'
    BY <1>9, <1>12, <2>4 DEF FlightsInv
  <2> QED
    BY <2>7, <2>8, <2>9, <2>10 DEF HandshakeInv
<1>13. CASE mode' = "exit" /\ hs' = Ended(p, "alert", FALSE) /\ rl' = kept /\ wire' = wire
  <2>1. RecordsInv' /\ WindowsInv' /\ ServerInv'
    BY <1>4, <1>5, <1>9, <1>13, TookRecords
  <2> DEFINE fatal == FALSE
  <2>2. fatal \in BOOLEAN /\ hs' = Ended(p, "alert", fatal)
    BY <1>13
  <2> HIDE DEF fatal
  <2>3. Handshake(hs') /\ hs'.status = "alert" /\ hs'.fatal = fatal /\ hs'.auth = p.auth
    BY <1>7, <2>2, EndedFacts
  <2>4. FlightsInv'
    BY <1>9, <1>13, <2>3 DEF FlightsInv
  <2> QED
    BY <2>1, <2>4 DEF HandshakeInv
<1>14. CASE mode' = mode /\ hs' = p /\ rl' = kept /\ wire' = wire
  <2>1. RecordsInv' /\ WindowsInv' /\ ServerInv'
    BY <1>4, <1>5, <1>9, <1>14, TookRecords
  <2>2. rl'.enc = rl.enc
    BY <1>5, <1>14 DEF Took
  <2>3. GoesOn(hs', rl'.enc)
    BY <1>7, <1>8, <1>14, <2>2 DEF GoesOn
  <2>4. FlightsInv'
    BY <1>7, <1>8, <1>9, <1>14, <2>3 DEF FlightsInv, GoesOn
  <2> QED
    BY <2>1, <2>4 DEF HandshakeInv
<1> QED
  BY <1>2, <1>10, <1>11, <1>12, <1>13, <1>14

(* The next record of the handshake. *)
LEMMA ReceiveStep ==
    ASSUME HandshakeInv, NEW fault \in MayFail(ReceiveFaults), NEW at, NEW late,
           Receive(fault, at, late)
    PROVE  HandshakeInv'
<1>1. /\ mode = "recv" /\ Faulty(fault) /\ UNCHANGED <<net, srv>>
  BY DEF Receive
<1>2. PICK d \in IF rl.left # << >> THEN {rl.left} ELSE net :
          KnownRecords(d) # << >> /\ Take(d[1], KnownRecords(Tail(d)), fault, at, late)
  BY DEF Receive
<1>3. Datagram(d)
  BY <1>2 DEF HandshakeInv, ServerInv
<1>4. IsRecord(d[1]) /\ Datagram(KnownRecords(Tail(d)))
  BY <1>2, <1>3, DatagramFacts
<1>5. faults' \in 0 .. MaxFaults
  BY <1>1, FaultyFacts DEF HandshakeInv, ServerInv
<1> QED
  BY <1>1, <1>2, <1>4, <1>5, TakeStep

(* The wait is over. *)
LEMMA ElapseStep ==
    ASSUME HandshakeInv, Elapse
    PROVE  HandshakeInv'
<1>1. mode = "recv" /\ TimedOut(hs) /\ UNCHANGED <<rl, wire, net, srv, faults, seen>>
  BY DEF Elapse
<1>2. Handshake(hs) /\ GoesOn(hs, rl.enc) /\ hs.last \in {1, 3, 5}
  BY <1>1 DEF HandshakeInv, FlightsInv
<1>3. /\ Handshake(hs') /\ hs'.auth = hs.auth
      /\ \/ mode' = "exit" /\ hs'.fatal = FALSE /\ hs'.status = "timeout"
         \/ /\ mode' = "send" /\ hs'.last = hs.last /\ hs'.sf = hs.sf
            /\ hs'.fatal = hs.fatal /\ hs'.status = hs.status
  BY <1>1, <1>2, TimedOutFacts
<1>4. RecordsInv'
  BY <1>1, <1>2 DEF HandshakeInv, RecordsInv, GoesOn
<1>5. WindowsInv' /\ ServerInv'
  BY <1>1 DEF HandshakeInv, WindowsInv, ServerInv
<1>6. FlightsInv'
  BY <1>1, <1>2, <1>3 DEF FlightsInv, GoesOn
<1> QED
  BY <1>4, <1>5, <1>6 DEF HandshakeInv

-----------------------------------------------------------------------------
(* The steps of the server *)

(* A function on the first n numbers is a sequence. *)
LEMMA IsSeqFunction ==
    ASSUME NEW n \in Nat, NEW s, s = [i \in 1 .. n |-> s[i]]
    PROVE  IsSeq(s) /\ DOMAIN s = 1 .. n
<1> DEFINE U == {s[i] : i \in DOMAIN s}
<1>1. DOMAIN s = 1 .. n
  OBVIOUS
<1>2. \A i \in 1 .. n : s[i] \in U
  BY <1>1
<1> HIDE DEF U
<1>3. [i \in 1 .. n |-> s[i]] \in Seq(U)
  BY <1>2, IsASeq
<1> QED
  BY <1>1, <1>3 DEF IsSeq, U

(* A datagram of one record. *)
LEMMA OneRecord ==
    ASSUME NEW type, NEW epoch \in {0, 1}, NEW seq \in Nat, NEW body, IsSeq(body),
           type = "alert" => body[1].type \in {"fatal", "warning", "unlisted"}
    PROVE  Datagram(<<Record(type, epoch, seq, body)>>)
<1> DEFINE q == Record(type, epoch, seq, body)
<1>1. q.type = type /\ q.epoch = epoch /\ q.seq = seq /\ q.body = body
  BY DEF Record
<1> HIDE DEF q
<1>2. IsRecord(q)
  BY <1>1 DEF IsRecord
<1>3. <<q>> \in Seq({q}) /\ DOMAIN <<q>> = {1} /\ <<q>>[1] = q
  OBVIOUS
<1>4. IsSeq(<<q>>)
  BY <1>3, IsSeqOf
<1> QED
  BY <1>2, <1>3, <1>4 DEF Datagram, q

(* A body of one message, and none. *)
LEMMA OneMessage ==
    /\ \A m : IsSeq(<<m>>) /\ <<m>>[1] = m
    /\ IsSeq(<< >>)
<1>1. ASSUME NEW m PROVE IsSeq(<<m>>)
  <2>1. <<m>> \in Seq({m})
    OBVIOUS
  <2> QED
    BY <2>1, IsSeqOf
<1>2. << >> \in Seq({})
  OBVIOUS
<1> QED
  BY <1>1, <1>2, IsSeqOf

(* The server counts the flights it sends again. *)
LEMMA SentFacts ==
    ASSUME ServerInv, NEW f \in {0, 2, 4, 6}, MaySend(f), NEW used \in Nat
    PROVE  LET s == Sent(f, used)
           IN /\ DOMAIN s = DOMAIN srv /\ s.seq \in Nat /\ s.seq1 = srv.seq1 /\ s.has = srv.has
              /\ s.extra \in 0 .. MaxExtra
<1> DEFINE s == Sent(f, used)
           extra == IF f = 0 \/ f \in srv.sent THEN srv.extra + 1 ELSE srv.extra
<1>0. MaxExtra \in Nat
  BY HandshakeAssumption
<1>1. /\ DOMAIN s = DOMAIN srv /\ s.seq = srv.seq + used /\ s.seq1 = srv.seq1
      /\ s.has = srv.has /\ s.extra = extra
  BY DEF Sent, ServerInv
<1>2. f = 0 \/ f \in srv.sent => srv.extra < MaxExtra
  BY DEF MaySend
<1>3. extra \in 0 .. MaxExtra
  BY <1>0, <1>2 DEF ServerInv
<1>4. srv.seq + used \in Nat
  BY DEF ServerInv
<1> HIDE DEF s, extra
<1> QED
  BY <1>1, <1>3, <1>4 DEF s

(* The datagrams of flight 4. *)
LEMMA FlightFourFacts ==
    ASSUME ServerInv, SendFlight4
    PROVE  /\ \A d \in net' \ net : Datagram(d)
           /\ MaySend(4) /\ \E used \in Nat : srv' = Sent(4, used)
<1> DEFINE Body(i, j) == [k \in DOMAIN Packing[i][j] |-> Message(i, j, k)]
           Rec(i, j) == Record("handshake", 0, srv.seq + RecordsUpTo[i - 1] + j - 1, Body(i, j))
           Data(i) == [j \in DOMAIN Packing[i] |-> Rec(i, j)]
<1>1. /\ MaySend(4) /\ net' = net \cup {Data(i) : i \in DOMAIN Packing}
      /\ srv' = Sent(4, RecordsUpTo[Len(Packing)])
  BY DEF SendFlight4, DatagramOfFour, RecordOfFour
<1>2. Packing \in Seq(Seq(Seq(STRING \X SUBSET Nat))) /\ RecordsUpTo \in [0 .. Len(Packing) -> Nat]
  BY HandshakeAssumption, RecordsUpToType
<1>3. Len(Packing) \in Nat /\ DOMAIN Packing = 1 .. Len(Packing)
  BY <1>2
<1>4. ASSUME NEW i \in DOMAIN Packing PROVE Datagram(Data(i))
  <2> DEFINE n == Len(Packing[i])
             s == Data(i)
  <2>1. Packing[i] \in Seq(Seq(STRING \X SUBSET Nat))
    BY <1>2
  <2>2. n \in Nat /\ DOMAIN Packing[i] = 1 .. n
    BY <2>1
  <2>3. RecordsUpTo[i - 1] \in Nat
    BY <1>2, <1>3
  <2>4. ASSUME NEW j \in 1 .. n PROVE IsRecord(Rec(i, j))
    <3> DEFINE l == Len(Packing[i][j])
               b == Body(i, j)
               seq == srv.seq + RecordsUpTo[i - 1] + j - 1
    <3>1. Packing[i][j] \in Seq(STRING \X SUBSET Nat)
      BY <2>1, <2>2
    <3>2. l \in Nat /\ DOMAIN Packing[i][j] = 1 .. l
      BY <3>1
    <3>3. b = [k \in 1 .. l |-> b[k]]
      BY <3>2
    <3> HIDE DEF b, l
    <3>4. IsSeq(b)
      BY <3>2, <3>3, IsSeqFunction
    <3>5. seq \in Nat
      <4> DEFINE u == RecordsUpTo[i - 1]
                 c == srv.seq
      <4>1. u \in Nat /\ c \in Nat /\ j \in Nat /\ j >= 1
        BY <2>2, <2>3 DEF ServerInv
      <4> HIDE DEF u, c
      <4>2. c + u + j - 1 \in Nat
        BY <4>1
      <4> QED
        BY <4>2 DEF u, c
    <3> HIDE DEF seq
    <3>6. LET q == Record("handshake", 0, seq, b)
          IN q.type = "handshake" /\ q.epoch = 0 /\ q.seq = seq /\ q.body = b
      BY DEF Record
    <3>7. IsRecord(Record("handshake", 0, seq, b))
      BY <3>4, <3>5, <3>6 DEF IsRecord
    <3> QED
      BY <3>7 DEF b, seq
  <2> HIDE DEF Rec
  <2>5. s = [j \in 1 .. n |-> s[j]] /\ \A j \in 1 .. n : s[j] = Rec(i, j)
    BY <2>2
  <2> HIDE DEF s, n
  <2>6. IsSeq(s) /\ DOMAIN s = 1 .. n
    BY <2>2, <2>5, IsSeqFunction
  <2>7. Datagram(s)
    BY <2>4, <2>5, <2>6 DEF Datagram
  <2> QED
    BY <2>7 DEF s
<1>5. RecordsUpTo[Len(Packing)] \in Nat
  <2> DEFINE n == Len(Packing)
  <2>1. n \in Nat /\ RecordsUpTo \in [0 .. n -> Nat]
    BY <1>2, <1>3
  <2> HIDE DEF n
  <2>2. n \in 0 .. n
    BY <2>1
  <2>3. RecordsUpTo[n] \in Nat
    BY <2>1, <2>2
  <2> QED
    BY <2>3 DEF n
<1> HIDE DEF Data
<1> QED
  BY <1>1, <1>4, <1>5

(* The server sends. *)
LEMMA ServerStep ==
    ASSUME HandshakeInv, Server
    PROVE  HandshakeInv'
<1> DEFINE Fine == /\ DOMAIN srv' = DOMAIN srv /\ srv'.seq \in Nat /\ srv'.seq1 \in Nat
                   /\ srv'.has = srv.has /\ srv'.extra \in 0 .. MaxExtra
                   /\ \A d \in net' : d \in net \/ Datagram(d)
<1>1. UNCHANGED <<rl, wire, mode, hs, faults, seen>>
  BY DEF Server
<1>2. ServerInv
  BY DEF HandshakeInv
<1>3. srv.seq \in Nat /\ srv.seq1 \in Nat
  BY <1>2 DEF ServerInv
<1>4. ASSUME SendHelloVerifyRequest PROVE Fine
  <2> DEFINE m == [type |-> "HelloVerifyRequest", seq |-> 0, part |-> Pieces["HelloVerifyRequest"]]
             body == <<m>>
             d == <<Record("handshake", 0, srv.seq, body)>>
  <2>1. MaySend(2) /\ net' = net \cup {d} /\ srv' = Sent(2, 1)
    BY <1>4 DEF SendHelloVerifyRequest
  <2> HIDE DEF m
  <2>2. IsSeq(body)
    BY OneMessage
  <2> HIDE DEF body
  <2>3. Datagram(d)
    BY <1>3, <2>2, OneRecord
  <2> HIDE DEF d
  <2>4. /\ DOMAIN srv' = DOMAIN srv /\ srv'.seq \in Nat /\ srv'.seq1 = srv.seq1
        /\ srv'.has = srv.has /\ srv'.extra \in 0 .. MaxExtra
    BY <1>2, <2>1, SentFacts
  <2> QED
    BY <1>3, <2>1, <2>3, <2>4
<1>5. ASSUME SendFlight4 PROVE Fine
  <2>1. (\A d \in net' \ net : Datagram(d)) /\ MaySend(4) /\ \E used \in Nat : srv' = Sent(4, used)
    BY <1>2, <1>5, FlightFourFacts
  <2>2. PICK used \in Nat : srv' = Sent(4, used)
    BY <2>1
  <2>3. /\ DOMAIN srv' = DOMAIN srv /\ srv'.seq \in Nat /\ srv'.seq1 = srv.seq1
        /\ srv'.has = srv.has /\ srv'.extra \in 0 .. MaxExtra
    BY <1>2, <2>1, <2>2, SentFacts
  <2> QED
    BY <1>3, <2>1, <2>3
<1>6. ASSUME SendFlight6 PROVE Fine
  <2> DEFINE number == Number(Len(Messages(4))) + 1
             m == [type |-> "Finished", seq |-> number, part |-> Pieces["Finished"]]
             body == <<m>>
             none == << >>
             d1 == <<Record("ccs", 0, srv.seq, none)>>
             d2 == <<Record("handshake", 1, srv.seq1, body)>>
             sent == Sent(6, 1)
  <2>1. MaySend(6) /\ net' = net \cup {d1, d2} /\ srv' = [sent EXCEPT !.seq1 = @ + 1]
    BY <1>6 DEF SendFlight6
  <2> HIDE DEF m
  <2>2. IsSeq(body) /\ IsSeq(none)
    BY OneMessage
  <2> HIDE DEF body, none
  <2>3. Datagram(d1) /\ Datagram(d2)
    BY <1>3, <2>2, OneRecord
  <2> HIDE DEF d1, d2
  <2>4. /\ DOMAIN sent = DOMAIN srv /\ sent.seq \in Nat /\ sent.seq1 = srv.seq1
        /\ sent.has = srv.has /\ sent.extra \in 0 .. MaxExtra
    BY <1>2, <2>1, SentFacts
  <2> HIDE DEF sent
  <2>5. /\ DOMAIN srv' = DOMAIN srv /\ srv'.seq \in Nat /\ srv'.seq1 = srv.seq1 + 1
        /\ srv'.has = srv.has /\ srv'.extra \in 0 .. MaxExtra
    BY <1>2, <2>1, <2>4 DEF ServerInv
  <2> QED
    BY <1>3, <2>1, <2>3, <2>5
<1>7. ASSUME SendServerAlert PROVE Fine
  <2>1. PICK level \in {"fatal", "warning", "unlisted"} :
            /\ MaySend(0)
            /\ net' = net \cup {<<Record("alert", 0, srv.seq, <<[type |-> level]>>)>>}
            /\ srv' = Sent(0, 1)
    BY <1>7 DEF SendServerAlert
  <2> DEFINE m == [type |-> level]
             body == <<m>>
             d == <<Record("alert", 0, srv.seq, body)>>
  <2>2. m.type = level /\ net' = net \cup {d}
    BY <2>1
  <2> HIDE DEF m
  <2>3. IsSeq(body) /\ body[1].type = level
    BY <2>2, OneMessage
  <2> HIDE DEF body
  <2>4. Datagram(d)
    BY <1>3, <2>1, <2>3, OneRecord
  <2> HIDE DEF d
  <2>5. /\ DOMAIN srv' = DOMAIN srv /\ srv'.seq \in Nat /\ srv'.seq1 = srv.seq1
        /\ srv'.has = srv.has /\ srv'.extra \in 0 .. MaxExtra
    BY <1>2, <2>1, SentFacts
  <2> QED
    BY <1>3, <2>2, <2>4, <2>5
<1>8. Fine
  BY <1>4, <1>5, <1>6, <1>7 DEF Server
<1>9. RecordsInv' /\ WindowsInv'
  BY <1>1 DEF HandshakeInv, RecordsInv, WindowsInv
<1>10. ServerInv'
  BY <1>1, <1>2, <1>8 DEF ServerInv
<1>11. FlightsInv'
  BY <1>1, <1>8 DEF HandshakeInv, FlightsInv
<1> QED
  BY <1>9, <1>10, <1>11 DEF HandshakeInv

(* Any step of the handshake. *)
LEMMA HandshakeStep ==
    ASSUME HandshakeInv, HandshakeNext
    PROVE  HandshakeInv'
<1>1. CASE ClientSends
  BY <1>1, SendStep DEF ClientSends
<1>2. CASE ClientReceives
  BY <1>2, ReceiveStep DEF ClientReceives
<1>3. CASE Elapse
  BY <1>3, ElapseStep
<1>4. CASE Server
  BY <1>4, ServerStep
<1> QED
  BY <1>1, <1>2, <1>3, <1>4 DEF HandshakeNext

-----------------------------------------------------------------------------
(* The steps of the session *)

(* The fields of a session. *)
SessionFields ==
    {"phase", "mem", "socket", "chip", "registered", "buf", "reading", "undefined"}

(* A session that is not over, and stays where it is but for its buffer. *)
LEMMA SessionKept ==
    ASSUME SessionInv, ses.phase \notin {"none", "ready", "over"},
           DOMAIN ses' = SessionFields, ses'.phase = ses.phase, ses'.mem = ses.mem,
           ses'.reading \in BOOLEAN, ses'.reading => ses.phase = "connected",
           ses.phase = "connected" => mode' = "exit" /\ ~hs'.fatal
    PROVE  SessionInv'
BY DEF SessionInv, SessionFields, LeftBehind

(* OCP_Init: everything is taken, or everything but the socket is given back. *)
LEMMA InitStep ==
    ASSUME IInv, NEW failing \in MayFail(Range(InitSteps)), OCPInit(failing)
    PROVE  IInv'
<1> DEFINE n == IF failing = "none" THEN Len(InitSteps) + 1
                ELSE CHOOSE i \in DOMAIN InitSteps : InitSteps[i] = failing
           done == {InitSteps[i] : i \in 1 .. n - 1}
           mem == Memory \cap done
           socket == "socket" \in done
           registered == "registry" \in done
           s == [ses EXCEPT !.mem = mem, !.socket = socket, !.registered = registered]
           configured == "clcfg" \in done
           freed == FreeMemory(s, configured)
<1>1. /\ ses.phase = "none"
      /\ ses' = IF failing = "none" THEN [s EXCEPT !.phase = "ready"]
                ELSE [freed EXCEPT !.phase = "over"]
      /\ Faulty(failing)
      /\ UNCHANGED <<rl, wire, mode, hs, net, srv, seen>>
  BY DEF OCPInit
<1>2. /\ hs = InitialHandshake /\ mode = "send" /\ ~ses.chip
      /\ DOMAIN ses = SessionFields /\ ses.reading = FALSE
  BY <1>1 DEF IInv, SessionInv, SessionFields
<1>3. faults' \in 0 .. MaxFaults
  BY <1>1, FaultyFacts DEF IInv, HandshakeInv, ServerInv
<1>4. HandshakeInv'
  <2>1. RecordsInv' /\ WindowsInv' /\ FlightsInv'
    BY <1>1 DEF IInv, HandshakeInv, RecordsInv, WindowsInv, FlightsInv
  <2>2. ServerInv'
    BY <1>1, <1>3 DEF IInv, HandshakeInv, ServerInv
  <2> QED
    BY <2>1, <2>2 DEF HandshakeInv
<1>5. failing # "none" => ~registered
  <2>1. SUFFICES ASSUME failing # "none", NEW k \in 1 .. n - 1, InitSteps[k] = "registry"
                 PROVE  FALSE
    OBVIOUS
  <2>2. DOMAIN InitSteps = 1 .. 11
    BY DEF InitSteps
  <2>3. \E i \in DOMAIN InitSteps : InitSteps[i] = failing
    <3>1. failing \in Range(InitSteps)
      BY <2>1 DEF MayFail
    <3> QED
      BY <3>1 DEF Range
  <2>4. n \in 1 .. 11
    BY <2>1, <2>2, <2>3
  <2> HIDE DEF n
  <2>5. k \in 1 .. 10
    BY <2>1, <2>4
  <2>6. \A i \in 1 .. 10 : InitSteps[i] # "registry"
    BY DEF InitSteps
  <2> QED
    BY <2>1, <2>5, <2>6
<1>6. mem \subseteq Memory
  OBVIOUS
<1> HIDE DEF mem, socket, registered, configured
<1>7. CASE failing = "none"
  <2>1. /\ DOMAIN ses' = SessionFields /\ ses'.phase = "ready" /\ ses'.mem = mem
        /\ ses'.chip = ses.chip /\ ses'.reading = FALSE
    BY <1>1, <1>2, <1>7 DEF SessionFields
  <2>2. SessionInv'
    BY <1>1, <1>2, <1>6, <2>1 DEF SessionInv, SessionFields, LeftBehind
  <2> QED
    BY <1>4, <2>2 DEF IInv
<1>8. CASE failing # "none"
  <2>1. ses' = [freed EXCEPT !.phase = "over"]
    BY <1>1, <1>8
  <2>2. /\ DOMAIN freed = SessionFields /\ freed.mem = {} /\ freed.chip = ses.chip
        /\ freed.registered = registered /\ freed.reading = FALSE
    BY <1>2 DEF FreeMemory, SessionFields
  <2> HIDE DEF freed
  <2>3. /\ DOMAIN ses' = SessionFields /\ ses'.phase = "over" /\ ses'.mem = {}
        /\ ses'.chip = ses.chip /\ ses'.registered = registered /\ ses'.reading = FALSE
    BY <2>1, <2>2 DEF SessionFields
  <2>4. SessionInv'
    BY <1>1, <1>2, <1>5, <1>8, <2>3 DEF SessionInv, SessionFields, LeftBehind
  <2> QED
    BY <1>4, <2>4 DEF IInv
<1> QED
  BY <1>7, <1>8

(* Closing a session that ended, or that never began to send. *)
LEMMA CloseStep ==
    ASSUME IInv, CloseSession, mode = "exit" \/ hs.auth = "initialised", ~ses.reading,
           faults' \in 0 .. MaxFaults
    PROVE  IInv'
<1> DEFINE begun == hs.auth # "initialised"
           same == [rl |-> rl, wire |-> wire, ok |-> TRUE]
           alerted == IF begun /\ ~hs.fatal THEN SendAlert(rl, wire, "close") ELSE same
           freed == FreeMemory(ses, TRUE)
           chip == ses.chip /\ ~begun
           q == [alerted.rl EXCEPT !.left = << >>]
<1>1. /\ ses' = [freed EXCEPT !.phase = "over", !.socket = FALSE, !.registered = FALSE,
                             !.chip = @ /\ ~begun]
      /\ rl' = q /\ wire' = alerted.wire
      /\ UNCHANGED <<mode, hs, net, srv, seen>>
  BY DEF CloseSession
<1>2. /\ RecordLayer(rl) /\ Numbered(rl, wire) /\ (rl.ccs => rl.server = 0)
      /\ hs.fatal \/ (Epochs(rl) /\ ~rl.retransmit)
      /\ Windows(rl, seen.ids)
  BY DEF IInv, HandshakeInv, RecordsInv, WindowsInv
<1>3. /\ RecordLayer(alerted.rl) /\ Numbered(alerted.rl, alerted.wire)
      /\ SameReceiver(rl, alerted.rl)
      /\ hs.fatal \/ (Epochs(alerted.rl) /\ ~alerted.rl.retransmit)
      /\ mode = "exit" \/ alerted.rl.enc = rl.enc
  <2>1. CASE begun /\ ~hs.fatal
    <3>1. alerted = SendAlert(rl, wire, "close")
      BY <2>1
    <3>2. Epochs(rl) /\ ~rl.retransmit
      BY <1>2, <2>1
    <3> HIDE DEF alerted
    <3>3. /\ RecordLayer(alerted.rl) /\ Numbered(alerted.rl, alerted.wire)
          /\ SameReceiver(rl, alerted.rl)
          /\ Epochs(alerted.rl) /\ ~alerted.rl.retransmit
      BY <1>2, <3>1, <3>2, SendAlertFacts
    <3> QED
      BY <2>1, <3>3
  <2>2. CASE ~(begun /\ ~hs.fatal)
    <3>1. alerted.rl = rl /\ alerted.wire = wire
      BY <2>2
    <3> QED
      BY <1>2, <3>1 DEF SameReceiver
  <2> QED
    BY <2>1, <2>2
<1> HIDE DEF alerted
<1>4. /\ RecordLayer(q) /\ Numbered(q, alerted.wire)
      /\ hs.fatal \/ (Epochs(q) /\ ~q.retransmit)
      /\ Windows(q, seen.ids) /\ (q.ccs => q.server = 0)
      /\ q.left = << >> /\ q.enc = alerted.rl.enc
  <2>1. /\ DOMAIN q = DOMAIN alerted.rl /\ q.left = << >>
        /\ q.win = alerted.rl.win /\ q.nextwin = alerted.rl.nextwin
        /\ q.next = alerted.rl.next /\ q.server = alerted.rl.server /\ q.seq = alerted.rl.seq
        /\ q.nextseq = alerted.rl.nextseq /\ q.enc = alerted.rl.enc /\ q.dec = alerted.rl.dec
        /\ q.ccs = alerted.rl.ccs /\ q.retransmit = alerted.rl.retransmit
    BY <1>3 DEF RecordLayer
  <2> HIDE DEF q
  <2>2. RecordLayer(q)
    BY <1>3, <2>1 DEF RecordLayer
  <2>3. Numbered(q, alerted.wire)
    BY <1>3, <2>1 DEF Numbered
  <2>4. hs.fatal \/ (Epochs(q) /\ ~q.retransmit)
    BY <1>3, <2>1 DEF Epochs
  <2>5. Windows(q, seen.ids) /\ (q.ccs => q.server = 0)
    BY <1>2, <1>3, <2>1 DEF Windows, SameReceiver
  <2> QED
    BY <2>1, <2>2, <2>3, <2>4, <2>5
<1> HIDE DEF q
<1>5. RecordsInv'
  BY <1>1, <1>4 DEF RecordsInv
<1>6. WindowsInv'
  BY <1>1, <1>4 DEF IInv, HandshakeInv, WindowsInv
<1>7. ServerInv'
  <2>1. Datagram(<< >>)
    <3>1. << >> \in Seq({}) /\ DOMAIN << >> = {}
      OBVIOUS
    <3> QED
      BY <3>1, IsSeqOf DEF Datagram
  <2> QED
    BY <1>1, <1>4, <2>1 DEF IInv, HandshakeInv, ServerInv
<1>8. FlightsInv'
  <2>1. mode # "exit" => rl'.enc = rl.enc
    BY <1>1, <1>3, <1>4
  <2>2. mode # "exit" => GoesOn(hs, rl'.enc)
    BY <2>1 DEF IInv, HandshakeInv, FlightsInv
  <2> QED
    BY <1>1, <2>2 DEF IInv, HandshakeInv, FlightsInv
<1>9. SessionInv'
  <2>1. DOMAIN ses = SessionFields /\ ses.reading \in BOOLEAN
    BY DEF IInv, SessionInv, SessionFields
  <2>2. /\ DOMAIN freed = SessionFields /\ freed.mem = {} /\ freed.reading = ses.reading
        /\ freed.chip = ses.chip
    BY <2>1 DEF FreeMemory, SessionFields
  <2> HIDE DEF freed
  <2>3. /\ DOMAIN ses' = SessionFields /\ ses'.phase = "over" /\ ses'.mem = {}
        /\ ses'.socket = FALSE /\ ses'.registered = FALSE
        /\ ses'.reading = ses.reading /\ (ses'.chip => hs.auth = "initialised")
    BY <1>1, <2>2 DEF SessionFields
  <2>4. ses'.chip => srv'.has = {}
    BY <1>1, <2>3 DEF IInv, HandshakeInv, FlightsInv
  <2> QED
    BY <1>1, <2>1, <2>3, <2>4 DEF SessionInv, SessionFields, LeftBehind
<1> QED
  BY <1>5, <1>6, <1>7, <1>8, <1>9 DEF IInv, HandshakeInv

(* OCP_Connect begins the handshake, or the session is closed. *)
LEMMA ConnectStep ==
    ASSUME IInv, NEW fault \in MayFail({"connect", "scheme"}), OCPConnect(fault)
    PROVE  IInv'
<1>1. ses.phase = "ready" /\ Faulty(fault)
  BY DEF OCPConnect
<1>2. faults' \in 0 .. MaxFaults
  BY <1>1, FaultyFacts DEF IInv, HandshakeInv, ServerInv
<1>3. hs.auth = "initialised" /\ ~ses.reading
  <2>1. hs = InitialHandshake /\ ~ses.reading
    BY <1>1 DEF IInv, SessionInv
  <2> QED
    BY <2>1 DEF InitialHandshake
<1>4. CASE CloseSession
  BY <1>2, <1>3, <1>4, CloseStep
<1>5. CASE /\ ses' = [ses EXCEPT !.phase = "handshake", !.chip = TRUE]
           /\ UNCHANGED <<rl, wire, mode, hs, net, srv, seen>>
  <2>1. HandshakeInv'
    <3>1. RecordsInv' /\ WindowsInv' /\ FlightsInv'
      BY <1>5 DEF IInv, HandshakeInv, RecordsInv, WindowsInv, FlightsInv
    <3>2. ServerInv'
      BY <1>2, <1>5 DEF IInv, HandshakeInv, ServerInv
    <3> QED
      BY <3>1, <3>2 DEF HandshakeInv
  <2>2. SessionInv'
    BY <1>1, <1>3, <1>5 DEF IInv, SessionInv, LeftBehind
  <2> QED
    BY <2>1, <2>2 DEF IInv
<1> QED
  BY <1>4, <1>5 DEF OCPConnect

(* A step of the handshake within the session. *)
LEMMA WithinStep ==
    ASSUME IInv, Within(HandshakeNext)
    PROVE  IInv'
<1>1. ses.phase = "handshake" /\ HandshakeNext /\ ses' = ses
  BY DEF Within
<1>2. HandshakeInv'
  BY <1>1, HandshakeStep DEF IInv
<1>3. SessionInv'
  BY <1>1 DEF IInv, SessionInv, LeftBehind
<1> QED
  BY <1>2, <1>3 DEF IInv

(* OCP_Connect returns with a session, or without one. *)
LEMMA ConnectReturnsStep ==
    ASSUME IInv, OCPConnectReturns
    PROVE  IInv'
<1>1. ses.phase = "handshake" /\ mode = "exit" /\ faults' = faults
  BY DEF OCPConnectReturns
<1>2. ~ses.reading
  BY <1>1 DEF IInv, SessionInv
<1>3. CASE hs.status = "ok"
  <2>1. /\ ses' = [ses EXCEPT !.phase = "connected"]
        /\ UNCHANGED <<rl, wire, mode, hs, net, srv, seen>>
    BY <1>3 DEF OCPConnectReturns
  <2>2. HandshakeInv'
    BY <1>1, <2>1 DEF IInv, HandshakeInv, RecordsInv, WindowsInv, FlightsInv, ServerInv
  <2>3. ~hs.fatal
    BY <1>3 DEF IInv, HandshakeInv, FlightsInv
  <2>4. SessionInv'
    BY <1>1, <1>2, <2>1, <2>3 DEF IInv, SessionInv, LeftBehind
  <2> QED
    BY <2>2, <2>4 DEF IInv
<1>4. CASE hs.status # "ok"
  <2>1. CloseSession
    BY <1>4 DEF OCPConnectReturns
  <2>2. faults' \in 0 .. MaxFaults
    BY <1>1 DEF IInv, HandshakeInv, ServerInv
  <2> QED
    BY <1>1, <1>2, <2>1, <2>2, CloseStep
<1> QED
  BY <1>3, <1>4

(* OCP_Send. *)
LEMMA OCPSendStep ==
    ASSUME IInv, NEW fault \in MayFail({"malloc", "chip", "net"}), OCPSend(fault)
    PROVE  IInv'
<1> DEFINE r0 == [rl |-> rl, wire |-> wire, ok |-> TRUE]
           r == SendRecord(r0, "app", fault)
<1>1. /\ ses.phase = "connected" /\ rl' = r.rl /\ wire' = r.wire /\ Faulty(fault)
      /\ UNCHANGED <<mode, hs, net, srv, seen, ses>>
  BY DEF OCPSend, Ready
<1>2. mode = "exit" /\ ~hs.fatal
  BY <1>1 DEF IInv, SessionInv
<1>3. Sending(r0) /\ r0.rl = rl
  BY <1>2 DEF IInv, HandshakeInv, RecordsInv, Sending
<1> HIDE DEF r0
<1>4. Sending(r) /\ ~r.rl.retransmit /\ SameReceiver(rl, r.rl)
  BY <1>3, SendRecordFacts
<1> HIDE DEF r
<1>5. faults' \in 0 .. MaxFaults
  BY <1>1, FaultyFacts DEF IInv, HandshakeInv, ServerInv
<1>6. RecordsInv' /\ WindowsInv' /\ ServerInv'
  BY <1>1, <1>4, <1>5, SentRecords DEF IInv, Sending
<1>7. FlightsInv'
  BY <1>1, <1>2 DEF IInv, HandshakeInv, FlightsInv
<1>8. SessionInv'
  BY <1>1 DEF IInv, SessionInv, LeftBehind
<1> QED
  BY <1>6, <1>7, <1>8 DEF IInv, HandshakeInv

(* The session and the handshake around a step of OCP_Receive. *)
LEMMA ReadingKept ==
    ASSUME IInv, ses.phase = "connected", faults' \in 0 .. MaxFaults,
           UNCHANGED <<rl, wire, mode, hs, net, srv, seen>>,
           DOMAIN ses' = SessionFields, ses'.phase = ses.phase, ses'.mem = ses.mem,
           ses'.reading \in BOOLEAN
    PROVE  IInv'
<1>1. RecordsInv' /\ WindowsInv' /\ FlightsInv'
  BY DEF IInv, HandshakeInv, RecordsInv, WindowsInv, FlightsInv
<1>2. ServerInv'
  BY DEF IInv, HandshakeInv, ServerInv
<1>3. mode = "exit" /\ ~hs.fatal /\ SessionInv
  BY DEF IInv, SessionInv
<1>4. SessionInv'
  BY <1>3, SessionKept
<1> QED
  BY <1>1, <1>2, <1>4 DEF IInv, HandshakeInv

(* OCP_Receive begins to wait. *)
LEMMA OCPReceiveStep ==
    ASSUME IInv, NEW fault \in MayFail({"malloc"}), OCPReceive(fault)
    PROVE  IInv'
<1>1. DOMAIN ses = SessionFields /\ ses.reading \in BOOLEAN
  BY DEF IInv, SessionInv, SessionFields
<1>2. /\ ses.phase = "connected" /\ Faulty(fault)
      /\ UNCHANGED <<rl, wire, mode, hs, net, srv, seen>>
      /\ ses' = IF fault = "malloc" THEN ses ELSE [ses EXCEPT !.buf = TRUE, !.reading = TRUE]
  BY DEF OCPReceive, Ready
<1>3. faults' \in 0 .. MaxFaults
  BY <1>2, FaultyFacts DEF IInv, HandshakeInv, ServerInv
<1>4. /\ DOMAIN ses' = SessionFields /\ ses'.phase = ses.phase /\ ses'.mem = ses.mem
      /\ ses'.reading \in BOOLEAN
  BY <1>1, <1>2 DEF SessionFields
<1> QED
  BY <1>2, <1>3, <1>4, ReadingKept

(* OCP_Receive gives up. *)
LEMMA OCPReceiveTimeoutStep ==
    ASSUME IInv, OCPReceiveTimeout
    PROVE  IInv'
<1>1. DOMAIN ses = SessionFields /\ ses.reading \in BOOLEAN
  BY DEF IInv, SessionInv, SessionFields
<1>2. /\ ses.reading /\ faults' = faults
      /\ UNCHANGED <<rl, wire, mode, hs, net, srv, seen>>
      /\ ses' = Return(rl.left)
  BY DEF OCPReceiveTimeout
<1>3. ses.phase = "connected" /\ faults' \in 0 .. MaxFaults
  BY <1>2 DEF IInv, HandshakeInv, ServerInv, SessionInv
<1>4. /\ DOMAIN ses' = SessionFields /\ ses'.phase = ses.phase /\ ses'.mem = ses.mem
      /\ ses'.reading \in BOOLEAN
  BY <1>1, <1>2 DEF SessionFields, Return
<1> QED
  BY <1>2, <1>3, <1>4, ReadingKept

(* A record for OCP_Receive; a HelloRequest is answered. *)
LEMMA OCPReceiveRecordStep ==
    ASSUME IInv, NEW fault \in MayFail({"malloc", "chip"}), OCPReceiveRecord(fault)
    PROVE  IInv'
<1>1. /\ ses.reading /\ Faulty(fault) /\ UNCHANGED <<mode, net, srv>>
  BY DEF OCPReceiveRecord
<1>2. PICK d \in IF rl.left # << >> THEN {rl.left} ELSE net :
          LET r == ReceiveRecord(rl, d[1], "app", fault)
              rest == KnownRecords(Tail(d))
              kept == [r.rl EXCEPT !.left = rest]
              id == <<d[1].epoch, d[1].seq>>
              hello == r.status = "ok" /\ d[1].type = "handshake"
                       /\ d[1].body[1].type = "HelloRequest"
              refused == SendAlert(kept, wire, "norenegotiate")
          IN /\ KnownRecords(d) # << >>
             /\ seen' = IF r.status \in {"app", "alert", "ok"}
                        THEN [ids |-> seen.ids \cup {id}, twice |-> seen.twice \/ id \in seen.ids]
                        ELSE seen
             /\ \E m \in IF r.status = "alert" THEN AlertMeaning(d[1].body[1].type) ELSE {"none"} :
                   /\ ses' = IF r.status \in {"app", "malloc", "decrypt"} \/ m = "fatal"
                             THEN Return(rest) ELSE ses
                   /\ hs' = IF m = "fatal" THEN [hs EXCEPT !.auth = "closed"] ELSE hs
             /\ rl' = IF hello THEN refused.rl ELSE kept
             /\ wire' = IF hello THEN refused.wire ELSE wire
  BY DEF OCPReceiveRecord
<1> DEFINE r == ReceiveRecord(rl, d[1], "app", fault)
           rest == KnownRecords(Tail(d))
           kept == [r.rl EXCEPT !.left = rest]
           id == <<d[1].epoch, d[1].seq>>
           refused == SendAlert(kept, wire, "norenegotiate")
<1>3. /\ KnownRecords(d) # << >>
      /\ seen' = IF r.status \in {"app", "alert", "ok"}
                 THEN [ids |-> seen.ids \cup {id}, twice |-> seen.twice \/ id \in seen.ids]
                 ELSE seen
      /\ ses' \in {ses, Return(rest)}
      /\ hs' \in {hs, [hs EXCEPT !.auth = "closed"]}
      /\ \/ rl' = kept /\ wire' = wire
         \/ rl' = refused.rl /\ wire' = refused.wire
  BY <1>2
<1>4. Datagram(d)
  BY <1>2 DEF IInv, HandshakeInv, ServerInv
<1>5. IsRecord(d[1]) /\ Datagram(rest)
  BY <1>3, <1>4, DatagramFacts
<1>6. /\ RecordLayer(rl) /\ (rl.ccs => rl.server = 0) /\ Windows(rl, seen.ids)
      /\ Numbered(rl, wire)
  BY DEF IInv, HandshakeInv, RecordsInv, WindowsInv
<1>7. Recorded(rl, seen.ids, d[1], r)
  <2> DEFINE q == d[1]
  <2>1. q.epoch \in {0, 1} /\ q.seq \in Nat
    BY <1>5 DEF IsRecord
  <2> HIDE DEF q
  <2>2. Recorded(rl, seen.ids, q, ReceiveRecord(rl, q, "app", fault))
    BY <1>6, <2>1, ReceiveRecordFacts
  <2> QED
    BY <2>2 DEF q
<1> HIDE DEF r, rest
<1>8. ses.phase = "connected" /\ mode = "exit" /\ ~hs.fatal
  BY <1>1 DEF IInv, SessionInv
<1>9. Epochs(rl) /\ ~rl.retransmit
  BY <1>8 DEF IInv, HandshakeInv, RecordsInv
<1>10. DOMAIN seen' = {"ids", "twice"} /\ ~seen'.twice /\ Windows(r.rl, seen'.ids)
  <2>1. DOMAIN seen = {"ids", "twice"} /\ ~seen.twice
    BY DEF IInv, HandshakeInv, WindowsInv
  <2> QED
    BY <1>3, <1>7, <2>1 DEF Recorded
<1>11. Took(rl, kept) /\ Windows(kept, seen'.ids) /\ kept.left = rest
  <2> DEFINE ids == seen'.ids
  <2> HIDE DEF ids
  <2>1. Took(rl, r.rl)
    BY <1>7 DEF Recorded, SameSender, Took
  <2>2. Windows(r.rl, ids)
    BY <1>10 DEF ids
  <2>3. Took(rl, kept) /\ Windows(kept, ids) /\ kept.left = rest
    BY <2>1, <2>2, KeptFacts
  <2> QED
    BY <2>3 DEF ids
<1> HIDE DEF kept
<1>12. faults' \in 0 .. MaxFaults
  BY <1>1, FaultyFacts DEF IInv, HandshakeInv, ServerInv
<1>13. RecordsInv' /\ WindowsInv' /\ ServerInv'
  <2>1. CASE rl' = kept /\ wire' = wire
    BY <1>1, <1>5, <1>8, <1>10, <1>11, <1>12, <2>1, TookRecords DEF IInv
  <2>2. CASE rl' = refused.rl /\ wire' = refused.wire
    <3>1. RecordLayer(kept) /\ Epochs(kept) /\ ~kept.retransmit /\ Numbered(kept, wire)
          /\ (kept.ccs => kept.server = 0)
      BY <1>6, <1>9, <1>11 DEF Took, Epochs, Numbered
    <3>2. /\ RecordLayer(refused.rl) /\ Numbered(refused.rl, refused.wire)
          /\ SameReceiver(kept, refused.rl)
          /\ Epochs(refused.rl) /\ ~refused.rl.retransmit
      BY <3>1, SendAlertFacts
    <3> HIDE DEF refused
    <3>3. /\ Windows(refused.rl, seen'.ids) /\ Datagram(refused.rl.left)
          /\ (refused.rl.ccs => refused.rl.server = 0)
      BY <1>5, <1>11, <3>1, <3>2 DEF SameReceiver, Windows
    <3>4. RecordsInv'
      BY <2>2, <3>2, <3>3 DEF RecordsInv
    <3>5. WindowsInv'
      BY <1>10, <2>2, <3>3 DEF WindowsInv
    <3>6. ServerInv'
      BY <1>1, <1>12, <2>2, <3>3 DEF IInv, HandshakeInv, ServerInv
    <3> QED
      BY <3>4, <3>5, <3>6
  <2> QED
    BY <1>3, <2>1, <2>2
<1>14. /\ Handshake(hs') /\ hs'.fatal = hs.fatal /\ hs'.status = hs.status
       /\ hs'.auth \in {hs.auth, "closed"}
  BY <1>3 DEF IInv, HandshakeInv, FlightsInv, Handshake
<1>15. FlightsInv'
  BY <1>1, <1>8, <1>14 DEF IInv, HandshakeInv, FlightsInv
<1>16. SessionInv'
  <2>1. DOMAIN ses = SessionFields /\ ses.reading \in BOOLEAN
    BY DEF IInv, SessionInv, SessionFields
  <2>2. /\ DOMAIN ses' = SessionFields /\ ses'.phase = ses.phase /\ ses'.mem = ses.mem
        /\ ses'.reading \in BOOLEAN
    BY <1>3, <2>1 DEF Return, SessionFields
  <2> QED
    BY <1>1, <1>8, <1>14, <2>2, SessionKept DEF IInv
<1> QED
  BY <1>13, <1>15, <1>16 DEF IInv, HandshakeInv

(* OCP_Disconnect. *)
LEMMA DisconnectStep ==
    ASSUME IInv, OCPDisconnect
    PROVE  IInv'
<1>1. ses.phase = "connected" /\ ~ses.reading /\ CloseSession /\ faults' = faults
  BY DEF OCPDisconnect
<1>2. mode = "exit" /\ faults' \in 0 .. MaxFaults
  BY <1>1 DEF IInv, HandshakeInv, ServerInv, SessionInv
<1> QED
  BY <1>1, <1>2, CloseStep

(* The server's data. *)
LEMMA SendDataStep ==
    ASSUME IInv, SendData
    PROVE  IInv'
<1>1. PICK p \in {<<"app", "data">>, <<"handshake", "HelloRequest">>, <<"alert", "fatal">>,
                  <<"alert", "warning">>} :
          net' = net \cup {<<Record(p[1], 1, srv.seq1, <<[type |-> p[2]]>>),
                             Record("app", 1, srv.seq1 + 1, <<[type |-> "data"]>>)>>}
  BY DEF SendData
<1>2. /\ srv' = [srv EXCEPT !.sent = @ \cup {8}, !.seq1 = @ + 2]
      /\ UNCHANGED <<rl, wire, mode, hs, faults, seen, ses>>
  BY DEF SendData
<1> DEFINE m1 == [type |-> p[2]]
           m2 == [type |-> "data"]
           b1 == <<m1>>
           b2 == <<m2>>
           q1 == Record(p[1], 1, srv.seq1, b1)
           q2 == Record("app", 1, srv.seq1 + 1, b2)
           d == <<q1, q2>>
<1>3. srv.seq1 \in Nat /\ srv.seq1 + 1 \in Nat
  BY DEF IInv, HandshakeInv, ServerInv
<1>4. m1.type = p[2] /\ (p[1] = "alert" => p[2] \in {"fatal", "warning"})
  BY <1>1
<1>5. net' = net \cup {d}
  BY <1>1
<1> HIDE DEF m1, m2
<1>6. IsSeq(b1) /\ IsSeq(b2) /\ b1[1].type = p[2]
  BY <1>4, OneMessage
<1> HIDE DEF b1, b2
<1>7. /\ q1.type = p[1] /\ q1.epoch = 1 /\ q1.seq = srv.seq1 /\ q1.body = b1
      /\ q2.type = "app" /\ q2.epoch = 1 /\ q2.seq = srv.seq1 + 1 /\ q2.body = b2
  BY DEF Record
<1> HIDE DEF q1, q2
<1>8. IsRecord(q1) /\ IsRecord(q2)
  BY <1>3, <1>4, <1>6, <1>7 DEF IsRecord
<1>9. Datagram(d)
  <2>1. d \in Seq({q1, q2}) /\ DOMAIN d = {1, 2} /\ d[1] = q1 /\ d[2] = q2
    OBVIOUS
  <2> HIDE DEF d
  <2>2. IsSeq(d)
    BY <2>1, IsSeqOf
  <2> QED
    BY <1>8, <2>1, <2>2 DEF Datagram
<1> HIDE DEF d
<1>10. /\ DOMAIN srv' = DOMAIN srv /\ srv'.seq = srv.seq /\ srv'.seq1 \in Nat
       /\ srv'.extra = srv.extra /\ srv'.has = srv.has
  BY <1>2 DEF IInv, HandshakeInv, ServerInv
<1>11. RecordsInv' /\ WindowsInv'
  BY <1>2 DEF IInv, HandshakeInv, RecordsInv, WindowsInv
<1>12. ServerInv'
  BY <1>2, <1>5, <1>9, <1>10 DEF IInv, HandshakeInv, ServerInv
<1>13. FlightsInv'
  BY <1>2, <1>10 DEF IInv, HandshakeInv, FlightsInv
<1>14. SessionInv'
  BY <1>2, <1>10 DEF IInv, SessionInv, LeftBehind
<1> QED
  BY <1>11, <1>12, <1>13, <1>14 DEF IInv, HandshakeInv

-----------------------------------------------------------------------------
(* The inductive invariant *)

(* It holds at the start: nothing was sent, nothing received, no session. *)
LEMMA InitInv ==
    ASSUME Init
    PROVE  IInv
<1>0. /\ DefaultTimeout \in Nat /\ MaxExtra \in Nat /\ MaxFaults \in Nat
      /\ WindowSize \in Nat \ {0}
  BY HandshakeAssumption, RecordAssumption
<1>1. /\ rl = InitialRecordLayer /\ wire = InitialWire /\ mode = "send" /\ hs = InitialHandshake
      /\ net = {<<Record("junk", 0, 0, << >>)>>}
      /\ faults = MaxFaults /\ seen = [ids |-> {}, twice |-> FALSE]
      /\ ses = [phase |-> "none", mem |-> {}, socket |-> FALSE, chip |-> FALSE,
                registered |-> FALSE, buf |-> FALSE, reading |-> FALSE, undefined |-> FALSE]
  BY DEF Init, HandshakeInit
<1>2. PICK cookie \in BOOLEAN : srv = InitialServer(cookie)
  BY DEF Init, HandshakeInit
<1>3. RecordsInv
  <2>1. RecordLayer(rl) /\ Epochs(rl) /\ ~rl.retransmit /\ ~rl.ccs
    BY <1>1 DEF InitialRecordLayer, RecordLayer, Epochs
  <2>2. Numbered(rl, wire)
    BY <1>1 DEF InitialRecordLayer, InitialWire, Numbered, Three
  <2> QED
    BY <2>1, <2>2 DEF RecordsInv
<1>4. WindowsInv
  <2>1. Window(InitialWindow, {}, 0) /\ Window(InitialWindow, {}, 1)
    BY <1>0 DEF InitialWindow, Window
  <2>2. rl.win = InitialWindow /\ rl.nextwin = InitialWindow
    BY <1>1 DEF InitialRecordLayer
  <2> QED
    BY <1>1, <2>1, <2>2 DEF WindowsInv, Windows, Known
<1>5. ServerInv
  <2>1. Datagram(rl.left)
    <3>1. rl.left = << >>
      BY <1>1 DEF InitialRecordLayer
    <3>2. IsSeq(<< >>) /\ DOMAIN << >> = {}
      BY OneMessage
    <3> QED
      BY <3>1, <3>2 DEF Datagram
  <2>2. \A d \in net : Datagram(d)
    BY <1>1, OneMessage, OneRecord
  <2> QED
    BY <1>0, <1>1, <1>2, <2>1, <2>2 DEF ServerInv, InitialServer
<1>6. FlightsInv
  <2>1. IsList(<< >>, 0)
    BY EmptyList
  <2>2. Handshake(hs)
    BY <1>0, <1>1, <2>1 DEF Handshake, InitialHandshake, NoFlight
  <2>3. GoesOn(hs, rl.enc)
    BY <1>1 DEF GoesOn, InitialHandshake, NoFlight
  <2> QED
    BY <1>1, <1>2, <2>2, <2>3 DEF FlightsInv, InitialHandshake, InitialServer
<1>7. SessionInv
  BY <1>1 DEF SessionInv, LeftBehind
<1> QED
  BY <1>3, <1>4, <1>5, <1>6, <1>7 DEF IInv, HandshakeInv

(* Every call of the session, every step of the handshake inside OCP_Connect *)
(* and every datagram of the server preserves it.                            *)
LEMMA NextInv ==
    ASSUME IInv, [Next]_allvars
    PROVE  IInv'
<1>1. CASE \E failing \in MayFail(Range(InitSteps)) : OCPInit(failing)
  BY <1>1, InitStep
<1>2. CASE \E fault \in MayFail({"connect", "scheme"}) : OCPConnect(fault)
  BY <1>2, ConnectStep
<1>3. CASE Within(HandshakeNext)
  BY <1>3, WithinStep
<1>4. CASE OCPConnectReturns
  BY <1>4, ConnectReturnsStep
<1>5. CASE \E fault \in MayFail({"malloc", "chip", "net"}) : OCPSend(fault)
  BY <1>5, OCPSendStep
<1>6. CASE \E fault \in MayFail({"malloc"}) : OCPReceive(fault)
  BY <1>6, OCPReceiveStep
<1>7. CASE \E fault \in MayFail({"malloc", "chip"}) : OCPReceiveRecord(fault)
  BY <1>7, OCPReceiveRecordStep
<1>8. CASE OCPReceiveTimeout
  BY <1>8, OCPReceiveTimeoutStep
<1>9. CASE OCPDisconnect
  BY <1>9, DisconnectStep
<1>10. CASE SendData
  BY <1>10, SendDataStep
<1>11. CASE UNCHANGED allvars
  <2>1. UNCHANGED <<rl, wire, mode, hs, net, srv, faults, seen, ses>>
    BY <1>11 DEF allvars
  <2>2. RecordsInv' /\ WindowsInv' /\ ServerInv' /\ FlightsInv'
    BY <2>1 DEF IInv, HandshakeInv, RecordsInv, WindowsInv, ServerInv, FlightsInv
  <2>3. SessionInv'
    BY <2>1 DEF IInv, SessionInv, LeftBehind
  <2> QED
    BY <2>2, <2>3 DEF IInv, HandshakeInv
<1> QED
  BY <1>1, <1>2, <1>3, <1>4, <1>5, <1>6, <1>7, <1>8, <1>9, <1>10, <1>11 DEF Next

(* The inductive invariant of the session: the numbers used lie below the    *)
(* next ones, the records taken behind the windows, the flights agree with   *)
(* the client's epoch, and the session keeps to its handshake.               *)
THEOREM Invariant == Spec => []IInv
<1>1. Init => IInv
  BY InitInv
<1>2. IInv /\ [Next]_allvars => IInv'
  BY NextInv
<1> QED
  BY <1>1, <1>2, PTL DEF Spec

(* The client's data keeps its types for every window size, packing of the   *)
(* server's flight and number of failing calls: in particular at most two    *)
(* flights are listed at a time, and the client never leaves epochs 0 and 1. *)
THEOREM TypeCorrect == Spec => []TypeOK
<1>1. IInv => TypeOK
  BY DEF IInv, HandshakeInv, RecordsInv, ServerInv, FlightsInv, SessionInv, RecordLayer,
         Handshake, IsList, TypeOK
<1> QED
  BY <1>1, Invariant, PTL

(* The record layer: no record of the server is taken twice, however often   *)
(* the network repeats it and wherever the windows move; no number is used   *)
(* twice in an epoch, although a repeated flight 5 and alerts go back to the *)
(* epoch before; and only an alert after a broken repetition leaves in       *)
(* clear once the cipher spec has changed.                                   *)
THEOREM RecordsOnceAlways == Spec => []RecordsOnce
<1>1. IInv => RecordsOnce
  BY DEF IInv, HandshakeInv, RecordsInv, WindowsInv, Numbered, RecordsOnce, RecordsTakenOnce,
         NumbersUsedOnce, ProtectedAfterCipherSpec
<1> QED
  BY <1>1, Invariant, PTL

(* What OCP_Init, OCP_Connect and OCP_Disconnect leave behind: a session of  *)
(* the chip only when no flight was sent whole, the socket only when the     *)
(* handshake never began, and never memory or a place in the registry.       *)
THEOREM LeftBehindAlways == Spec => []LeftBehind
<1>1. IInv => LeftBehind
  BY DEF IInv, SessionInv
<1> QED
  BY <1>1, Invariant, PTL

-----------------------------------------------------------------------------
(* The flights of the handshake, followed from the server's datagrams to the *)
(* chip.                                                                     *)

(* Flight 4 was sent more than once, or its ServerHello came in pieces. *)
Two == \E d, e \in Hellos : d # e

(* The record at place i, j of the flight that starts with datagram d. *)
IdOfFour(d, i, j) == <<0, d[1].seq + RecordsUpTo[i - 1] + j - 1>>

(* A record that brings messages of flight 4 is one of flight 4. *)
Form(q) ==
    /\ q.type = "ccs" => 6 \in srv.sent
    /\ \A k \in DOMAIN q.body : InFlight(4, q.body[k].type) =>
          \E d \in Hellos : \E i \in DOMAIN Packing : \E j \in DOMAIN Packing[i] :
              q = RecordOfFour(d[1].seq, i, j)
    /\ \A k \in DOMAIN q.body : InFlight(2, q.body[k].type) => q.body[k].seq \in Int

(* What is on its way, in the network or read but not taken, has the form    *)
(* the server gave it; one ServerHello is numbered below what the server has *)
(* sent.                                                                     *)
WayInv ==
    /\ IsFiniteSet(net) /\ \A d \in net : \A i \in DOMAIN d : Form(d[i])
    /\ \A i \in DOMAIN rl.left : Form(rl.left[i])
    /\ rl.ccs => 6 \in srv.sent
    /\ Two \/ \A d \in Hellos : d[1].seq \in 0 .. srv.seq - 1

(* A flight and its nodes have their fields. *)
IsFlight(fl) ==
    /\ DOMAIN fl = {"id", "state", "nodes"}
    /\ \A t \in DOMAIN fl.nodes :
          DOMAIN fl.nodes[t] = {"state", "got", "seq", "held", "count"}

(* The nodes of a flight 4 are numbered by their places, and whole when they *)
(* are complete; unless two ServerHellos were sent, what they hold came in   *)
(* records whose identifiers ids the client has taken.                       *)
Gathers(fl, ids) ==
    /\ \A t \in DOMAIN fl.nodes :
          /\ InFlight(4, t)
          /\ fl.nodes[t].seq = Number(Position(4, t))
          /\ fl.nodes[t].state = "complete" => fl.nodes[t].got = Pieces[t]
    /\ Hellos = {} => DOMAIN fl.nodes = {}
    /\ \/ Two
       \/ \A d \in Hellos : \A i \in DOMAIN Packing : \A j \in DOMAIN Packing[i] :
             \A k \in DOMAIN Packing[i][j] :
                LET e == Packing[i][j][k]
                IN e[1] \in DOMAIN fl.nodes /\ e[2] \cap fl.nodes[e[1]].got # {} =>
                      IdOfFour(d, i, j) \in ids

(* Flight 4 was handled: its last message was counted, and unless it was     *)
(* sent twice each of its records was taken.                                 *)
Taken4(rseq, ids) ==
    /\ rseq = Number(5) /\ Hellos # {}
    /\ \/ Two
       \/ \A d \in Hellos : \A i \in DOMAIN Packing : \A j \in DOMAIN Packing[i] :
             IdOfFour(d, i, j) \in ids

(* The nodes of a flight 6: a ChangeCipherSpec in it came from a server that *)
(* has sent flight 6, and changed the client's epoch.                        *)
IsSix(fl, server) ==
    /\ DOMAIN fl.nodes \subseteq {"ccs", "Finished"}
    /\ "ccs" \in DOMAIN fl.nodes => server # 0 /\ 6 \in srv.sent

(* The flights the chip was given, when the last one handled is last: any    *)
(* number of flights 2, then flight 4, then flight 6.                        *)
ChipHas(chip, last) ==
    /\ chip \in Seq(Nat)
    /\ \E k \in 0 .. Len(chip) :
          /\ \A i \in 1 .. k : chip[i] = 2
          /\ last \in 0 .. 3 => Len(chip) = k
          /\ last \in {4, 5} => Len(chip) = k + 1 /\ chip[k + 1] = 4
          /\ last = 6 => Len(chip) = k + 2 /\ chip[k + 1] = 4 /\ chip[k + 2] = 6

(* The list of received flights.  Before flight 4 is handled what it gathers *)
(* came in records taken; afterwards its records are all taken, so only a    *)
(* second flight 4 can bring the list back to it.                            *)
ListInv ==
    /\ hs.rseq \in Int /\ \A i \in DOMAIN hs.rf : IsFlight(hs.rf[i])
    /\ hs.last \in 0 .. 3 => \A i \in DOMAIN hs.rf : hs.rf[i].id = 4 =>
          hs.rf[i].state = "ready" /\ Gathers(hs.rf[i], seen.ids)
    /\ hs.last \in {4, 5} => Taken4(hs.rseq, seen.ids)
    /\ hs.sf.id = 5 => hs.last \in {4, 5} /\ 5 \in srv.has /\ (hs.flight \in {5, 6} \/ Two)
    /\ \A i \in DOMAIN hs.rf : hs.rf[i].id = 6 => IsSix(hs.rf[i], rl.server)

(* The chip has the flights up to the last one handled, and a session that   *)
(* is authenticated has both sides in its epoch.                             *)
DoneInv ==
    /\ ChipHas(hs.chip, hs.last)
    /\ hs.auth = "completed" => /\ hs.last = 6 /\ hs.status = "ok"
                                /\ 5 \in srv.has /\ 6 \in srv.sent
                                /\ rl.enc /\ rl.next = 1 /\ rl.server = 1

(* What the flights need beyond IInv; the last two until the handshake ends. *)
FInv == DoneInv /\ (mode # "exit" => WayInv /\ ListInv)
-----------------------------------------------------------------------------
(* Flight 4, its messages, places and numbers. *)

(* The types of the messages of flight 4. *)
FourTypes == {"ServerHello", "Certificate", "ServerKeyExchange", "CertificateRequest",
              "ServerHelloDone"}

(* The messages of flight 4 in their places. *)
LEMMA FourMessages ==
    /\ DOMAIN Messages(4) = 1 .. 5 /\ Len(Messages(4)) = 5
    /\ Messages(4)[1] = "ServerHello" /\ Messages(4)[2] = "Certificate"
    /\ Messages(4)[3] = "ServerKeyExchange" /\ Messages(4)[4] = "CertificateRequest"
    /\ Messages(4)[5] = "ServerHelloDone"
BY DEF Messages

(* The place of each message of flight 4. *)
LEMMA FourPlaces ==
    /\ \A t : InFlight(4, t) <=> t \in FourTypes
    /\ \A i \in 1 .. 5 : Messages(4)[i] \in FourTypes /\ Position(4, Messages(4)[i]) = i
    /\ \A t \in FourTypes : Position(4, t) \in 1 .. 5 /\ Messages(4)[Position(4, t)] = t
<1> DEFINE M == Messages(4)
<1>1. /\ DOMAIN M = 1 .. 5
      /\ M[1] = "ServerHello" /\ M[2] = "Certificate" /\ M[3] = "ServerKeyExchange"
      /\ M[4] = "CertificateRequest" /\ M[5] = "ServerHelloDone"
  BY FourMessages
<1> HIDE DEF M
<1>2. \A i \in 1 .. 5 : i = 1 \/ i = 2 \/ i = 3 \/ i = 4 \/ i = 5
  OBVIOUS
<1>3. \A t : InFlight(4, t) <=> t \in FourTypes
  <2>1. \A t : InFlight(4, t) <=> \E i \in 1 .. 5 : M[i] = t
    BY <1>1 DEF InFlight, M
  <2>2. \A t : (\E i \in 1 .. 5 : M[i] = t) <=> t \in FourTypes
    BY <1>1, <1>2 DEF FourTypes
  <2> QED
    BY <2>1, <2>2
<1>4. \A i, j \in 1 .. 5 : M[i] = M[j] => i = j
  BY <1>1, <1>2
<1>5. \A t : Position(4, t) = CHOOSE i \in 1 .. 5 : M[i] = t
  BY <1>1 DEF Position, M
<1>6. ASSUME NEW i \in 1 .. 5 PROVE M[i] \in FourTypes /\ Position(4, M[i]) = i
  <2>1. \E j \in 1 .. 5 : M[j] = M[i]
    OBVIOUS
  <2>2. Position(4, M[i]) \in 1 .. 5 /\ M[Position(4, M[i])] = M[i]
    BY <1>5, <2>1
  <2>3. M[i] \in FourTypes
    BY <1>1, <1>2 DEF FourTypes
  <2> QED
    BY <1>4, <2>2, <2>3
<1>7. ASSUME NEW t \in FourTypes PROVE Position(4, t) \in 1 .. 5 /\ M[Position(4, t)] = t
  <2>1. PICK i \in 1 .. 5 : M[i] = t
    BY <1>1 DEF FourTypes
  <2> QED
    BY <1>6, <2>1
<1> QED
  BY <1>3, <1>6, <1>7 DEF M

(* The last message has the highest number. *)
LEMMA FourNumbers ==
    /\ \A i \in 1 .. 5 : Number(i) \in Int /\ Number(i) <= Number(5)
    /\ Number(5) >= 2
    /\ Asked => Number(5) = Number(3) + 2
BY FourMessages DEF Number

(* Where the messages of a flight 4 have come, and where they are whole. *)
LEMMA FourCome ==
    ASSUME NEW fl, fl.id = 4, NEW ids, Gathers(fl, ids)
    PROVE  /\ Come(fl) = {i \in 1 .. 5 : Messages(4)[i] \in DOMAIN fl.nodes}
           /\ \A i \in Come(fl) : Node(fl, i) = fl.nodes[Messages(4)[i]] /\ Node(fl, i).seq = Number(i)
           /\ Complete(fl) \subseteq Come(fl)
           /\ \A i \in 1 .. 5 : i \in Complete(fl) <=>
                 /\ Messages(4)[i] \in DOMAIN fl.nodes
                 /\ fl.nodes[Messages(4)[i]].state = "complete"
<1>1. Come(fl) = {i \in 1 .. 5 : Messages(4)[i] \in DOMAIN fl.nodes}
  BY FourMessages DEF Come
<1>2. \A i : Node(fl, i) = fl.nodes[Messages(4)[i]]
  BY DEF Node
<1>3. ASSUME NEW i \in Come(fl) PROVE Node(fl, i).seq = Number(i)
  <2>1. i \in 1 .. 5 /\ Messages(4)[i] \in DOMAIN fl.nodes
    BY <1>1
  <2>2. Position(4, Messages(4)[i]) = i
    BY <2>1, FourPlaces
  <2>3. fl.nodes[Messages(4)[i]].seq = Number(Position(4, Messages(4)[i]))
    BY <2>1 DEF Gathers
  <2> QED
    BY <1>2, <2>2, <2>3
<1>4. Complete(fl) = {i \in Come(fl) : fl.nodes[Messages(4)[i]].state = "complete"}
  BY <1>2 DEF Complete
<1> QED
  BY <1>1, <1>2, <1>3, <1>4

(* The numbers of a whole flight 4 tell whether the CertificateRequest is    *)
(* missing: one was asked for and has come, or none is asked for.            *)
LEMMA FourWhole ==
    ASSUME NEW fl, fl.id = 4, NEW ids, Gathers(fl, ids), NEW rseq \in Int, FlightComplete(fl, rseq)
    PROVE  \A i \in 1 .. 5 : (i = 4 /\ ~Asked) \/ i \in Complete(fl)
<1>1. \A i \in 1 .. 5 : i # 4 => i \in Complete(fl)
  BY FourMessages DEF FlightComplete, Optional
<1>2. ASSUME Asked, 4 \notin Complete(fl) PROVE FALSE
  <2>1. Complete(fl) = {1, 2, 3, 5}
    BY <1>1, <1>2, FourCome
  <2>2. PICK first \in Int : InSequence(fl, first)
    BY DEF FlightComplete
  <2>3. \A i \in Complete(fl) : Number(i) = first + Cardinality({j \in Complete(fl) : j < i})
    BY <2>2, FourCome DEF InSequence
  <2>4. {j \in Complete(fl) : j < 3} = 1 .. 2 /\ {j \in Complete(fl) : j < 5} = 1 .. 3
    BY <2>1
  <2>5. Cardinality(1 .. 2) = 2 /\ Cardinality(1 .. 3) = 3
    <3>1. \A n \in Nat : Cardinality(1 .. n) = n
      BY FS_Interval
    <3> QED
      BY <3>1
  <2>6. Number(3) = first + 2 /\ Number(5) = first + 3
    BY <2>1, <2>3, <2>4, <2>5
  <2>7. Number(3) \in Int /\ Number(5) = Number(3) + 2
    BY <1>2, FourNumbers
  <2> QED
    BY <2>6, <2>7
<1> QED
  BY <1>1, <1>2

-----------------------------------------------------------------------------
(* What the handlers do to a flight. *)

(* The nodes of g are those of h but for the one of message m. *)
Buffers(h, g, m) ==
    /\ IsHandler(g) /\ IsFlight(g.fl) /\ g.fl.id = h.fl.id /\ g.fl.state = h.fl.state
    /\ g.chip = h.chip /\ g.rseq = h.rseq
    /\ DOMAIN h.fl.nodes \subseteq DOMAIN g.fl.nodes
    /\ DOMAIN g.fl.nodes \subseteq DOMAIN h.fl.nodes \cup {m.type}
    /\ \A t \in DOMAIN h.fl.nodes : t # m.type => g.fl.nodes[t] = h.fl.nodes[t]

(* What the node of message m held. *)
Old(h, m) == IF m.type \in DOMAIN h.fl.nodes THEN h.fl.nodes[m.type].got ELSE {}

(* The node n of message m of h has become n2. *)
NodeOf(h, m, n2) ==
    /\ DOMAIN n2 = {"state", "got", "seq", "held", "count"}
    /\ m.type \in DOMAIN h.fl.nodes => n2.seq = h.fl.nodes[m.type].seq
    /\ m.type \notin DOMAIN h.fl.nodes /\ m.type # "ccs" => n2.seq = m.seq
    /\ m.type # "ccs" => n2.got \subseteq Old(h, m) \cup m.part
    /\ m.type # "ccs" /\ n2.state = "complete" =>
          \/ n2.got = Pieces[m.type]
          \/ /\ m.type \in DOMAIN h.fl.nodes /\ n2.got = h.fl.nodes[m.type].got
             /\ h.fl.nodes[m.type].state = "complete"

(* The flight with node n in the place of that of message m. *)
Put(h, m, n) == [h.fl EXCEPT !.nodes = AddNode(@, m.type, n)]

(* A node takes the place of that of message m. *)
LEMMA NodePut ==
    ASSUME NEW h, IsHandler(h), IsFlight(h.fl), NEW m, NEW n2, NodeOf(h, m, n2), NEW g,
           IsHandler(g), g.fl = Put(h, m, n2),
           g.chip = h.chip, g.rseq = h.rseq
    PROVE  /\ Buffers(h, g, m)
           /\ m.type \in DOMAIN g.fl.nodes /\ g.fl.nodes[m.type] = n2
<1> DEFINE nodes == AddNode(h.fl.nodes, m.type, n2)
<1>1. /\ DOMAIN nodes = DOMAIN h.fl.nodes \cup {m.type}
      /\ nodes[m.type] = n2
      /\ \A t \in DOMAIN h.fl.nodes : t # m.type => nodes[t] = h.fl.nodes[t]
  BY DEF AddNode
<1>2. g.fl = [h.fl EXCEPT !.nodes = nodes]
  BY DEF Put
<1> HIDE DEF nodes
<1>3. /\ DOMAIN g.fl = {"id", "state", "nodes"} /\ g.fl.nodes = nodes
      /\ g.fl.id = h.fl.id /\ g.fl.state = h.fl.state
  BY <1>2 DEF IsFlight
<1>4. IsFlight(g.fl)
  <2>1. ASSUME NEW t \in DOMAIN nodes
        PROVE  DOMAIN nodes[t] = {"state", "got", "seq", "held", "count"}
    BY <1>1 DEF IsFlight, NodeOf
  <2> QED
    BY <1>3, <2>1 DEF IsFlight
<1> QED
  BY <1>1, <1>3, <1>4 DEF Buffers

(* What CheckAndBuffer makes of the node of a message. *)
LEMMA CheckAndBufferDoes ==
    ASSUME NEW h, IsHandler(h), IsFlight(h.fl), NEW m, m.type \in DOMAIN h.fl.nodes, NEW fault
    PROVE  LET b == CheckAndBuffer(h, m, fault)
           IN /\ IsHandler(b) /\ b.chip = h.chip /\ b.rseq = h.rseq /\ b.flight = h.flight
              /\ b.rl = h.rl
              /\ \/ b.fl = h.fl
                 \/ \E n2 : NodeOf(h, m, n2) /\ b.fl = Put(h, m, n2)
<1> DEFINE n == h.fl.nodes[m.type]
           buffered == [n EXCEPT !.held = TRUE, !.got = @ \cup m.part]
           now == IF n.state = "partial" THEN buffered ELSE n
           done == Counted([now EXCEPT !.state = "complete"])
           bad == [n EXCEPT !.held = TRUE]
           b == CheckAndBuffer(h, m, fault)
           With(node, status) == [h EXCEPT !.fl.nodes[m.type] = node, !.status = status]
           Good(g) ==
               /\ IsHandler(g) /\ g.chip = h.chip /\ g.rseq = h.rseq /\ g.flight = h.flight
               /\ g.rl = h.rl
               /\ \/ g.fl = h.fl
                  \/ \E n2 : NodeOf(h, m, n2) /\ g.fl = Put(h, m, n2)
<1>1. DOMAIN n = {"state", "got", "seq", "held", "count"}
  BY DEF IsFlight
<1>2. /\ DOMAIN now = DOMAIN n /\ now.seq = n.seq
      /\ now.got \subseteq n.got \cup m.part
      /\ now.state = n.state
      /\ now.state = "complete" => now.got = n.got
  BY <1>1
<1>3. NodeOf(h, m, n) /\ NodeOf(h, m, bad) /\ NodeOf(h, m, now)
  BY <1>1, <1>2 DEF NodeOf, Old
<1> HIDE DEF n, now, bad
<1>4. ASSUME Whole(m.type, now.got) PROVE NodeOf(h, m, done)
  <2>1. DOMAIN done = DOMAIN n /\ done.seq = n.seq /\ done.got = now.got
    BY <1>1, <1>2 DEF Counted
  <2> HIDE DEF done
  <2> QED
    BY <2>1, <1>1, <1>2, <1>4 DEF NodeOf, Old, Whole, n
<1> HIDE DEF done
<1>5. \A n2, s : NodeOf(h, m, n2) => Good(With(n2, s))
  <2> TAKE n2, s
  <2> HAVE NodeOf(h, m, n2)
  <2> DEFINE g == With(n2, s)
             fl == Put(h, m, n2)
             nodes == [h.fl.nodes EXCEPT ![m.type] = n2]
  <2>1. /\ IsHandler(g) /\ g.chip = h.chip /\ g.rseq = h.rseq /\ g.flight = h.flight
        /\ g.rl = h.rl /\ g.fl = [h.fl EXCEPT !.nodes = nodes]
    BY DEF IsHandler
  <2>2. nodes = AddNode(h.fl.nodes, m.type, n2)
    BY DEF AddNode
  <2> HIDE DEF nodes, g
  <2>3. g.fl = fl
    BY <2>1, <2>2 DEF Put
  <2>4. Good(g)
    BY <2>1, <2>3
  <2> QED
    BY <2>4 DEF g
<1>6. Good([h EXCEPT !.status = "malloc"])
  BY DEF IsHandler
<1>7. \A g, o : Good(g) => Good([g EXCEPT !.opt = o])
  BY DEF IsHandler
<1> DEFINE g1 == [h EXCEPT !.status = "malloc"]
           g2 == With(bad, "badseq")
           g3 == With(now, "incomplete")
           g4 == With(done, IF LimitReached(now) THEN "maxcount" ELSE "ok")
           opt == Noted(h.opt, m.type)
           g5 == [g4 EXCEPT !.opt = opt]
<1>8. b = g1 \/ b = g2 \/ b = g3 \/ (Whole(m.type, now.got) /\ b = g5)
  BY DEF CheckAndBuffer, IsHandler, n, now, bad, done
<1> HIDE DEF Good, b
<1>9. Good(g2) /\ Good(g3)
  BY <1>3, <1>5
<1>10. ASSUME Whole(m.type, now.got) PROVE Good(g5)
  <2>1. Good(g4)
    BY <1>4, <1>5, <1>10
  <2> HIDE DEF g4
  <2> QED
    BY <1>7, <2>1
<1>11. Good(b)
  BY <1>6, <1>8, <1>9, <1>10
<1> QED
  BY <1>11 DEF Good, b

(* What Buffer makes of a flight. *)
Buffered(h, b, f, m) ==
    /\ Buffers(h, b, m)
    /\ b.flight \in {h.flight, f} /\ b.rl = h.rl
    /\ m.type \in DOMAIN b.fl.nodes => NodeOf(h, m, b.fl.nodes[m.type])
    /\ b.status \notin {"maxcount", "malloc"} => m.type \in DOMAIN b.fl.nodes

(* Buffer changes the node of the message and nothing of the others. *)
LEMMA BufferDoes ==
    ASSUME NEW h, IsHandler(h), IsFlight(h.fl), NEW f, NEW m, NEW fault
    PROVE  Buffered(h, Buffer(h, f, m, fault), f, m)
<1> DEFINE g == Buffer(h, f, m, fault)
           old == m.type \in DOMAIN h.fl.nodes
           Good(b) ==
               /\ IsHandler(b) /\ b.chip = h.chip /\ b.rseq = h.rseq /\ b.flight \in {h.flight, f}
               /\ b.rl = h.rl
               /\ \/ b.fl = h.fl /\ (old \/ b.status = "malloc")
                  \/ \E n2 : NodeOf(h, m, n2) /\ b.fl = Put(h, m, n2)
<1>1. ASSUME old PROVE Good(g)
  <2> DEFINE b == CheckAndBuffer(h, m, fault)
             b2 == [b EXCEPT !.flight = f]
  <2>1. g = b \/ g = b2
    BY <1>1 DEF Buffer
  <2>2. Good(b)
    BY <1>1, CheckAndBufferDoes
  <2> HIDE DEF b, g
  <2>3. Good(b2)
    BY <2>2, <1>1 DEF IsHandler
  <2> HIDE DEF Good
  <2> QED
    BY <2>1, <2>2, <2>3
<1>2. ASSUME ~old PROVE Good(g)
  <2> DEFINE n == IF m.type = "ccs" THEN CipherSpecNode ELSE NewNode(m)
             whole == n.state = "complete"
             nodes == AddNode(h.fl.nodes, m.type, n)
             opt == IF whole THEN Noted(h.opt, m.type) ELSE h.opt
             status == IF whole THEN "ok" ELSE "incomplete"
             g1 == [h EXCEPT !.flight = f, !.status = "malloc"]
             g2 == [h EXCEPT !.flight = f, !.fl.nodes = nodes, !.opt = opt, !.status = status]
  <2>1. g = g1 \/ g = g2
    BY <1>2 DEF Buffer
  <2>2. NodeOf(h, m, n)
    <3>1. CASE m.type = "ccs"
      BY <1>2, <3>1 DEF NodeOf, CipherSpecNode
    <3>2. CASE m.type # "ccs"
      BY <1>2, <3>2 DEF NodeOf, Old, NewNode, Whole
    <3> QED
      BY <3>1, <3>2
  <2>3. Good(g1)
    BY DEF IsHandler
  <2> HIDE DEF n, opt, status, g
  <2>4. g2.fl = [h.fl EXCEPT !.nodes = nodes]
    BY DEF IsHandler
  <2>5. /\ IsHandler(g2) /\ g2.chip = h.chip /\ g2.rseq = h.rseq /\ g2.flight = f
        /\ g2.rl = h.rl
    BY DEF IsHandler
  <2> HIDE DEF g1, g2
  <2>6. Good(g2)
    BY <2>2, <2>4, <2>5 DEF Put
  <2> HIDE DEF Good
  <2> QED
    BY <2>1, <2>3, <2>6
<1>3. Good(g)
  BY <1>1, <1>2
<1> HIDE DEF g
<1>4. CASE g.fl = h.fl /\ (old \/ g.status = "malloc")
  <2>1. Buffers(h, g, m)
    BY <1>3, <1>4 DEF Buffers
  <2>2. old => NodeOf(h, m, g.fl.nodes[m.type])
    BY <1>4 DEF NodeOf, Old, IsFlight
  <2> QED
    BY <1>3, <1>4, <2>1, <2>2 DEF Buffered, g
<1>5. CASE \E n2 : NodeOf(h, m, n2) /\ g.fl = Put(h, m, n2)
  <2>1. PICK n2 : NodeOf(h, m, n2) /\ g.fl = Put(h, m, n2)
    BY <1>5
  <2> HIDE DEF old
  <2>2. IsHandler(g) /\ g.chip = h.chip /\ g.rseq = h.rseq
    BY <1>3
  <2>3. /\ Buffers(h, g, m)
        /\ m.type \in DOMAIN g.fl.nodes /\ g.fl.nodes[m.type] = n2
    BY <2>1, <2>2, NodePut
  <2> QED
    BY <1>3, <2>1, <2>3 DEF Buffered, g
<1> QED
  BY <1>3, <1>4, <1>5

(* What giving a flight to the chip does. *)
Given(h, g) ==
    /\ IsHandler(g) /\ IsFlight(g.fl) /\ g.fl.id = h.fl.id /\ g.flight = h.flight /\ g.rl = h.rl
    /\ DOMAIN g.fl.nodes = DOMAIN h.fl.nodes
    /\ g.status = "ok" => g.chip = Append(h.chip, h.fl.id) /\ g.rseq = LastSeq(h.fl)
    /\ g.status # "ok" =>
          /\ g.chip = h.chip /\ g.rseq = h.rseq /\ g.fl.nodes = h.fl.nodes
          /\ g.fl.state = "received" /\ g.status \in Leaves

(* The flight is the chip's last one when the chip took it. *)
LEMMA GiveToChipDoes ==
    ASSUME NEW h, IsHandler(h), IsFlight(h.fl), NEW fault
    PROVE  Given(h, GiveToChip(h, fault))
<1> DEFINE nodes == [t \in DOMAIN h.fl.nodes |-> [h.fl.nodes[t] EXCEPT !.state = "processed"]]
           chip == Append(h.chip, h.fl.id)
           rseq == LastSeq(h.fl)
           status == IF h.fl.id = 6 THEN fault ELSE "chip"
           fails == fault \in {"chip", "interr", "hserr"}
           given == [h EXCEPT !.fl.state = "received", !.chip = chip]
           g1 == [h EXCEPT !.fl.state = "received", !.status = status]
           g2 == [given EXCEPT !.fl.nodes = nodes, !.fl.state = "processed", !.rseq = rseq,
                               !.status = "ok"]
           g == GiveToChip(h, fault)
<1>1. g = IF fails THEN g1 ELSE g2
  BY DEF GiveToChip, IsHandler
<1>2. /\ DOMAIN nodes = DOMAIN h.fl.nodes
      /\ \A t \in DOMAIN nodes : DOMAIN nodes[t] = {"state", "got", "seq", "held", "count"}
  BY DEF IsFlight
<1>3. fails => status \in Leaves \ {"ok"}
  BY DEF Leaves
<1> HIDE DEF nodes, chip, rseq, status, g
<1>4. ASSUME fails PROVE Given(h, g)
  <2>1. g = g1
    BY <1>1, <1>4
  <2>2. /\ IsHandler(g) /\ g.chip = h.chip /\ g.rseq = h.rseq /\ g.flight = h.flight /\ g.rl = h.rl
        /\ g.fl = [h.fl EXCEPT !.state = "received"] /\ g.status = status
    BY <2>1 DEF IsHandler
  <2>3. g.fl.nodes = h.fl.nodes /\ g.fl.id = h.fl.id /\ g.fl.state = "received" /\ IsFlight(g.fl)
    BY <2>2 DEF IsFlight
  <2> QED
    BY <1>3, <1>4, <2>2, <2>3 DEF Given
<1>5. ASSUME ~fails PROVE Given(h, g)
  <2>1. g = g2
    BY <1>1, <1>5
  <2>2. /\ IsHandler(g) /\ g.chip = chip /\ g.rseq = rseq /\ g.flight = h.flight /\ g.rl = h.rl
        /\ g.fl = [h.fl EXCEPT !.state = "processed", !.nodes = nodes] /\ g.status = "ok"
    BY <2>1 DEF IsHandler, IsFlight
  <2>3. g.fl.nodes = nodes /\ g.fl.id = h.fl.id /\ IsFlight(g.fl)
    BY <1>2, <2>2 DEF IsFlight
  <2> QED
    BY <1>2, <2>2, <2>3 DEF Given, chip, rseq
<1> QED
  BY <1>4, <1>5 DEF g

(* Clearing keeps the shape of a flight. *)
LEMMA ClearDoes ==
    ASSUME NEW fl, IsFlight(fl)
    PROVE  /\ IsFlight(ClearMessages(fl)) /\ ClearMessages(fl).id = fl.id
           /\ ClearMessages(fl).state = fl.state
           /\ DOMAIN ClearMessages(fl).nodes = DOMAIN fl.nodes
BY DEF ClearMessages, IsFlight

(* A message of a record taken: ids are the records taken so far. *)
Brings(m, last, ids) ==
    /\ m.type = "ccs" => 6 \in srv.sent
    /\ InFlight(4, m.type) =>
          /\ last = 5 => Two
          /\ \E d \in Hellos : \E i \in DOMAIN Packing : \E j \in DOMAIN Packing[i] :
             \E k \in DOMAIN Packing[i][j] : m = Message(i, j, k) /\ IdOfFour(d, i, j) \in ids
    /\ InFlight(2, m.type) => m.seq \in Int

(* A flight listed while last is the last one the client sent. *)
FlightHas(fl, last, ids, server, status) ==
    /\ IsFlight(fl)
    /\ fl.id = 4 /\ last \in 0 .. 3 =>
          /\ Gathers(fl, ids)
          /\ fl.state = "ready" \/ (fl.state = "received" /\ status \in Leaves)
    /\ fl.id = 6 => IsSix(fl, server)

(* A flight processed, the client's last one being last. *)
Over(h, last, ids) ==
    /\ IsFlight(h.fl)
    /\ h.fl.id = 2 => last # 5 /\ ChipHas(h.chip, 2) /\ h.rseq \in Int
    /\ h.fl.id = 4 => ChipHas(h.chip, 4) /\ Taken4(h.rseq, ids) /\ (last = 5 => Two)
    /\ h.fl.id = 6 => last = 5 /\ ChipHas(h.chip, 6) /\ h.rl.server # 0 /\ 6 \in srv.sent

(* What the handler of a flight leaves: the flight processed, or gathering   *)
(* still and the chip not given it.                                          *)
Handled(h, g, last, ids) ==
    /\ g.status = "ok" => Over(g, last, ids)
    /\ g.status # "ok" =>
          /\ g.rseq = h.rseq /\ g.chip = h.chip
          /\ FlightHas(g.fl, last, ids, g.rl.server, g.status)
          /\ last = 5 => g.flight \in {5, 6, h.flight} \/ Two

(* The chip takes one flight more. *)
LEMMA ChipTakes ==
    /\ \A chip, last : ChipHas(chip, last) /\ last \in {1, 3} => ChipHas(Append(chip, 2), 2)
    /\ \A chip, last : ChipHas(chip, last) /\ last \in {1, 3} => ChipHas(Append(chip, 4), 4)
    /\ \A chip : ChipHas(chip, 5) => ChipHas(Append(chip, 6), 6)
    /\ \A chip, last, next :
          /\ ChipHas(chip, last)
          /\ (last \in 0 .. 3 /\ next \in 0 .. 3) \/ (last \in {4, 5} /\ next \in {4, 5})
          => ChipHas(chip, next)
<1>1. ASSUME NEW chip, NEW last \in {1, 3}, ChipHas(chip, last)
      PROVE  ChipHas(Append(chip, 2), 2) /\ ChipHas(Append(chip, 4), 4)
  <2>1. chip \in Seq(Nat) /\ \A i \in 1 .. Len(chip) : chip[i] = 2
    BY <1>1 DEF ChipHas
  <2>2. ASSUME NEW f \in Nat
        PROVE  /\ Append(chip, f) \in Seq(Nat) /\ Len(Append(chip, f)) = Len(chip) + 1
               /\ Append(chip, f)[Len(chip) + 1] = f
               /\ \A i \in 1 .. Len(chip) : Append(chip, f)[i] = 2
    BY <2>1
  <2>3. ChipHas(Append(chip, 2), 2)
    <3> DEFINE c == Append(chip, 2)
    <3>1. c \in Seq(Nat) /\ \A i \in 1 .. Len(c) : c[i] = 2
      BY <2>1, <2>2
    <3> HIDE DEF c
    <3>2. Len(c) \in 0 .. Len(c)
      BY <3>1
    <3>3. ChipHas(c, 2)
      BY <3>1, <3>2 DEF ChipHas
    <3> QED
      BY <3>3 DEF c
  <2>4. ChipHas(Append(chip, 4), 4)
    <3> DEFINE c == Append(chip, 4)
    <3>1. /\ c \in Seq(Nat) /\ Len(c) = Len(chip) + 1 /\ c[Len(chip) + 1] = 4
          /\ \A i \in 1 .. Len(chip) : c[i] = 2
      BY <2>1, <2>2
    <3> HIDE DEF c
    <3>2. Len(chip) \in 0 .. Len(c)
      BY <2>1, <3>1
    <3>3. ChipHas(c, 4)
      BY <3>1, <3>2 DEF ChipHas
    <3> QED
      BY <3>3 DEF c
  <2> QED
    BY <2>3, <2>4
<1>2. ASSUME NEW chip, ChipHas(chip, 5) PROVE ChipHas(Append(chip, 6), 6)
  <2> DEFINE c == Append(chip, 6)
  <2>1. PICK k \in 0 .. Len(chip) :
           /\ \A i \in 1 .. k : chip[i] = 2
           /\ Len(chip) = k + 1 /\ chip[k + 1] = 4
    BY <1>2 DEF ChipHas
  <2>2. chip \in Seq(Nat)
    BY <1>2 DEF ChipHas
  <2>3. /\ c \in Seq(Nat) /\ Len(c) = Len(chip) + 1 /\ c[Len(chip) + 1] = 6
        /\ \A i \in 1 .. Len(chip) : c[i] = chip[i]
    BY <2>2
  <2> HIDE DEF c
  <2>4. Len(chip) \in Nat
    BY <2>2
  <2>5. k \in 0 .. Len(c) /\ (\A i \in 1 .. k : c[i] = 2) /\ Len(c) = k + 2 /\ c[k + 1] = 4
        /\ c[k + 2] = 6
    BY <2>1, <2>3, <2>4
  <2>6. ChipHas(c, 6)
    BY <2>3, <2>5 DEF ChipHas
  <2> QED
    BY <2>6 DEF c
<1>3. ASSUME NEW chip, NEW last, NEW next, ChipHas(chip, last),
             (last \in 0 .. 3 /\ next \in 0 .. 3) \/ (last \in {4, 5} /\ next \in {4, 5})
      PROVE  ChipHas(chip, next)
  <2>1. CASE last \in 0 .. 3 /\ next \in 0 .. 3
    BY <1>3, <2>1 DEF ChipHas
  <2>2. CASE last \in {4, 5} /\ next \in {4, 5}
    BY <1>3, <2>2 DEF ChipHas
  <2> QED
    BY <1>3, <2>1, <2>2
<1> QED
  BY <1>1, <1>2, <1>3

(* The HelloVerifyRequest is all of flight 2. *)
LEMMA TwoMessages ==
    /\ DOMAIN Messages(2) = {1} /\ Messages(2)[1] = "HelloVerifyRequest"
    /\ \A t : InFlight(2, t) <=> t = "HelloVerifyRequest"
<1>1. Messages(2) = <<"HelloVerifyRequest">>
  BY DEF Messages
<1> QED
  BY <1>1 DEF InFlight

(* A message of flight 2: the number of a flight processed is its number. *)
LEMMA Flight2Does ==
    ASSUME NEW h0, IsHandler(h0), h0.fl.id = 2, NEW last \in {1, 3}, NEW ids,
           FlightHas(h0.fl, last, ids, h0.rl.server, h0.status), ChipHas(h0.chip, last),
           NEW m, Brings(m, last, ids), NEW fault
    PROVE  Handled(h0, Flight2Handler(h0, last, m, fault), last, ids)
<1> DEFINE h == IF h0.fl.state = "processed" THEN [h0 EXCEPT !.fl.state = "rereceive"] ELSE h0
           b == Buffer(h, 2, m, fault)
           done == GiveToChip(b, fault)
           cleared == [done EXCEPT !.fl = ClearMessages(@)]
           g == Flight2Handler(h0, last, m, fault)
           Same(x) ==
               /\ IsHandler(x) /\ IsFlight(x.fl) /\ x.fl.id = 2
               /\ x.chip = h0.chip /\ x.rseq = h0.rseq
<1>0. last \in 1 .. 3 /\ last # 5
  OBVIOUS
<1>1. Same(h)
  BY DEF FlightHas, IsHandler, IsFlight
<1> HIDE DEF h
<1>2. Buffered(h, b, 2, m)
  BY <1>1, BufferDoes
<1>3. Same(b)
  BY <1>1, <1>2 DEF Buffered, Buffers
<1>4. \A x, s : Same(x) => Same(Status(x, s)) /\ Status(x, s).status = s
  BY DEF Status, IsHandler
<1>5. \A x : Same(x) /\ x.status # "ok" => Handled(h0, x, last, ids)
  BY <1>0 DEF Handled, FlightHas
<1> HIDE DEF b
<1>6. Given(b, done)
  BY <1>3, GiveToChipDoes
<1> HIDE DEF done
<1>7. CASE ~InFlight(2, m.type)
  <2>1. g = Status(h, "notinflight")
    BY <1>7 DEF Flight2Handler, h
  <2> HIDE DEF g, Same
  <2> QED
    BY <1>1, <1>4, <1>5, <2>1 DEF g
<1>8. CASE InFlight(2, m.type) /\ ~SeqOfFlight2(h, m)
  <2>1. g = Status(h, "badseq")
    BY <1>0, <1>8 DEF Flight2Handler, h
  <2> HIDE DEF g, Same
  <2> QED
    BY <1>1, <1>4, <1>5, <2>1 DEF g
<1>9. CASE InFlight(2, m.type) /\ SeqOfFlight2(h, m)
  <2>1. g = IF b.status \in {"maxcount", "malloc"} THEN b
            ELSE IF b.fl.nodes[m.type].state # "complete" THEN Status(b, "rxing")
            ELSE IF done.status # "ok" THEN done ELSE cleared
    BY <1>0, <1>9 DEF Flight2Handler, h, b, done
  <2>2. CASE b.status \in {"maxcount", "malloc"}
    <3>1. g = b /\ b.status # "ok"
      BY <2>1, <2>2
    <3> QED
      BY <1>3, <1>5, <3>1
  <2>3. CASE b.status \notin {"maxcount", "malloc"} /\ b.fl.nodes[m.type].state # "complete"
    <3>1. g = Status(b, "rxing")
      BY <2>1, <2>3
    <3> HIDE DEF g, Same
    <3> QED
      BY <1>3, <1>4, <1>5, <3>1 DEF g
  <2>4. CASE b.status \notin {"maxcount", "malloc"} /\ b.fl.nodes[m.type].state = "complete"
             /\ done.status # "ok"
    <3>1. g = done
      BY <2>1, <2>4
    <3>2. Same(done)
      BY <1>3, <1>6, <2>4 DEF Given
    <3> QED
      BY <1>5, <2>4, <3>1, <3>2
  <2>5. CASE b.status \notin {"maxcount", "malloc"} /\ b.fl.nodes[m.type].state = "complete"
             /\ done.status = "ok"
    <3>1. g = cleared
      BY <2>1, <2>5
    <3>2. m.type = "HelloVerifyRequest" /\ m.type \in DOMAIN b.fl.nodes
      BY <1>2, <1>9, <2>5, TwoMessages DEF Buffered
    <3>3. b.fl.nodes[m.type].seq \in Int
      <4>1. NodeOf(h, m, b.fl.nodes[m.type])
        BY <1>2, <3>2 DEF Buffered
      <4>2. m.seq \in Int
        BY <1>9 DEF Brings
      <4> QED
        BY <1>9, <3>2, <4>1, <4>2 DEF NodeOf, SeqOfFlight2
    <3>4. LastSeq(b.fl) = b.fl.nodes[m.type].seq
      <4>1. Come(b.fl) = {1}
        BY <1>3, <3>2, TwoMessages DEF Come
      <4>2. Max({1}) = 1
        <5>1. Max({1}) \in {1}
          BY MaxFacts
        <5> QED
          BY <5>1
      <4>3. LastSeq(b.fl) = Node(b.fl, 1).seq
        BY <4>1, <4>2 DEF LastSeq
      <4>4. Node(b.fl, 1) = b.fl.nodes[m.type]
        BY <1>3, <3>2, TwoMessages DEF Node
      <4> QED
        BY <4>3, <4>4
    <3>5. /\ IsHandler(done) /\ IsFlight(done.fl) /\ done.fl.id = 2
          /\ done.chip = Append(h0.chip, 2) /\ done.rseq \in Int
      BY <1>3, <1>6, <2>5, <3>3, <3>4 DEF Given
    <3>6. /\ g.fl = ClearMessages(done.fl) /\ g.chip = done.chip /\ g.rseq = done.rseq
          /\ g.status = done.status
      BY <3>1, <3>5 DEF IsHandler
    <3>7. ChipHas(done.chip, 2)
      BY <3>5, ChipTakes
    <3>8. IsFlight(g.fl) /\ g.fl.id = 2
      BY <3>5, <3>6, ClearDoes
    <3> HIDE DEF g
    <3>9. Over(g, last, ids)
      BY <1>0, <3>5, <3>6, <3>7, <3>8 DEF Over
    <3>10. Handled(h0, g, last, ids)
      BY <2>5, <3>6, <3>9 DEF Handled
    <3> QED
      BY <3>10 DEF g
  <2> QED
    BY <2>2, <2>3, <2>4, <2>5
<1> QED
  BY <1>7, <1>8, <1>9

-----------------------------------------------------------------------------
(* Flight 4 *)

(* A piece of flight 4 is in one place of its packing. *)
LEMMA PackingFacts ==
    ASSUME NEW i \in DOMAIN Packing, NEW j \in DOMAIN Packing[i], NEW k \in DOMAIN Packing[i][j]
    PROVE  LET e == Packing[i][j][k]
           IN /\ InFlight(4, e[1]) /\ e[1] # "ccs" /\ e[2] # {} /\ e[2] \subseteq Pieces[e[1]]
              /\ \A a \in DOMAIN Packing : \A b \in DOMAIN Packing[a] : \A c \in DOMAIN Packing[a][b] :
                    LET f == Packing[a][b][c]
                    IN e[1] = f[1] /\ e[2] \cap f[2] # {} => i = a /\ j = b /\ k = c
              /\ Message(i, j, k).type = e[1] /\ Message(i, j, k).part = e[2]
              /\ Message(i, j, k).seq = Number(Position(4, e[1]))
              /\ 1 \in DOMAIN Packing[i][j]
<1> DEFINE e == Packing[i][j][k]
<1>1. InFlight(4, e[1]) /\ e[2] # {} /\ e[2] \subseteq Pieces[e[1]]
  BY PackingAssumption
<1>2. ASSUME NEW a \in DOMAIN Packing, NEW b \in DOMAIN Packing[a], NEW c \in DOMAIN Packing[a][b],
             e[1] = Packing[a][b][c][1], e[2] \cap Packing[a][b][c][2] # {}
      PROVE  i = a /\ j = b /\ k = c
  <2>1. <<i, j, k>> = <<a, b, c>>
    BY <1>2, PackingAssumption
  <2> QED
    BY <2>1
<1>3. e[1] # "ccs"
  BY <1>1, FourPlaces DEF FourTypes
<1>4. 1 \in DOMAIN Packing[i][j]
  <2>2. Packing[i] \in Seq(Seq(STRING \X SUBSET Nat))
    BY HandshakeAssumption
  <2>3. Packing[i][j] \in Seq(STRING \X SUBSET Nat)
    BY <2>2
  <2>4. Packing[i][j] # << >>
    BY PackingAssumption
  <2> QED
    BY <2>3, <2>4
<1>5. /\ Message(i, j, k).type = e[1] /\ Message(i, j, k).part = e[2]
      /\ Message(i, j, k).seq = Number(Position(4, e[1]))
  BY DEF Message
<1> QED
  BY <1>1, <1>2, <1>3, <1>4, <1>5

(* A message buffered keeps what the flight gathers. *)
LEMMA BufferGathers ==
    ASSUME NEW h, IsHandler(h), NEW ids, Gathers(h.fl, ids), NEW m, InFlight(4, m.type),
           NEW last, Brings(m, last, ids), NEW b, Buffered(h, b, 4, m)
    PROVE  Gathers(b.fl, ids) /\ Hellos # {}
<1>1. PICK d \in Hellos, i \in DOMAIN Packing : \E j \in DOMAIN Packing[i] :
         \E k \in DOMAIN Packing[i][j] : m = Message(i, j, k) /\ IdOfFour(d, i, j) \in ids
  BY DEF Brings
<1>2. PICK j \in DOMAIN Packing[i] :
         \E k \in DOMAIN Packing[i][j] : m = Message(i, j, k) /\ IdOfFour(d, i, j) \in ids
  BY <1>1
<1>3. PICK k \in DOMAIN Packing[i][j] : m = Message(i, j, k) /\ IdOfFour(d, i, j) \in ids
  BY <1>2
<1> DEFINE e == Packing[i][j][k]
           nodes == b.fl.nodes
           old == h.fl.nodes
<1>4. m.type = e[1] /\ m.part = e[2] /\ m.seq = Number(Position(4, e[1])) /\ m.type # "ccs"
  BY <1>3, PackingFacts
<1>5. /\ DOMAIN old \subseteq DOMAIN nodes /\ DOMAIN nodes \subseteq DOMAIN old \cup {m.type}
      /\ \A t \in DOMAIN old : t # m.type => nodes[t] = old[t]
  BY DEF Buffered, Buffers
<1>6. m.type \in DOMAIN nodes => NodeOf(h, m, nodes[m.type])
  BY DEF Buffered
<1>7. /\ \A t \in DOMAIN old :
            /\ InFlight(4, t)
            /\ old[t].seq = Number(Position(4, t))
            /\ old[t].state = "complete" => old[t].got = Pieces[t]
      /\ \/ Two
         \/ \A d2 \in Hellos : \A a \in DOMAIN Packing : \A a2 \in DOMAIN Packing[a] :
               \A a3 \in DOMAIN Packing[a][a2] :
                  LET e2 == Packing[a][a2][a3]
                  IN e2[1] \in DOMAIN old /\ e2[2] \cap old[e2[1]].got # {} =>
                        IdOfFour(d2, a, a2) \in ids
  BY DEF Gathers
<1> HIDE DEF nodes, old, e
<1>8. ASSUME NEW t \in DOMAIN nodes
      PROVE  /\ InFlight(4, t) /\ nodes[t].seq = Number(Position(4, t))
             /\ nodes[t].state = "complete" => nodes[t].got = Pieces[t]
  <2>1. CASE t # m.type
    BY <1>5, <1>7, <2>1
  <2>2. CASE t = m.type
    <3>1. NodeOf(h, m, nodes[t])
      BY <1>6, <2>2
    <3>2. nodes[t].seq = Number(Position(4, t))
      BY <1>4, <1>7, <2>2, <3>1 DEF NodeOf, old
    <3>3. nodes[t].state = "complete" => nodes[t].got = Pieces[t]
      BY <1>4, <1>7, <2>2, <3>1 DEF NodeOf, old
    <3> QED
      BY <2>2, <3>2, <3>3
  <2> QED
    BY <2>1, <2>2
<1>9. ASSUME ~Two, NEW d2 \in Hellos, NEW a \in DOMAIN Packing, NEW a2 \in DOMAIN Packing[a],
             NEW a3 \in DOMAIN Packing[a][a2], Packing[a][a2][a3][1] \in DOMAIN nodes,
             Packing[a][a2][a3][2] \cap nodes[Packing[a][a2][a3][1]].got # {}
      PROVE  IdOfFour(d2, a, a2) \in ids
  <2> DEFINE e2 == Packing[a][a2][a3]
  <2>1. d2 = d
    BY <1>9 DEF Two
  <2> HIDE DEF e2
  <2>2. CASE e2[1] # m.type
    <3>1. e2[1] \in DOMAIN old /\ nodes[e2[1]] = old[e2[1]]
      BY <1>5, <1>9, <2>2 DEF e2
    <3> QED
      BY <1>7, <1>9, <3>1 DEF e2
  <2>3. CASE e2[1] = m.type
    <3>1. nodes[m.type].got \subseteq Old(h, m) \cup m.part
      BY <1>4, <1>6, <1>9, <2>3 DEF NodeOf, e2
    <3>2. PICK x \in e2[2] : x \in Old(h, m) \cup m.part
      BY <1>9, <2>3, <3>1 DEF e2
    <3>3. CASE x \in Old(h, m)
      <4>1. e2[1] \in DOMAIN old /\ x \in old[e2[1]].got
        BY <2>3, <3>3 DEF Old, old
      <4>2. e2[2] \cap old[e2[1]].got # {}
        BY <3>2, <4>1
      <4> QED
        BY <1>7, <1>9, <4>1, <4>2 DEF e2
    <3>4. CASE x \in m.part
      <4>1. e[1] = e2[1] /\ e[2] \cap e2[2] # {}
        BY <1>4, <2>3, <3>2, <3>4
      <4>2. i = a /\ j = a2
        BY <4>1, PackingFacts DEF e, e2
      <4> QED
        BY <1>3, <2>1, <4>2
    <3> QED
      BY <3>2, <3>3, <3>4
  <2> QED
    BY <2>2, <2>3
<1>10. Gathers(b.fl, ids)
  BY <1>1, <1>8, <1>9 DEF Gathers, nodes
<1> QED
  BY <1>1, <1>10

(* A whole flight 4 has taken all of its records. *)
LEMMA WholeTaken ==
    ASSUME NEW fl, fl.id = 4, NEW ids, Gathers(fl, ids), Hellos # {},
           NEW rseq \in Int, FlightComplete(fl, rseq)
    PROVE  Taken4(LastSeq(fl), ids)
<1>1. \A i \in 1 .. 5 : (i = 4 /\ ~Asked) \/ i \in Complete(fl)
  BY FourWhole
<1>2. /\ Come(fl) \subseteq 1 .. 5 /\ Complete(fl) \subseteq Come(fl)
      /\ \A i \in Come(fl) : Node(fl, i).seq = Number(i)
      /\ \A i \in Complete(fl) : /\ Messages(4)[i] \in DOMAIN fl.nodes
                                 /\ fl.nodes[Messages(4)[i]].state = "complete"
  BY FourCome
<1>3. Max(Come(fl)) = 5
  <2>1. 5 \in Come(fl)
    BY <1>1, <1>2
  <2>2. Max(Come(fl)) \in Come(fl) /\ 5 <= Max(Come(fl))
    <3>1. Come(fl) \subseteq Int /\ Come(fl) # {} /\ \A x \in Come(fl) : x <= 5
      BY <1>2, <2>1
    <3> QED
      BY <2>1, <3>1, MaxFacts
  <2> QED
    BY <1>2, <2>2
<1>4. LastSeq(fl) = Number(5)
  <2>1. 5 \in Come(fl)
    BY <1>1, <1>2
  <2> QED
    BY <1>2, <1>3, <2>1 DEF LastSeq
<1>5. ASSUME ~Two, NEW d \in Hellos, NEW i \in DOMAIN Packing, NEW j \in DOMAIN Packing[i]
      PROVE  IdOfFour(d, i, j) \in ids
  <2>1. 1 \in DOMAIN Packing[i][j]
    <3>1. Packing[i] \in Seq(Seq(STRING \X SUBSET Nat))
      BY HandshakeAssumption
    <3>2. Packing[i][j] \in Seq(STRING \X SUBSET Nat)
      BY <3>1
    <3>3. Packing[i][j] # << >>
      BY PackingAssumption
    <3> QED
      BY <3>2, <3>3
  <2> DEFINE e == Packing[i][j][1]
             p == Position(4, e[1])
  <2>2. InFlight(4, e[1]) /\ e[2] # {} /\ e[2] \subseteq Pieces[e[1]]
    BY <2>1, PackingFacts
  <2>3. p \in 1 .. 5 /\ Messages(4)[p] = e[1]
    BY <2>2, FourPlaces
  <2>4. p = 4 => Asked
    BY <2>1, <2>3, FourMessages DEF Asked, Optional
  <2> HIDE DEF p
  <2>5. p \in Complete(fl)
    BY <1>1, <2>3, <2>4
  <2>6. e[1] \in DOMAIN fl.nodes /\ fl.nodes[e[1]].state = "complete"
    BY <1>2, <2>3, <2>5
  <2>7. fl.nodes[e[1]].got = Pieces[e[1]]
    BY <2>6 DEF Gathers
  <2>8. e[2] \cap fl.nodes[e[1]].got # {}
    BY <2>2, <2>7
  <2> QED
    BY <1>5, <2>1, <2>6, <2>8 DEF Gathers
<1> QED
  BY <1>4, <1>5 DEF Taken4

(* A message for a flight 4 that the client still waits for: the flight      *)
(* gathers it, or it is whole, and the chip takes it.                        *)
LEMMA FirstFlight4Does ==
    ASSUME NEW h, IsHandler(h), h.fl.id = 4, NEW last \in {1, 3}, NEW ids, h.fl.state = "ready",
           IsFlight(h.fl), Gathers(h.fl, ids), ChipHas(h.chip, last), h.rseq \in Int,
           NEW m, InFlight(4, m.type), Brings(m, last, ids), NEW fault
    PROVE  Handled(h, FirstFlight4(h, last, m, fault), last, ids)
<1> DEFINE b == Buffer(h, 4, m, fault)
           done == GiveToChip(b, fault)
           cleared == [done EXCEPT !.flight = 0, !.fl = ClearMessages(@)]
           g == FirstFlight4(h, last, m, fault)
           Same(x) ==
               /\ IsHandler(x) /\ IsFlight(x.fl) /\ x.fl.id = 4 /\ Gathers(x.fl, ids)
               /\ x.chip = h.chip /\ x.rseq = h.rseq
           Good(x) == Handled(h, x, last, ids)
<1>0. last \in 1 .. 5 /\ last # 5 /\ last \in 0 .. 3
  OBVIOUS
<1>1. \A x, s : Same(x) /\ x.fl.state = "ready" =>
                  Same(Status(x, s)) /\ Status(x, s).status = s /\ Status(x, s).fl.state = "ready"
  BY DEF Status, IsHandler
<1>2. \A x : Same(x) /\ x.status # "ok" /\ (x.fl.state = "ready" \/ (x.fl.state = "received" /\ x.status \in Leaves))
                => Good(x)
  BY <1>0 DEF Handled, FlightHas
<1>3. Same(h) /\ h.fl.state = "ready"
  OBVIOUS
<1>4. Buffered(h, b, 4, m)
  BY BufferDoes
<1> HIDE DEF b
<1>5. Same(b) /\ b.fl.state = "ready" /\ Hellos # {}
  BY <1>4, BufferGathers DEF Buffered, Buffers
<1>6. Given(b, done)
  BY <1>5, GiveToChipDoes
<1> HIDE DEF done
<1>7. g = IF ~SeqOfFlight4(h.rseq, m) THEN Status(h, "badseq")
          ELSE IF b.status \in {"maxcount", "malloc"} THEN b
          ELSE IF ~FlightComplete(b.fl, b.rseq) THEN Status(b, "rxing")
          ELSE IF done.status # "ok" THEN done
          ELSE cleared
  BY <1>0 DEF FirstFlight4, b, done
<1> HIDE DEF g
<1>8. Good(Status(h, "badseq")) /\ Good(Status(b, "rxing"))
  <2> HIDE DEF Same, Good
  <2> QED
    BY <1>1, <1>2, <1>3, <1>5
<1>9. b.status \in {"maxcount", "malloc"} => Good(b)
  <2> HIDE DEF Same, Good
  <2> QED
    BY <1>2, <1>5
<1>10. done.status # "ok" => Good(done)
  <2>1. ASSUME done.status # "ok" PROVE Same(done) /\ done.fl.state = "received" /\ done.status \in Leaves
    <3>1. done.fl.nodes = b.fl.nodes
      BY <1>6, <2>1 DEF Given
    <3>2. Gathers(done.fl, ids)
      BY <1>5, <3>1 DEF Gathers
    <3> QED
      BY <1>5, <1>6, <2>1, <3>2 DEF Given
  <2> HIDE DEF Same, Good
  <2> QED
    BY <1>2, <2>1
<1>11. ASSUME done.status = "ok", FlightComplete(b.fl, b.rseq) PROVE Good(cleared)
  <2>1. Taken4(LastSeq(b.fl), ids)
    BY <1>5, <1>11, WholeTaken
  <2>2. /\ IsHandler(done) /\ IsFlight(done.fl) /\ done.fl.id = 4
        /\ done.chip = Append(h.chip, 4) /\ Taken4(done.rseq, ids)
    BY <1>5, <1>6, <1>11, <2>1 DEF Given
  <2>3. ChipHas(done.chip, 4)
    BY <2>2, ChipTakes
  <2>4. /\ cleared.fl = ClearMessages(done.fl) /\ cleared.chip = done.chip
        /\ cleared.rseq = done.rseq /\ cleared.status = "ok"
    BY <1>11, <2>2 DEF IsHandler
  <2>5. IsFlight(cleared.fl) /\ cleared.fl.id = 4
    BY <2>2, <2>4, ClearDoes
  <2> HIDE DEF cleared
  <2>6. Over(cleared, last, ids)
    BY <1>0, <2>2, <2>3, <2>4, <2>5 DEF Over
  <2> QED
    BY <2>4, <2>6 DEF Handled
<1>12. Good(g)
  <2> HIDE DEF Good, Same, cleared
  <2> QED
    BY <1>7, <1>8, <1>9, <1>10, <1>11
<1> QED
  BY <1>12 DEF g

(* Flight 4 again when flight 5 has been sent: no number of it is awaited. *)
LEMMA AgainNumbers ==
    ASSUME NEW ids, NEW rseq, Taken4(rseq, ids), NEW m, InFlight(4, m.type), NEW last,
           Brings(m, last, ids)
    PROVE  ~SeqOfFlight4(rseq, m)
<1>1. PICK d \in Hellos, i \in DOMAIN Packing : \E j \in DOMAIN Packing[i] :
         \E k \in DOMAIN Packing[i][j] : m = Message(i, j, k) /\ IdOfFour(d, i, j) \in ids
  BY DEF Brings
<1>2. PICK j \in DOMAIN Packing[i] : \E k \in DOMAIN Packing[i][j] : m = Message(i, j, k)
  BY <1>1
<1>3. PICK k \in DOMAIN Packing[i][j] : m = Message(i, j, k)
  BY <1>2
<1> DEFINE place == Position(4, m.type)
           mandatory == Cardinality({x \in 1 .. place : ~Optional(Messages(4)[x])})
<1>4. m.seq = Number(place)
  BY <1>3, PackingFacts
<1>5. place \in 1 .. 5
  BY FourPlaces
<1>6. rseq = Number(5) /\ rseq \in Int /\ rseq >= 2 /\ m.seq \in Int /\ m.seq <= rseq
  BY <1>4, <1>5, FourNumbers DEF Taken4
<1>7. mandatory \in Nat /\ mandatory >= 1
  <2> DEFINE S == {x \in 1 .. place : ~Optional(Messages(4)[x])}
  <2>1. 1 \in S
    BY <1>5, FourMessages DEF Optional
  <2>2. IsFiniteSet(1 .. place)
    BY <1>5, FS_Interval
  <2>3. IsFiniteSet(S)
    BY <2>2, FS_Subset
  <2>4. Cardinality(S) \in Nat
    BY <2>3, FS_CardinalityType
  <2>5. Cardinality(S) # 0
    BY <2>1, <2>3, FS_EmptySet
  <2> QED
    BY <2>4, <2>5
<1> HIDE DEF place, mandatory
<1>8. m.seq # rseq + place /\ m.seq # rseq + mandatory
  BY <1>5, <1>6, <1>7
<1>9. SeqOfFlight4(rseq, m) => m.seq \in {rseq + place, rseq + mandatory}
  <2>1. rseq # -1
    BY <1>6
  <2> QED
    BY <2>1 DEF SeqOfFlight4, place, mandatory
<1> QED
  BY <1>8, <1>9

(* Flight 4 again: neither the chip nor the numbers change. *)
LEMMA Flight4AgainDoes ==
    ASSUME NEW h, IsHandler(h), h.fl.id = 4, IsFlight(h.fl), NEW m
    PROVE  LET g == Flight4Again(h, m)
           IN /\ IsHandler(g) /\ IsFlight(g.fl) /\ g.fl.id = 4
              /\ g.chip = h.chip /\ g.rseq = h.rseq
<1> DEFINE n == [h.fl.nodes[m.type] EXCEPT !.got = @ \cup m.part]
           n2 == IF Whole(m.type, n.got) THEN Counted([n EXCEPT !.state = "processed"]) ELSE n
           fl == MarkAgain(h.fl, m)
           marked == [h EXCEPT !.flight = 4, !.fl = fl]
           fl3 == [fl EXCEPT !.state = "processed"]
           fl2 == ClearMessages(fl3)
           cleared == [marked EXCEPT !.status = "ok", !.fl = fl2]
           Same(g) == IsHandler(g) /\ IsFlight(g.fl) /\ g.fl.id = 4 /\ g.chip = h.chip /\ g.rseq = h.rseq
           g == Flight4Again(h, m)
<1>1. Same(Status(h, "ignore"))
  BY DEF Status, IsHandler
<1>2. CASE ~SameMessage(h.fl, m)
  BY <1>1, <1>2 DEF Flight4Again
<1>3. CASE SameMessage(h.fl, m)
  <2>1. m.type \in DOMAIN h.fl.nodes
    BY <1>3 DEF SameMessage
  <2>2. DOMAIN n2 = {"state", "got", "seq", "held", "count"}
    BY <2>1 DEF IsFlight, Counted
  <2>3. fl = [h.fl EXCEPT !.nodes[m.type] = n2]
    BY DEF MarkAgain
  <2> HIDE DEF n2, fl
  <2>4. IsFlight(fl) /\ fl.id = 4
    <3>1. fl.nodes = [h.fl.nodes EXCEPT ![m.type] = n2] /\ DOMAIN fl = DOMAIN h.fl /\ fl.id = h.fl.id
      BY <2>3 DEF IsFlight
    <3> QED
      BY <2>2, <3>1 DEF IsFlight
  <2>5. IsFlight(fl3) /\ fl3.id = 4
    BY <2>4 DEF IsFlight
  <2> HIDE DEF fl3
  <2>6. IsFlight(fl2) /\ fl2.id = 4
    BY <2>5, ClearDoes
  <2>7. g = Status(marked, "maxcount") \/ g = cleared \/ g = Status(marked, "rxing")
    BY <1>3 DEF Flight4Again, fl, fl3, IsHandler
  <2> HIDE DEF fl2, g
  <2>8. Same(marked)
    BY <2>4 DEF IsHandler, IsFlight
  <2>9. Same(Status(marked, "maxcount")) /\ Same(Status(marked, "rxing"))
    BY <2>4 DEF IsHandler, Status, IsFlight
  <2>10. Same(cleared)
    BY <2>6 DEF IsHandler, IsFlight
  <2> HIDE DEF Same, cleared, marked
  <2>11. Same(g)
    BY <2>7, <2>9, <2>10
  <2> QED
    BY <2>11 DEF Same, g
<1> QED
  BY <1>2, <1>3

(* A message for flight 4. *)
LEMMA Flight4Does ==
    ASSUME NEW h0, IsHandler(h0), h0.fl.id = 4, NEW last \in {1, 3, 5}, NEW ids,
           FlightHas(h0.fl, last, ids, h0.rl.server, h0.status), h0.status \notin Leaves,
           ChipHas(h0.chip, last), h0.rseq \in Int, last = 5 => Taken4(h0.rseq, ids),
           NEW m, Brings(m, last, ids), NEW fault
    PROVE  Handled(h0, Flight4Handler(h0, last, m, fault), last, ids)
<1> DEFINE again == h0.fl.state \in {"processed", "rereceive"}
           h == IF again THEN [h0 EXCEPT !.fl.state = "rereceive"] ELSE h0
           other == m.type = "ccs" \/ ~InFlight(4, m.type) \/ h.rl.dec
           g == Flight4Handler(h0, last, m, fault)
           Same(x) ==
               /\ IsHandler(x) /\ IsFlight(x.fl) /\ x.fl.id = 4
               /\ x.chip = h0.chip /\ x.rseq = h0.rseq
<1>1. g = IF other THEN Status(h, "notinflight")
          ELSE IF again THEN Flight4Again(h, m) ELSE FirstFlight4(h, last, m, fault)
  BY DEF Flight4Handler
<1>2. CASE last \in {1, 3}
  <2>1. /\ Gathers(h0.fl, ids) /\ h0.fl.state = "ready" /\ ~again /\ IsFlight(h0.fl)
        /\ last \in 0 .. 3 /\ last # 5
    BY <1>2 DEF FlightHas
  <2>2. h = h0
    BY <2>1
  <2> HIDE DEF h
  <2>3. CASE other
    <3>1. g = Status(h0, "notinflight")
      BY <1>1, <2>2, <2>3
    <3>2. /\ g.fl = h0.fl /\ g.chip = h0.chip /\ g.rseq = h0.rseq /\ g.status = "notinflight"
      BY <3>1 DEF Status, IsHandler
    <3> HIDE DEF g
    <3>3. Handled(h0, g, last, ids)
      BY <2>1, <3>2 DEF Handled, FlightHas
    <3> QED
      BY <3>3 DEF g
  <2>4. CASE ~other
    <3>1. g = FirstFlight4(h0, last, m, fault) /\ InFlight(4, m.type)
      BY <1>1, <2>1, <2>2, <2>4
    <3>2. Handled(h0, FirstFlight4(h0, last, m, fault), last, ids)
      BY <1>2, <2>1, <3>1, FirstFlight4Does
    <3> QED
      BY <3>1, <3>2
  <2> QED
    BY <2>3, <2>4
<1>3. CASE last = 5
  <2>1. Same(h) /\ h.flight = h0.flight
    BY DEF FlightHas, IsHandler, IsFlight
  <2>2. ~(last \in 0 .. 3) /\ Taken4(h0.rseq, ids)
    BY <1>3
  <2> HIDE DEF h, again
  <2>3. CASE other
    <3>1. g = Status(h, "notinflight")
      BY <1>1, <2>3
    <3>2. Same(g) /\ g.flight = h0.flight /\ g.status = "notinflight"
      BY <2>1, <3>1 DEF Status, IsHandler
    <3> HIDE DEF g
    <3>3. Handled(h0, g, last, ids)
      BY <2>2, <3>2 DEF Handled, FlightHas
    <3> QED
      BY <3>3 DEF g
  <2>4. CASE ~other
    <3>1. InFlight(4, m.type) /\ Two
      BY <1>3, <2>4 DEF Brings
    <3>2. ChipHas(h0.chip, 4)
      BY <1>3, ChipTakes
    <3>3. Same(g)
      <4>1. CASE again
        BY <1>1, <2>1, <2>4, <4>1, Flight4AgainDoes
      <4>2. CASE ~again
        <5>1. g = FirstFlight4(h, last, m, fault)
          BY <1>1, <2>4, <4>2
        <5>2. ~SeqOfFlight4(h.rseq, m)
          BY <2>1, <2>2, <3>1, AgainNumbers
        <5>3. g = Status(h, "badseq")
          BY <1>3, <5>1, <5>2 DEF FirstFlight4
        <5> QED
          BY <2>1, <5>3 DEF Status, IsHandler
      <4> QED
        BY <4>1, <4>2
    <3> HIDE DEF g
    <3>4. Handled(h0, g, last, ids)
      BY <2>2, <3>1, <3>2, <3>3 DEF Handled, FlightHas, Over
    <3> QED
      BY <3>4 DEF g
  <2> QED
    BY <2>3, <2>4
<1> QED
  BY <1>2, <1>3

-----------------------------------------------------------------------------
(* Flight 6 *)

(* The cipher spec message and the Finished message are flight 6. *)
LEMMA SixMessages ==
    /\ Len(Messages(6)) = 2
    /\ \A t : InFlight(6, t) <=> t \in {"ccs", "Finished"}
<1>1. Messages(6) = <<"ccs", "Finished">>
  BY DEF Messages
<1>2. Len(Messages(6)) = 2 /\ DOMAIN Messages(6) = {1, 2} /\ Messages(6)[1] = "ccs"
      /\ Messages(6)[2] = "Finished"
  BY <1>1
<1> QED
  BY <1>2 DEF InFlight

(* A message for flight 6: the chip takes the flight only when the cipher    *)
(* spec message of the server has come.                                      *)
LEMMA Flight6Does ==
    ASSUME NEW h0, IsHandler(h0), h0.fl.id = 6, NEW ids, NEW last, last = 5,
           FlightHas(h0.fl, last, ids, h0.rl.server, h0.status), ChipHas(h0.chip, last),
           "server" \in DOMAIN h0.rl, h0.rl.server \in Nat,
           NEW m, Brings(m, last, ids), NEW fault
    PROVE  Handled(h0, Flight6Handler(h0, last, m, fault), last, ids)
<1> DEFINE h == IF m.type = "ccs" THEN [h0 EXCEPT !.rl = ChangeServerState(@)] ELSE h0
           b == Buffer(h, 6, m, fault)
           given == GiveToChip(b, fault)
           server == h.rl.server
           g == Flight6Handler(h0, last, m, fault)
           Same(x) ==
               /\ IsHandler(x) /\ IsFlight(x.fl) /\ x.fl.id = 6 /\ x.chip = h0.chip
               /\ x.rseq = h0.rseq /\ IsSix(x.fl, server) /\ x.rl.server = server
               /\ x.flight \in {6, h0.flight}
           Good(x) == Handled(h0, x, last, ids)
<1>1. /\ IsHandler(h) /\ IsFlight(h.fl) /\ h.fl = h0.fl /\ h.fl.id = 6 /\ h.chip = h0.chip
      /\ h.rseq = h0.rseq /\ h.flight = h0.flight
  BY DEF FlightHas, IsHandler
<1>2. /\ m.type = "ccs" => server # 0 /\ 6 \in srv.sent
      /\ m.type # "ccs" => server = h0.rl.server
  BY DEF Brings, ChangeServerState, IsHandler
<1>3. IsSix(h0.fl, h0.rl.server)
  BY DEF FlightHas
<1> HIDE DEF server, h
<1>4. IsSix(h.fl, server)
  BY <1>1, <1>2, <1>3 DEF IsSix
<1>5. Same(h)
  BY <1>1, <1>4 DEF server
<1>6. \A x, s : Same(x) => Same(Status(x, s)) /\ Status(x, s).status = s
  BY DEF Status, IsHandler
<1>7. \A x : Same(x) /\ x.status # "ok" => Good(x)
  <2> TAKE x
  <2> HAVE Same(x) /\ x.status # "ok"
  <2> QED
    BY DEF Handled, FlightHas
<1>8. Buffered(h, b, 6, m)
  BY <1>1, BufferDoes
<1> HIDE DEF b
<1>9. InFlight(6, m.type) => Same(b)
  <2>1. ASSUME InFlight(6, m.type) PROVE IsSix(b.fl, server)
    <3>1. m.type \in {"ccs", "Finished"}
      BY <2>1, SixMessages
    <3>2. DOMAIN b.fl.nodes \subseteq DOMAIN h.fl.nodes \cup {m.type}
      BY <1>8 DEF Buffered, Buffers
    <3> QED
      BY <1>2, <1>4, <3>1, <3>2 DEF IsSix
  <2> QED
    BY <1>1, <1>8, <2>1 DEF Buffered, Buffers, server
<1>10. InFlight(6, m.type) => Given(b, given)
  BY <1>9, GiveToChipDoes
<1> HIDE DEF given
<1>11. g \in {Status(h, "notinflight"), Status(h, "procflight"), Status(h, "badseq")}
       \/ /\ InFlight(6, m.type)
          /\ g = IF b.status \in {"maxcount", "malloc"} THEN b
                 ELSE IF ~Flight6Complete(b.fl) THEN Status(b, "rxing")
                 ELSE IF b.status # "ok" THEN b
                 ELSE given
  BY DEF Flight6Handler, b, given, h
<1> HIDE DEF g
<1>12. /\ Good(Status(h, "notinflight")) /\ Good(Status(h, "procflight"))
       /\ Good(Status(h, "badseq"))
  <2> HIDE DEF Same, Good
  <2> QED
    BY <1>5, <1>6, <1>7
<1>13. ASSUME InFlight(6, m.type) PROVE Good(Status(b, "rxing")) /\ (b.status # "ok" => Good(b))
  <2> HIDE DEF Same, Good
  <2> QED
    BY <1>6, <1>7, <1>9, <1>13
<1>14. ASSUME InFlight(6, m.type), Flight6Complete(b.fl) PROVE Good(given)
  <2>1. CASE given.status # "ok"
    <3>1. Same(given)
      BY <1>9, <1>10, <1>14, <2>1 DEF Given, IsSix
    <3> HIDE DEF Same, Good
    <3> QED
      BY <1>7, <2>1, <3>1
  <2>2. CASE given.status = "ok"
    <3>1. "ccs" \in DOMAIN b.fl.nodes
      <4> DEFINE D == DOMAIN b.fl.nodes
      <4>1. Cardinality(D) = 2
        BY <1>14, SixMessages DEF Flight6Complete
      <4>2. D \subseteq {"ccs", "Finished"}
        BY <1>9, <1>14 DEF IsSix
      <4> HIDE DEF D
      <4>3. ASSUME "ccs" \notin D PROVE FALSE
        <5>1. D = {} \/ D = {"Finished"}
          BY <4>2, <4>3
        <5>2. Cardinality({}) = 0 /\ Cardinality({"Finished"}) = 1
          BY FS_EmptySet, FS_Singleton
        <5> QED
          BY <4>1, <5>1, <5>2
      <4> QED
        BY <4>3 DEF D
    <3>2. server # 0 /\ 6 \in srv.sent
      BY <1>9, <1>14, <3>1 DEF IsSix
    <3>3. /\ given.chip = Append(h0.chip, 6) /\ given.fl.id = 6 /\ IsFlight(given.fl)
          /\ given.rl.server = server
      BY <1>9, <1>10, <1>14, <2>2 DEF Given
    <3>4. ChipHas(given.chip, 6)
      BY <3>3, ChipTakes
    <3>5. Over(given, last, ids)
      BY <3>2, <3>3, <3>4 DEF Over
    <3> QED
      BY <2>2, <3>5 DEF Handled
  <2> QED
    BY <2>1, <2>2
<1>15. Good(g)
  <2> HIDE DEF Good
  <2> QED
    BY <1>11, <1>12, <1>13, <1>14
<1> QED
  BY <1>15 DEF g

-----------------------------------------------------------------------------
(* Dispatch *)

(* A change of the cipher spec has come only from the server. *)
Cipher(q) ==
    /\ "server" \in DOMAIN q /\ q.server \in Nat
    /\ "ccs" \in DOMAIN q /\ (q.ccs => 6 \in srv.sent)

(* The handler while no flight has ended. *)
Going(h, last, ids) ==
    /\ Listing(h, last) /\ Cipher(h.rl)
    /\ h.rseq \in Int /\ ChipHas(h.chip, last)
    /\ \A i \in DOMAIN h.rf :
          FlightHas(h.rf[i], last, ids, h.rl.server, IF i = 1 THEN h.status ELSE "ignore")
    /\ last = 5 => Taken4(h.rseq, ids) /\ (h.flight \in {5, 6} \/ Two)

(* The handler when the flights have been through: one has ended, or none.   *)
Result(h, last, ids) ==
    IF h.status = "ok"
    THEN IsHandler(h) /\ h.rf = <<h.fl>> /\ Cipher(h.rl) /\ Over(h, last, ids)
    ELSE Going(h, last, ids)

(* A flight that has not gone to the chip waits, whatever the status is. *)
LEMMA FlightWaits ==
    ASSUME NEW fl, NEW last, NEW ids, NEW server, NEW s, s \notin Leaves,
           FlightHas(fl, last, ids, server, s), NEW s2
    PROVE  FlightHas(fl, last, ids, server, s2)
BY DEF FlightHas

(* The handlers of the three flights. *)
LEMMA FlightHandlerDoes ==
    ASSUME NEW last \in {1, 3, 5}, NEW ids, NEW h, IsHandler(h), h.fl.id \in FlightsOf(last),
           FlightHas(h.fl, last, ids, h.rl.server, h.status), h.status \notin Leaves,
           "server" \in DOMAIN h.rl, h.rl.server \in Nat, h.rseq \in Int, ChipHas(h.chip, last),
           last = 5 => Taken4(h.rseq, ids), NEW m, Brings(m, last, ids), NEW fault
    PROVE  Handled(h, FlightHandler(h, last, m, fault), last, ids)
<1>1. CASE h.fl.id = 2
  <2>1. last \in {1, 3}
    BY <1>1 DEF FlightsOf
  <2>2. FlightHandler(h, last, m, fault) = Flight2Handler(h, last, m, fault)
    BY <1>1 DEF FlightHandler
  <2>3. Handled(h, Flight2Handler(h, last, m, fault), last, ids)
    BY <1>1, <2>1, Flight2Does
  <2> QED
    BY <2>2, <2>3
<1>2. CASE h.fl.id = 4
  <2>1. FlightHandler(h, last, m, fault) = Flight4Handler(h, last, m, fault)
    BY <1>2 DEF FlightHandler
  <2>2. Handled(h, Flight4Handler(h, last, m, fault), last, ids)
    BY <1>2, Flight4Does
  <2> QED
    BY <2>1, <2>2
<1>3. CASE h.fl.id = 6
  <2>1. last = 5
    BY <1>3 DEF FlightsOf
  <2>2. FlightHandler(h, last, m, fault) = Flight6Handler(h, last, m, fault)
    BY <1>3 DEF FlightHandler
  <2>3. Handled(h, Flight6Handler(h, last, m, fault), last, ids)
    BY <1>3, <2>1, Flight6Does
  <2> QED
    BY <2>2, <2>3
<1> QED
  BY <1>1, <1>2, <1>3 DEF FlightsOf

(* One flight of the list is offered the message. *)
LEMMA OfferedDoes ==
    ASSUME hs.last \in {1, 3, 5}, NEW ids, NEW h, Going(h, hs.last, ids), h.status \notin Leaves,
           NEW i \in DOMAIN h.rf, NEW m, Brings(m, hs.last, ids), NEW fault
    PROVE  Result(Offered(Offer(h, i, m, fault), i), hs.last, ids)
<1> DEFINE last == hs.last
           fl == h.rf[i]
           h1 == [h EXCEPT !.fl = fl]
           g == FlightHandler(h1, last, m, fault)
           rf == IF g.status = "notinflight" THEN [g.rf EXCEPT ![i] = g.fl] ELSE <<g.fl>>
           o == [g EXCEPT !.rf = rf]
<1>0. Offered(Offer(h, i, m, fault), i) = o
  BY DEF Offered, Offer
<1>1. Listing(o, last)
  <2>1. Listing(h, last)
    BY DEF Going
  <2>2. AfterOffer(h, Offered(Offer(h, i, m, fault), i), last, i, m.type)
    BY <2>1, OfferedFacts
  <2> QED
    BY <1>0, <2>2 DEF AfterOffer
<1>2. "id" \in DOMAIN fl /\ fl.id \in FlightsOf(last)
  BY DEF Going, Listing, IsList
<1> HIDE DEF fl
<1>3. /\ IsHandler(h1) /\ h1.fl = fl /\ h1.rf = h.rf /\ h1.rl = h.rl /\ h1.chip = h.chip
      /\ h1.rseq = h.rseq /\ h1.flight = h.flight /\ h1.status = h.status
  BY <1>2 DEF Going, Listing, IsHandler
<1> HIDE DEF h1
<1>4. Handled(h1, g, last, ids)
  <2>1. FlightHas(fl, last, ids, h.rl.server, h.status)
    <3> DEFINE s == IF i = 1 THEN h.status ELSE "ignore"
    <3>1. FlightHas(fl, last, ids, h.rl.server, s) /\ s \notin Leaves
      BY DEF Going, fl, Leaves
    <3> HIDE DEF s
    <3> QED
      BY <3>1, FlightWaits
  <2> QED
    <3> HIDE DEF last
    <3> QED
      BY <1>2, <1>3, <2>1, FlightHandlerDoes DEF Going, Cipher, last
<1>5. /\ IsHandler(g) /\ g.rf = h.rf
      /\ g.status = "notinflight" => g.rl = h.rl
      /\ g.rl = h.rl \/ g.rl = ChangeServerState(h.rl)
  <2>1. fl.id \in {2, 4, 6}
    BY <1>2 DEF FlightsOf
  <2> QED
    BY <1>3, <2>1, FlightHandlerFacts DEF Keeps
<1>6. Cipher(g.rl)
  <2> DEFINE q == h.rl
  <2>1. Cipher(q)
    BY DEF Going
  <2> HIDE DEF q
  <2>2. Cipher(ChangeServerState(q))
    BY <2>1 DEF Cipher, ChangeServerState
  <2> QED
    BY <1>5, <2>1, <2>2 DEF q
<1> HIDE DEF g
<1>7. /\ IsHandler(o) /\ o.fl = g.fl /\ o.rf = rf /\ o.rl = g.rl /\ o.chip = g.chip
      /\ o.rseq = g.rseq /\ o.flight = g.flight /\ o.status = g.status
  BY <1>5 DEF IsHandler
<1> HIDE DEF o
<1>8. CASE g.status = "ok"
  <2>1. rf = <<g.fl>>
    BY <1>8
  <2>2. Over(o, last, ids)
    BY <1>4, <1>7, <1>8 DEF Handled, Over
  <2> QED
    BY <1>0, <1>6, <1>7, <1>8, <2>1, <2>2 DEF Result
<1>9. CASE g.status # "ok"
  <2>1. /\ g.rseq = h.rseq /\ g.chip = h.chip
        /\ FlightHas(g.fl, last, ids, g.rl.server, g.status)
        /\ last = 5 => g.flight \in {5, 6, h.flight} \/ Two
    BY <1>3, <1>4, <1>9 DEF Handled
  <2>2. last = 5 => Taken4(h.rseq, ids) /\ (g.flight \in {5, 6} \/ Two)
    BY <2>1 DEF Going
  <2>3. ASSUME NEW j \in DOMAIN rf
        PROVE  FlightHas(rf[j], last, ids, g.rl.server, IF j = 1 THEN g.status ELSE "ignore")
    <3>1. CASE g.status # "notinflight"
      BY <2>1, <2>3, <3>1
    <3>2. CASE g.status = "notinflight"
      <4>1. rf = [h.rf EXCEPT ![i] = g.fl] /\ g.rl = h.rl
        BY <1>5, <3>2
      <4>2. j \in DOMAIN h.rf /\ rf[j] \in {g.fl, h.rf[j]}
        BY <2>3, <4>1
      <4> DEFINE s == IF j = 1 THEN h.status ELSE "ignore"
      <4>3. FlightHas(h.rf[j], last, ids, h.rl.server, s) /\ s \notin Leaves
        BY <4>2 DEF Going, Leaves
      <4> HIDE DEF s
      <4>4. \A s2 : FlightHas(h.rf[j], last, ids, h.rl.server, s2)
        BY <4>3, FlightWaits
      <4>5. g.status \notin Leaves
        BY <3>2 DEF Leaves
      <4>6. \A s2 : FlightHas(g.fl, last, ids, g.rl.server, s2)
        BY <2>1, <4>5, FlightWaits
      <4> QED
        BY <4>1, <4>2, <4>4, <4>6
    <3> QED
      BY <3>1, <3>2
  <2>4. h.rseq \in Int /\ ChipHas(h.chip, last)
    BY DEF Going
  <2> HIDE DEF rf, last
  <2>5. Going(o, last, ids)
    BY <1>1, <1>6, <1>7, <2>1, <2>2, <2>3, <2>4 DEF Going
  <2> QED
    BY <1>0, <1>7, <1>9, <2>5 DEF Result, last
<1> QED
  BY <1>8, <1>9

(* One message. *)
LEMMA DispatchDoes ==
    ASSUME hs.last \in {1, 3, 5}, NEW ids, NEW h, Going(h, hs.last, ids), h.status \notin Leaves,
           NEW m, Brings(m, hs.last, ids), NEW fault
    PROVE  Result(Dispatch(h, m, fault), hs.last, ids)
<1> DEFINE o == Offered(Offer(h, 1, m, fault), 1)
           p == Offered(Offer(o, 2, m, fault), 2)
<1>1. Listing(h, hs.last)
  BY DEF Going
<1>2. 1 \in DOMAIN h.rf
  BY <1>1, IsSeqFacts DEF Listing, IsList
<1>3. Result(o, hs.last, ids)
  BY <1>2, OfferedDoes
<1>4. AfterOffer(h, o, hs.last, 1, m.type)
  BY <1>1, <1>2, OfferedFacts
<1>5. Dispatch(h, m, fault) = IF Len(o.rf) = 1 THEN o ELSE p
  BY DEF Dispatch, OfferSecond
<1> HIDE DEF o
<1>6. CASE Len(o.rf) = 1
  BY <1>3, <1>5, <1>6
<1>7. CASE Len(o.rf) # 1
  <2>1. o.status = "notinflight" /\ Listing(o, hs.last)
    BY <1>4, <1>7 DEF AfterOffer
  <2>2. 2 \in DOMAIN o.rf
    <3>1. IsSeq(o.rf) /\ Len(o.rf) <= 2 /\ o.rf # << >>
      BY <2>1 DEF Listing, IsList
    <3>2. Len(o.rf) \in Nat /\ DOMAIN o.rf = 1 .. Len(o.rf) /\ Len(o.rf) # 0
      BY <3>1, IsSeqFacts DEF IsSeq
    <3> DEFINE n == Len(o.rf)
    <3>3. n \in Nat /\ n <= 2 /\ n # 0 /\ n # 1
      BY <1>7, <3>1, <3>2
    <3> HIDE DEF n
    <3>4. 2 \in 1 .. n
      BY <3>3
    <3> QED
      BY <3>2, <3>4 DEF n
  <2>3. Going(o, hs.last, ids) /\ o.status \notin Leaves
    BY <1>3, <2>1 DEF Result, Leaves
  <2>4. Result(p, hs.last, ids)
    BY <2>2, <2>3, OfferedDoes
  <2> QED
    BY <1>5, <1>7, <2>4
<1> QED
  BY <1>6, <1>7

(* The messages of a record. *)
LEMMA DispatchAllDoes ==
    ASSUME hs.last \in {1, 3, 5}, NEW ids, NEW h, Going(h, hs.last, ids), h.status = "ignore",
           NEW messages, Len(messages) \in Nat,
           \A i \in 1 .. Len(messages) : Brings(messages[i], hs.last, ids), NEW fault, NEW at
    PROVE  Result(DispatchAll(h, messages, fault, at), hs.last, ids)
<1> DEFINE n == Len(messages)
           F(i) == IF i = at THEN fault ELSE "none"
<1>1. PICK f : /\ f[0] = h
               /\ \A i \in 1 .. Len(messages) :
                     f[i] = DispatchNext(f[i - 1], messages[i], IF i = at THEN fault ELSE "none")
               /\ DispatchAll(h, messages, fault, at) = f[Len(messages)]
  BY DispatchAllSteps
<1> DEFINE S == {i \in 0 .. n : Result(f[i], hs.last, ids)}
<1>2. 0 \in S
  <2>1. h.status # "ok"
    OBVIOUS
  <2>2. Result(h, hs.last, ids)
    BY <2>1 DEF Result
  <2> QED
    BY <1>1, <2>2
<1>3. ASSUME NEW i \in 1 .. n, i - 1 \in S PROVE i \in S
  <2> DEFINE g == f[i - 1]
             m == messages[i]
             e == F(i)
  <2>1. Result(g, hs.last, ids) /\ Brings(m, hs.last, ids)
    BY <1>3
  <2>2. f[i] = DispatchNext(g, m, e)
    BY <1>1, <1>3
  <2> HIDE DEF g, m, e
  <2>3. Result(DispatchNext(g, m, e), hs.last, ids)
    <3>1. CASE g.status \in Leaves
      BY <2>1, <3>1 DEF DispatchNext
    <3>2. CASE g.status \notin Leaves
      <4>1. Going(g, hs.last, ids)
        BY <2>1, <3>2 DEF Result, Leaves
      <4>2. Result(Dispatch(g, m, e), hs.last, ids)
        BY <2>1, <3>2, <4>1, DispatchDoes
      <4> QED
        BY <3>2, <4>2 DEF DispatchNext
    <3> QED
      BY <3>1, <3>2
  <2> QED
    BY <2>2, <2>3
<1>4. \A i \in 0 .. n : i \in S
  BY <1>2, <1>3, UpTo
<1>5. n \in 0 .. n
  OBVIOUS
<1>6. Result(f[n], hs.last, ids)
  BY <1>4, <1>5
<1> QED
  BY <1>1, <1>6

-----------------------------------------------------------------------------
(* Records received *)

(* Records taken later take nothing back. *)
LEMMA MoreTaken ==
    ASSUME NEW ids, NEW ids2, ids \subseteq ids2
    PROVE  /\ \A fl : Gathers(fl, ids) => Gathers(fl, ids2)
           /\ \A rseq : Taken4(rseq, ids) => Taken4(rseq, ids2)
<1>1. \A d, i, j : IdOfFour(d, i, j) \in ids => IdOfFour(d, i, j) \in ids2
  OBVIOUS
<1>2. ASSUME NEW fl, Gathers(fl, ids) PROVE Gathers(fl, ids2)
  <2>1. CASE Two
    BY <1>2, <2>1 DEF Gathers
  <2>2. CASE ~Two
    BY <1>1, <1>2, <2>2 DEF Gathers
  <2> QED
    BY <2>1, <2>2
<1>3. ASSUME NEW rseq, Taken4(rseq, ids) PROVE Taken4(rseq, ids2)
  BY <1>1, <1>3 DEF Taken4
<1> QED
  BY <1>2, <1>3

(* The cipher spec flag is set by a cipher spec record only. *)
LEMMA CipherFrom ==
    ASSUME NEW q, RecordLayer(q), NEW record, NEW fault
    PROVE  LET r == ReceiveRecord(q, record, "handshake", fault)
           IN /\ r.rl.server = q.server
              /\ r.rl.ccs => q.ccs \/ record.type = "ccs"
<1> DEFINE p == ProcessRecord(q, record, "handshake", fault)
           old == IF record.epoch = 0 THEN q.win ELSE q.nextwin
           c == CheckReplay(old, record.seq, p.valid)
           seen2 == record.seq < old.lo \/ record.seq \in old.got
           after == IF seen2 THEN q ELSE p.rl
           Fine(v) == DOMAIN v = DOMAIN q /\ v.server = q.server /\ (v.ccs => q.ccs \/ record.type = "ccs")
           r == ReceiveRecord(q, record, "handshake", fault)
<1>1. Fine(p.rl)
  <2> DEFINE r1 == [q EXCEPT !.dec = FALSE]
             r2 == [r1 EXCEPT !.ccs = TRUE]
             r3 == [r1 EXCEPT !.dec = (Decrypt(record, fault) = "ok")]
  <2>1. p.rl = r1 \/ p.rl = r3 \/ (record.type = "ccs" /\ p.rl = r2)
    BY DEF ProcessRecord
  <2>2. Fine(r1) /\ Fine(r3) /\ (record.type = "ccs" => Fine(r2))
    BY DEF RecordLayer
  <2> HIDE DEF p, r1, r2, r3, Fine
  <2> QED
    BY <2>1, <2>2
<1> HIDE DEF p
<1>2. Fine(q)
  OBVIOUS
<1>3. Fine(after)
  BY <1>1, <1>2
<1> HIDE DEF after, c
<1>4. r.rl = q \/ r.rl = after \/ r.rl = [after EXCEPT !.win = c.win]
      \/ r.rl = [after EXCEPT !.nextwin = c.win]
  BY DEF ReceiveRecord, after, c, p
<1> HIDE DEF r
<1>5. Fine([after EXCEPT !.win = c.win]) /\ Fine([after EXCEPT !.nextwin = c.win])
  BY <1>3 DEF RecordLayer
<1>6. Fine(r.rl)
  BY <1>2, <1>3, <1>4, <1>5
<1> QED
  BY <1>6 DEF r

(* What the messages of a record bring. *)
LEMMA RecordBrings ==
    ASSUME HandshakeInv, mode = "recv", WayInv, ListInv, NEW record, IsRecord(record), Form(record),
           NEW fault, ReceiveRecord(rl, record, "handshake", fault).status = "ok", NEW messages,
           messages = IF ReceiveRecord(rl, record, "handshake", fault).rl.ccs
                      THEN <<[type |-> "ccs"]>> ELSE record.body,
           Expected(ReceiveRecord(rl, record, "handshake", fault).rl, messages)
    PROVE  /\ Len(messages) \in Nat
           /\ \A i \in 1 .. Len(messages) :
                 Brings(messages[i], hs.last, seen.ids \cup {<<record.epoch, record.seq>>})
<1> DEFINE r == ReceiveRecord(rl, record, "handshake", fault)
           id == <<record.epoch, record.seq>>
           ids == seen.ids \cup {id}
<1>1. RecordLayer(rl) /\ IsSeq(record.body)
  BY DEF HandshakeInv, RecordsInv, IsRecord
<1>2. id \notin seen.ids
  BY ReceivedFacts
<1>3. r.rl.ccs => 6 \in srv.sent
  BY <1>1, CipherFrom DEF WayInv, Form
<1> HIDE DEF r
<1>4. CASE r.rl.ccs
  <2> DEFINE m == [type |-> "ccs"]
  <2>1. messages = <<m>> /\ m.type = "ccs"
    BY <1>4 DEF r
  <2> HIDE DEF m
  <2>2. Len(messages) = 1 /\ messages[1] = m
    BY <2>1
  <2>3. ~InFlight(4, "ccs") /\ ~InFlight(2, "ccs")
    BY FourPlaces, TwoMessages DEF FourTypes
  <2>4. Brings(m, hs.last, ids)
    BY <1>3, <1>4, <2>1, <2>3 DEF Brings
  <2>5. \A i \in 1 .. 1 : messages[i] = m
    BY <2>2
  <2> QED
    BY <2>2, <2>4, <2>5
<1>5. CASE ~r.rl.ccs
  <2>1. messages = record.body
    BY <1>5 DEF r
  <2>2. Len(messages) \in Nat /\ DOMAIN messages = 1 .. Len(messages)
    BY <1>1, <2>1, IsSeqFacts
  <2>3. \A i \in DOMAIN messages : messages[i].type # "ccs"
    BY <1>5 DEF Expected, r
  <2>4. ASSUME NEW k \in DOMAIN messages PROVE Brings(messages[k], hs.last, ids)
    <3> DEFINE m == messages[k]
    <3>1. InFlight(2, m.type) => m.seq \in Int
      BY <2>1, <2>4 DEF Form
    <3>2. ASSUME InFlight(4, m.type)
          PROVE  /\ hs.last = 5 => Two
                 /\ \E d \in Hellos : \E i \in DOMAIN Packing : \E j \in DOMAIN Packing[i] :
                    \E a \in DOMAIN Packing[i][j] : m = Message(i, j, a) /\ IdOfFour(d, i, j) \in ids
      <4>1. PICK d \in Hellos : \E i \in DOMAIN Packing : \E j \in DOMAIN Packing[i] :
               record = RecordOfFour(d[1].seq, i, j)
        BY <2>1, <2>4, <3>2 DEF Form
      <4>2. PICK i \in DOMAIN Packing : \E j \in DOMAIN Packing[i] :
               record = RecordOfFour(d[1].seq, i, j)
        BY <4>1
      <4>3. PICK j \in DOMAIN Packing[i] : record = RecordOfFour(d[1].seq, i, j)
        BY <4>2
      <4>4. /\ record.body = [a \in DOMAIN Packing[i][j] |-> Message(i, j, a)]
            /\ record.epoch = 0 /\ record.seq = d[1].seq + RecordsUpTo[i - 1] + j - 1
        BY <4>3 DEF RecordOfFour, Record
      <4>5. k \in DOMAIN Packing[i][j] /\ m = Message(i, j, k)
        BY <2>1, <2>4, <4>4
      <4>6. id = IdOfFour(d, i, j)
        BY <4>4 DEF IdOfFour
      <4>7. hs.last = 5 => Two
        <5>1. ASSUME hs.last = 5 PROVE Taken4(hs.rseq, seen.ids)
          BY <5>1 DEF ListInv
        <5> QED
          BY <1>2, <4>6, <5>1 DEF Taken4
      <4> QED
        BY <4>5, <4>6, <4>7
    <3> QED
      BY <2>3, <2>4, <3>1, <3>2 DEF Brings
  <2> QED
    BY <2>2, <2>4
<1> QED
  BY <1>4, <1>5

(* The handler of a record starts from the handshake. *)
LEMMA HandlerStarts ==
    ASSUME HandshakeInv, mode = "recv", ListInv, DoneInv, NEW q, Cipher(q), q.server = rl.server,
           NEW s, NEW ids, seen.ids \subseteq ids, NEW h,
           h = [fl |-> hs.rf[1], rf |-> hs.rf, flight |-> hs.flight, rseq |-> hs.rseq,
                opt |-> hs.opt, chip |-> hs.chip, rl |-> q, status |-> s]
    PROVE  Going(h, hs.last, ids)
<1>1. /\ hs.last \in {1, 3, 5} /\ IsList(hs.rf, hs.last) /\ hs.rf # << >>
      /\ hs.last = 5 => hs.sf.id = 5
  BY DEF HandshakeInv, FlightsInv, Handshake, GoesOn
<1>2. Listing(h, hs.last)
  <2>1. IsSeq(hs.rf) /\ Len(hs.rf) \in Nat /\ DOMAIN hs.rf = 1 .. Len(hs.rf)
    BY <1>1, IsSeqFacts DEF IsList
  <2>2. Len(hs.rf) # 0
    BY <1>1, <2>1 DEF IsSeq
  <2>3. 1 \in DOMAIN hs.rf
    BY <2>1, <2>2
  <2>4. "id" \in DOMAIN hs.rf[1]
    BY <1>1, <2>3 DEF IsList
  <2> QED
    BY <1>1, <2>4 DEF Listing, IsHandler
<1>3. /\ h.rf = hs.rf /\ h.rl = q /\ h.rseq = hs.rseq /\ h.chip = hs.chip /\ h.flight = hs.flight
      /\ h.status = s
  OBVIOUS
<1>4. hs.rseq \in Int /\ ChipHas(hs.chip, hs.last)
  BY DEF ListInv, DoneInv
<1>5. ASSUME NEW i \in DOMAIN hs.rf, NEW s2 PROVE FlightHas(hs.rf[i], hs.last, ids, q.server, s2)
  <2> DEFINE fl == hs.rf[i]
  <2>1. IsFlight(fl) /\ (fl.id = 6 => IsSix(fl, q.server))
    BY <1>5 DEF ListInv
  <2>2. fl.id = 4 /\ hs.last \in 0 .. 3 => fl.state = "ready" /\ Gathers(fl, seen.ids)
    BY <1>5 DEF ListInv
  <2> HIDE DEF fl
  <2>3. FlightHas(fl, hs.last, ids, q.server, s2)
    BY <2>1, <2>2, MoreTaken DEF FlightHas
  <2> QED
    BY <2>3 DEF fl
<1>6. hs.last = 5 => Taken4(hs.rseq, ids) /\ (hs.flight \in {5, 6} \/ Two)
  <2>1. hs.last = 5 => Taken4(hs.rseq, seen.ids) /\ (hs.flight \in {5, 6} \/ Two)
    BY <1>1 DEF ListInv
  <2> QED
    BY <2>1, MoreTaken
<1> QED
  BY <1>2, <1>3, <1>4, <1>5, <1>6 DEF Going

(* What becomes of a record. *)
LEMMA ReceivedDoes ==
    ASSUME HandshakeInv, mode = "recv", WayInv, ListInv, DoneInv, NEW record, IsRecord(record),
           Form(record), NEW fault, NEW at
    PROVE  LET h == Received(record, fault, at)
               r == ReceiveRecord(rl, record, "handshake", fault)
           IN /\ Result(h, hs.last, seen.ids \cup {<<record.epoch, record.seq>>})
              /\ r.status \notin {"ok", "alert"} => Result(h, hs.last, seen.ids)
<1> DEFINE r == ReceiveRecord(rl, record, "handshake", fault)
           messages == IF r.rl.ccs THEN <<[type |-> "ccs"]>> ELSE record.body
           Start(q, s) ==
               [fl |-> hs.rf[1], rf |-> hs.rf, flight |-> hs.flight, rseq |-> hs.rseq,
                opt |-> hs.opt, chip |-> hs.chip, rl |-> q, status |-> s]
           q0 == r.rl
           q1 == [r.rl EXCEPT !.ccs = FALSE]
           h == Received(record, fault, at)
           h0 == Start(q0, "ignore")
           all == DispatchAll(h0, messages, fault, at)
           level == record.body[1].type
           ids == seen.ids \cup {<<record.epoch, record.seq>>}
<1>0. /\ RecordLayer(rl) /\ (rl.ccs => rl.server = 0) /\ Windows(rl, seen.ids)
      /\ record.epoch \in {0, 1} /\ record.seq \in Nat
      /\ record.type = "alert" => level \in {"fatal", "warning", "unlisted"}
      /\ hs.last \in {1, 3, 5}
  BY DEF HandshakeInv, RecordsInv, WindowsInv, FlightsInv, IsRecord
<1>1. SameSender(rl, r.rl) /\ (r.status = "alert" => record.type = "alert")
  <2>1. Recorded(rl, seen.ids, record, r)
    BY <1>0, ReceiveRecordFacts
  <2> QED
    BY <2>1 DEF Recorded
<1>2. h = CASE r.status = "ok" -> IF Expected(r.rl, messages) THEN all
                                  ELSE [h0 EXCEPT !.rl.ccs = FALSE]
            [] r.status = "alert" -> [h0 EXCEPT !.status = level]
            [] r.status = "malloc" -> [h0 EXCEPT !.status = "malloc"]
            [] OTHER -> h0
  BY DEF Received
<1>3. Cipher(q0) /\ q0.server = rl.server
  <2>1. RecordLayer(r.rl) /\ r.rl.server = rl.server
    BY <1>1 DEF SameSender
  <2>2. r.rl.ccs => 6 \in srv.sent
    BY <1>0, CipherFrom DEF WayInv, Form
  <2> QED
    BY <2>1, <2>2 DEF Cipher, RecordLayer
<1>4. Cipher(q1) /\ q1.server = rl.server
  BY <1>3 DEF Cipher
<1>5. /\ [h0 EXCEPT !.rl.ccs = FALSE] = Start(q1, "ignore")
      /\ \A s : [h0 EXCEPT !.status = s] = Start(q0, s)
  <2>1. \A q : [Start(q, "ignore") EXCEPT !.rl.ccs = FALSE] = Start([q EXCEPT !.ccs = FALSE], "ignore")
    <3>1. \A q, z : [Start(q, "ignore") EXCEPT !.rl = z] = Start(z, "ignore")
      OBVIOUS
    <3>2. \A q : Start(q, "ignore").rl = q
      OBVIOUS
    <3> HIDE DEF Start
    <3> QED
      BY <3>1, <3>2
  <2>2. \A q, s : [Start(q, "ignore") EXCEPT !.status = s] = Start(q, s)
    OBVIOUS
  <2> HIDE DEF Start, r
  <2> QED
    BY <2>1, <2>2
<1>6. CASE r.status = "ok" /\ Expected(r.rl, messages)
  <2>1. h = all
    BY <1>2, <1>6
  <2>2. Len(messages) \in Nat /\ \A i \in 1 .. Len(messages) : Brings(messages[i], hs.last, ids)
    BY <1>6, RecordBrings
  <2> HIDE DEF r, messages, h, q0
  <2>3. Going(h0, hs.last, ids)
    BY <1>3, HandlerStarts
  <2>4. h0.status = "ignore"
    OBVIOUS
  <2> HIDE DEF h0
  <2>5. Result(all, hs.last, ids)
    BY <1>0, <2>2, <2>3, <2>4, DispatchAllDoes
  <2> QED
    BY <1>6, <2>1, <2>5 DEF h, r
<1>7. CASE ~(r.status = "ok" /\ Expected(r.rl, messages))
  <2>1. \E q \in {q0, q1} : \E s : h = Start(q, s) /\ s # "ok"
    <3> HIDE DEF r, messages, h, q0, q1, all, Start, level
    <3>1. r.status = "alert" => level # "ok"
      BY <1>0, <1>1
    <3>2. CASE r.status = "ok"
      <4>1. h = Start(q1, "ignore")
        BY <1>2, <1>5, <1>7, <3>2
      <4> QED
        BY <4>1
    <3>3. CASE r.status = "alert"
      BY <1>2, <1>5, <3>1, <3>3
    <3>4. CASE r.status = "malloc"
      BY <1>2, <1>5, <3>4
    <3>5. CASE r.status \notin {"ok", "alert", "malloc"}
      <4>1. h = h0
        BY <1>2, <3>5
      <4> QED
        BY <4>1
    <3> QED
      BY <3>2, <3>3, <3>4, <3>5
  <2>a. PICK q \in {q0, q1} : \E s : h = Start(q, s) /\ s # "ok"
    BY <2>1
  <2>b. PICK s : h = Start(q, s) /\ s # "ok"
    BY <2>a
  <2> DEFINE g == Start(q, s)
  <2>2. Cipher(q) /\ q.server = rl.server
    BY <1>3, <1>4
  <2>3. ASSUME NEW ids2, seen.ids \subseteq ids2 PROVE Result(g, hs.last, ids2)
    <3>1. Going(g, hs.last, ids2)
      BY <2>2, <2>3, HandlerStarts
    <3>2. g.status # "ok"
      BY <2>b
    <3> HIDE DEF g
    <3> QED
      BY <3>1, <3>2 DEF Result
  <2>4. h = g
    BY <2>b
  <2> HIDE DEF g, h
  <2>5. Result(h, hs.last, ids) /\ Result(h, hs.last, seen.ids)
    BY <2>3, <2>4
  <2> QED
    BY <2>5 DEF h
<1> QED
  BY <1>6, <1>7
-----------------------------------------------------------------------------
(* The steps that receive *)

(* The server did not send. *)
ServerStill ==
    net' = net /\ srv'.cookie = srv.cookie /\ srv'.sent = srv.sent /\ srv'.seq = srv.seq

(* While the server keeps still, what it says of records and flights stays. *)
LEMMA SameServer ==
    ASSUME ServerStill
    PROVE  /\ Two' <=> Two
           /\ Hellos' = Hellos
           /\ \A q : Form(q)' <=> Form(q)
           /\ \A fl, ids : Gathers(fl, ids)' <=> Gathers(fl, ids)
           /\ \A rseq, ids : Taken4(rseq, ids)' <=> Taken4(rseq, ids)
           /\ \A fl, server : IsSix(fl, server)' <=> IsSix(fl, server)
<1>1. Hellos' = Hellos /\ (Two' <=> Two)
  BY DEF Hellos, Two, ServerStill
<1>2. \A q : Form(q)' <=> Form(q)
  BY <1>1 DEF ServerStill, Form, RecordOfFour, Record, Message, Number
<1>3. \A fl, ids : Gathers(fl, ids)' <=> Gathers(fl, ids)
  BY <1>1 DEF ServerStill, Gathers, Number, IdOfFour
<1>4. \A rseq, ids : Taken4(rseq, ids)' <=> Taken4(rseq, ids)
  BY <1>1 DEF ServerStill, Taken4, Number, IdOfFour
<1>5. \A fl, server : IsSix(fl, server)' <=> IsSix(fl, server)
  BY DEF IsSix, ServerStill
<1> QED
  BY <1>1, <1>2, <1>3, <1>4, <1>5

(* What is on its way, after a step that takes a record. *)
LEMMA WayKept ==
    ASSUME WayInv, ServerStill, \A i \in DOMAIN rl'.left : Form(rl'.left[i]),
           rl'.ccs => 6 \in srv.sent
    PROVE  WayInv'
<1>1. /\ Two' <=> Two
      /\ Hellos' = Hellos
      /\ \A q : Form(q)' <=> Form(q)
  BY SameServer
<1>2. IsFiniteSet(net') /\ \A d \in net' : \A i \in DOMAIN d : Form(d[i])
  BY DEF WayInv, ServerStill
<1>3. Two \/ \A d \in Hellos : d[1].seq \in 0 .. srv.seq - 1
  BY DEF WayInv
<1>4. \A i \in DOMAIN rl'.left : Form(rl'.left[i])
  BY <1>1
<1>5. \A d \in net' : \A i \in DOMAIN d : Form(d[i])'
  BY <1>1, <1>2
<1> QED
  BY <1>1, <1>2, <1>3, <1>4, <1>5 DEF WayInv, ServerStill

(* The flights listed, when none was processed and none waits for the chip. *)
LEMMA GoingHas ==
    ASSUME HandshakeInv, mode = "recv", ListInv, NEW ids, NEW h, Going(h, hs.last, ids),
           h.status \notin Leaves \/ h.rf[1].state # "received",
           hs'.rf = h.rf, hs'.rseq = h.rseq, hs'.flight = h.flight, hs'.last = hs.last,
           hs'.sf = hs.sf, rl'.server = h.rl.server, seen'.ids = ids, net' = net, srv' = srv
    PROVE  ListInv'
<1>1. /\ hs.last \in {1, 3, 5} /\ hs.sf.id = hs.last
  BY DEF HandshakeInv, FlightsInv, GoesOn
<1>2. ASSUME NEW i \in DOMAIN h.rf
      PROVE  /\ IsFlight(h.rf[i])
             /\ h.rf[i].id = 4 /\ hs.last \in 0 .. 3 => h.rf[i].state = "ready" /\ Gathers(h.rf[i], ids)
             /\ h.rf[i].id = 6 => IsSix(h.rf[i], h.rl.server)
  <2>1. FlightHas(h.rf[i], hs.last, ids, h.rl.server, IF i = 1 THEN h.status ELSE "ignore")
    BY <1>2 DEF Going
  <2>2. "ignore" \notin Leaves
    BY DEF Leaves
  <2>3. h.rf[i].state = "received" => (IF i = 1 THEN h.status ELSE "ignore") \notin Leaves
    BY <2>2
  <2> QED
    BY <2>1, <2>3 DEF FlightHas
<1>3. /\ h.rseq \in Int
      /\ hs.last = 5 => Taken4(h.rseq, ids) /\ (h.flight \in {5, 6} \/ Two)
  BY DEF Going
<1>4. hs.sf.id = 5 => 5 \in srv.has
  BY DEF ListInv
<1>5. /\ Two' <=> Two
      /\ \A fl, ids2 : Gathers(fl, ids2)' <=> Gathers(fl, ids2)
      /\ \A rseq, ids2 : Taken4(rseq, ids2)' <=> Taken4(rseq, ids2)
      /\ \A fl, server : IsSix(fl, server)' <=> IsSix(fl, server)
  BY SameServer DEF ServerStill
<1>6. \A i \in DOMAIN hs'.rf : IsFlight(hs'.rf[i])
  BY <1>2
<1>7. hs'.last \in 0 .. 3 => \A i \in DOMAIN hs'.rf : hs'.rf[i].id = 4 =>
          hs'.rf[i].state = "ready" /\ Gathers(hs'.rf[i], seen'.ids)
  BY <1>2
<1>8. \A i \in DOMAIN hs'.rf : hs'.rf[i].id = 6 => IsSix(hs'.rf[i], rl'.server)
  BY <1>2
<1>9. hs'.last \in {4, 5} => Taken4(hs'.rseq, seen'.ids)
  BY <1>1, <1>3
<1>10. hs'.sf.id = 5 => hs'.last \in {4, 5} /\ 5 \in srv'.has /\ (hs'.flight \in {5, 6} \/ Two')
  BY <1>1, <1>3, <1>4, <1>5
<1> QED
  BY <1>3, <1>5, <1>6, <1>7, <1>8, <1>9, <1>10 DEF ListInv

(* A timeout leaves the flights as they are, or ends the handshake. *)
LEMMA TimedOutKeeps ==
    ASSUME NEW h, Handshake(h), TimedOut(h)
    PROVE  /\ hs'.chip = h.chip /\ hs'.last = h.last /\ hs'.auth = h.auth
           /\ \/ mode' = "exit"
              \/ /\ mode' = "send"
                 /\ hs'.rf = h.rf /\ hs'.rseq = h.rseq /\ hs'.flight = h.flight /\ hs'.sf = h.sf
<1> DEFINE t == IF h.timeout * 2 = 64 THEN MaxFlightTimeout ELSE h.timeout * 2
           later == [h EXCEPT !.timeout = t]
<1>1. /\ later.chip = h.chip /\ later.last = h.last /\ later.auth = h.auth
      /\ later.rf = h.rf /\ later.rseq = h.rseq /\ later.flight = h.flight /\ later.sf = h.sf
      /\ DOMAIN later = DOMAIN h
  BY DEF Handshake
<1>2. \/ mode' = "exit" /\ hs' = Ended(later, "timeout", FALSE)
      \/ mode' = "send" /\ hs' = later
  BY DEF TimedOut
<1> HIDE DEF later
<1>3. CASE mode' = "exit" /\ hs' = Ended(later, "timeout", FALSE)
  BY <1>1, <1>3 DEF Ended, Handshake
<1>4. CASE mode' = "send" /\ hs' = later
  BY <1>1, <1>4
<1> QED
  BY <1>2, <1>3, <1>4

(* A handshake that is not over with success. *)
LEMMA NotDone ==
    ASSUME ChipHas(hs'.chip, hs'.last), hs'.auth # "completed"
    PROVE  DoneInv'
BY DEF DoneInv

(* A flight of the server was processed. *)
LEMMA AdvancedDoes ==
    ASSUME HandshakeInv, mode = "recv", WayInv, ListInv, DoneInv, NEW ids, NEW h,
           Result(h, hs.last, ids), h.status = "ok", Listing(h, hs.last), Took(rl, h.rl),
           Advanced(h), Took(rl, rl'), rl'.left = << >>, rl'.ccs = h.rl.ccs,
           rl'.server = h.rl.server, seen'.ids = ids, net' = net, srv' = srv
    PROVE  FInv'
<1> DEFINE next == [Processed(h) EXCEPT !.last = h.rf[1].id, !.timeout = DefaultTimeout]
<1>1. h.rf = <<h.fl>> /\ Cipher(h.rl) /\ Over(h, hs.last, ids)
  BY DEF Result
<1>2. /\ h.rf[1] = h.fl /\ DOMAIN h.rf = {1}
  BY <1>1
<1>3. /\ hs.last \in {1, 3, 5} /\ hs.sf.id = hs.last /\ hs.auth = "started"
      /\ hs.sf.id = 5 => rl.enc
      /\ Epochs(rl) /\ RecordLayer(rl)
  BY DEF HandshakeInv, FlightsInv, GoesOn, RecordsInv
<1>4. h.fl.id \in {2, 4, 6} /\ h.fl.id \in FlightsOf(hs.last)
  BY <1>2 DEF Listing, IsList, FlightsOf
<1>5. /\ next.last = h.fl.id /\ next.rf = <<h.fl>> /\ next.rseq = h.rseq /\ next.chip = h.chip
      /\ next.sf = hs.sf /\ next.flight = h.flight /\ next.auth = "started"
      /\ DOMAIN next = DOMAIN hs
  <2>1. DOMAIN hs = {"last", "timeout", "sf", "rf", "flight", "rseq", "opt", "chip", "auth",
                     "fatal", "status"}
    BY DEF HandshakeInv, FlightsInv, Handshake
  <2> QED
    BY <1>1, <1>2, <1>3, <2>1 DEF Processed
<1>6. IF h.fl.id = 6
      THEN mode' = "exit" /\ hs' = Ended([next EXCEPT !.auth = "completed"], "ok", FALSE)
      ELSE mode' = "send" /\ hs' = next
  BY <1>5 DEF Advanced
<1> HIDE DEF next
<1>7. CASE h.fl.id = 6
  <2>1. hs.last = 5 /\ ChipHas(h.chip, 6) /\ h.rl.server # 0 /\ 6 \in srv.sent
    BY <1>1, <1>7 DEF Over
  <2>2. 5 \in srv.has
    BY <1>3, <2>1 DEF ListInv
  <2>3. rl'.enc /\ rl'.next = 1 /\ rl'.server = 1
    BY <1>3, <2>1 DEF Took, Epochs, RecordLayer
  <2>4. hs'.chip = h.chip /\ hs'.last = 6 /\ hs'.status = "ok"
    <3>1. DOMAIN hs = {"last", "timeout", "sf", "rf", "flight", "rseq", "opt", "chip", "auth",
                       "fatal", "status"}
      BY DEF HandshakeInv, FlightsInv, Handshake
    <3> QED
      BY <1>5, <1>6, <1>7, <3>1 DEF Ended
  <2> QED
    BY <1>6, <1>7, <2>1, <2>2, <2>3, <2>4 DEF FInv, DoneInv
<1>8. CASE h.fl.id # 6
  <2>1. mode' = "send" /\ hs' = next
    BY <1>6, <1>8
  <2>2. DoneInv'
    <3>1. ChipHas(h.chip, h.fl.id)
      BY <1>1, <1>4, <1>8 DEF Over
    <3> QED
      BY <1>5, <2>1, <3>1, NotDone
  <2>3. WayInv'
    <3>1. rl'.ccs => 6 \in srv.sent
      BY <1>1 DEF Cipher
    <3>2. DOMAIN rl'.left = {}
      OBVIOUS
    <3> QED
      BY <3>1, <3>2, WayKept DEF ServerStill
  <2>4. /\ Two' <=> Two
        /\ \A rseq, ids2 : Taken4(rseq, ids2)' <=> Taken4(rseq, ids2)
    BY SameServer DEF ServerStill
  <2>5. /\ hs'.rseq = h.rseq /\ hs'.last = h.fl.id /\ hs'.sf = hs.sf /\ hs'.rf = <<h.fl>>
    BY <1>5, <2>1
  <2>6. /\ h.rseq \in Int /\ IsFlight(h.fl)
        /\ h.fl.id = 4 => Taken4(h.rseq, ids)
        /\ hs.last = 5 => h.fl.id = 4 /\ Two
    <3>1. Taken4(h.rseq, ids) => h.rseq \in Int
      BY FourNumbers DEF Taken4
    <3> QED
      BY <1>1, <1>4, <1>8, <3>1 DEF Over
  <2>7. /\ \A i \in DOMAIN hs'.rf : IsFlight(hs'.rf[i])
        /\ \A i \in DOMAIN hs'.rf : hs'.rf[i].id = hs'.last
    BY <2>5, <2>6
  <2>8. hs'.last \in {4, 5} => Taken4(hs'.rseq, seen'.ids)
    BY <1>4, <2>5, <2>6
  <2>9. hs'.sf.id = 5 => hs'.last \in {4, 5} /\ 5 \in srv'.has /\ Two'
    <3>1. hs.sf.id = 5 => 5 \in srv.has
      BY DEF ListInv
    <3> QED
      BY <1>3, <2>4, <2>5, <2>6, <3>1
  <2>10. hs'.last \in {2, 4} /\ hs'.rseq \in Int
    BY <1>4, <1>8, <2>5, <2>6
  <2>11. ListInv'
    BY <2>4, <2>7, <2>8, <2>9, <2>10 DEF ListInv
  <2> QED
    BY <2>1, <2>2, <2>3, <2>11 DEF FInv
<1> QED
  BY <1>7, <1>8

(* Only a record accepted is remembered. *)
Remembered(record, fault) ==
    IF ReceiveRecord(rl, record, "handshake", fault).status \in {"ok", "alert"}
    THEN seen.ids \cup {<<record.epoch, record.seq>>} ELSE seen.ids

(* A record in the handshake. *)
LEMMA TakeDoes ==
    ASSUME HandshakeInv, mode = "recv", WayInv, ListInv, DoneInv, NEW record, IsRecord(record),
           Form(record), NEW rest, \A i \in DOMAIN rest : Form(rest[i]), NEW fault, NEW at,
           NEW late, Take(record, rest, fault, at, late), net' = net, srv' = srv
    PROVE  FInv'
<1> DEFINE h == Received(record, fault, at)
           fatal == h.status \in Leaves
           kept == [h.rl EXCEPT !.left = rest]
           ids == Remembered(record, fault)
           moved == [h.rl EXCEPT !.left = << >>]
           done == h.rf[1].id = 6
           meaning == IF h.status = "unlisted" THEN AlertMeaning("unlisted") ELSE {h.status}
<1>1. /\ Result(h, hs.last, ids)
      /\ Listing(h, hs.last) /\ (h.status = "ok" => Len(h.rf) = 1) /\ Took(rl, h.rl)
      /\ Windows(h.rl, seen.ids)
  BY ReceivedDoes, ReceivedFacts DEF Remembered
<1>2. seen'.ids = ids
  BY DEF Take, Remembered
<1>3. \/ /\ h.status = "ok"
         /\ Advanced(h)
         /\ rl' = Slide(moved, done)
      \/ /\ h.status # "ok" /\ h.rf[1].state # "received" /\ TimedOut(Processed(h))
         /\ rl' = kept
      \/ h.status # "ok" /\ mode' = "exit"
         /\ \E status : \E fatally \in BOOLEAN : hs' = Ended(Processed(h), status, fatally)
      \/ h.status \notin Leaves /\ mode' = mode /\ hs' = Processed(h) /\ rl' = kept
  <2>1. \/ h.status = "ok" /\ Advanced(h) /\ rl' = Slide(moved, done)
        \/ /\ h.status # "ok" /\ h.rf[1].state # "received" /\ TimedOut(Processed(h))
           /\ rl' = kept
        \/ h.status # "ok" /\ mode' = "exit" /\ hs' = Ended(Processed(h), h.status, TRUE)
        \/ "fatal" \in meaning /\ mode' = "exit" /\ hs' = Ended(Processed(h), "alert", FALSE)
        \/ h.status \notin Leaves /\ mode' = mode /\ hs' = Processed(h) /\ rl' = kept
    <3>1. PICK g \in {h} :
             \/ g.status = "ok" /\ Advanced(g)
                /\ rl' = Slide([g.rl EXCEPT !.left = << >>], g.rf[1].id = 6)
             \/ /\ g.status \in Leaves \/ "fatal" \in meaning
                /\ g.status # "ok" /\ g.rf[1].state # "received" /\ TimedOut(Processed(g))
                /\ rl' = [g.rl EXCEPT !.left = rest]
             \/ g.status # "ok" /\ mode' = "exit" /\ hs' = Ended(Processed(g), g.status, TRUE)
             \/ "fatal" \in meaning /\ mode' = "exit" /\ hs' = Ended(Processed(g), "alert", FALSE)
             \/ g.status \notin Leaves /\ mode' = mode /\ hs' = Processed(g)
                /\ rl' = [g.rl EXCEPT !.left = rest]
      BY DEF Take
    <3> HIDE DEF h
    <3>2. g = h
      OBVIOUS
    <3> QED
      BY <3>1, <3>2
  <2> HIDE DEF h, kept, moved, done
  <2>2. "fatal" \in meaning => h.status # "ok"
    BY DEF AlertMeaning
  <2> HIDE DEF meaning
  <2> QED
    BY <2>1, <2>2
<1> HIDE DEF h, ids, done, meaning
<1>4. Took(rl, kept) /\ kept.left = rest /\ kept.server = h.rl.server /\ kept.ccs = h.rl.ccs
  <2>1. "server" \in DOMAIN h.rl /\ "ccs" \in DOMAIN h.rl
    BY <1>1 DEF Took, RecordLayer
  <2> QED
    BY <1>1, <2>1, KeptFacts
<1>5. /\ Processed(h).chip = h.chip /\ Processed(h).rseq = h.rseq /\ Processed(h).rf = h.rf
      /\ Processed(h).flight = h.flight /\ Processed(h).last = hs.last /\ Processed(h).sf = hs.sf
      /\ Processed(h).auth = "started" /\ Handshake(Processed(h))
  <2>1. DOMAIN hs = {"last", "timeout", "sf", "rf", "flight", "rseq", "opt", "chip", "auth",
                     "fatal", "status"}
    BY DEF HandshakeInv, FlightsInv, Handshake
  <2>2. hs.auth = "started"
    BY DEF HandshakeInv, FlightsInv, GoesOn
  <2>3. Handshake(Processed(h)) /\ Processed(h).auth = "started"
    BY <1>1, <2>2, ProcessedFacts
  <2> QED
    BY <2>1, <2>3 DEF Processed
<1>6. h.status # "ok" => Going(h, hs.last, ids) /\ ChipHas(h.chip, hs.last) /\ Cipher(h.rl)
  BY <1>1 DEF Result, Going
<1>7. ASSUME h.status # "ok", rl' = kept PROVE WayInv'
  BY <1>4, <1>6, <1>7, WayKept DEF Cipher, ServerStill
<1>8. CASE h.status = "ok" /\ Advanced(h) /\ rl' = Slide(moved, done)
  <2>1. Took(rl, moved) /\ Windows(moved, seen.ids) /\ moved.left = << >>
    BY <1>1, KeptFacts
  <2>2. moved.server = h.rl.server /\ moved.ccs = h.rl.ccs
    BY <1>1 DEF Took, RecordLayer
  <2> HIDE DEF moved
  <2>3. Took(rl, rl') /\ rl'.left = << >>
    BY <1>8, <2>1, SlidFacts
  <2>4. rl'.server = moved.server /\ rl'.ccs = moved.ccs
    <3>1. "server" \in DOMAIN moved /\ "ccs" \in DOMAIN moved
      BY <2>1 DEF Took, RecordLayer
    <3> QED
      BY <1>8, <3>1 DEF Slide
  <2> QED
    BY <1>1, <1>2, <1>8, <2>2, <2>3, <2>4, AdvancedDoes
<1>9. CASE h.status # "ok" /\ h.rf[1].state # "received" /\ TimedOut(Processed(h)) /\ rl' = kept
  <2>1. /\ hs'.chip = h.chip /\ hs'.last = hs.last /\ hs'.auth = "started"
        /\ \/ mode' = "exit"
           \/ /\ mode' = "send"
              /\ hs'.rf = h.rf /\ hs'.rseq = h.rseq /\ hs'.flight = h.flight /\ hs'.sf = hs.sf
    BY <1>5, <1>9, TimedOutKeeps
  <2>2. DoneInv'
    BY <1>6, <1>9, <2>1, NotDone
  <2>3. mode' # "exit" => ListInv'
    BY <1>2, <1>4, <1>6, <1>9, <2>1, GoingHas
  <2> QED
    BY <1>7, <1>9, <2>2, <2>3 DEF FInv
<1>10. CASE h.status # "ok" /\ mode' = "exit"
            /\ \E status : \E fatally \in BOOLEAN : hs' = Ended(Processed(h), status, fatally)
  <2>1. hs'.chip = h.chip /\ hs'.last = hs.last /\ hs'.auth = "started"
    BY <1>5, <1>10 DEF Ended, Handshake
  <2>2. DoneInv'
    BY <1>6, <1>10, <2>1, NotDone
  <2> QED
    BY <1>10, <2>2 DEF FInv
<1>11. CASE h.status \notin Leaves /\ mode' = mode /\ hs' = Processed(h) /\ rl' = kept
  <2>0. h.status # "ok"
    BY <1>11 DEF Leaves
  <2>1. /\ hs'.chip = h.chip /\ hs'.last = hs.last /\ hs'.auth = "started"
        /\ hs'.rf = h.rf /\ hs'.rseq = h.rseq /\ hs'.flight = h.flight /\ hs'.sf = hs.sf
    BY <1>5, <1>11
  <2>2. DoneInv'
    BY <1>6, <2>0, <2>1, NotDone
  <2>3. ListInv'
    BY <1>2, <1>4, <1>6, <1>11, <2>0, <2>1, GoingHas
  <2> QED
    BY <1>7, <1>11, <2>0, <2>2, <2>3 DEF FInv
<1> QED
  BY <1>3, <1>8, <1>9, <1>10, <1>11

(* The records of a datagram are its own, and so is the first. *)
LEMMA OwnRecords ==
    ASSUME NEW d, Datagram(d), \A i \in DOMAIN d : Form(d[i]), KnownRecords(d) # << >>
    PROVE  /\ IsRecord(d[1]) /\ Form(d[1])
           /\ \A i \in DOMAIN KnownRecords(Tail(d)) : Form(KnownRecords(Tail(d))[i])
<1>1. ASSUME NEW c, IsSeq(c), \A i \in DOMAIN c : IsRecord(c[i]) /\ Form(c[i])
      PROVE  \A i \in DOMAIN KnownRecords(c) : Form(KnownRecords(c)[i])
  <2> DEFINE junk == {i \in DOMAIN c : c[i].type = "junk"}
             n == Min(junk) - 1
  <2>1. CASE junk = {}
    BY <1>1, <2>1 DEF KnownRecords
  <2>2. CASE junk # {}
    <3>1. KnownRecords(c) = SubSeq(c, 1, n)
      BY <2>2 DEF KnownRecords
    <3>2. DOMAIN c = 1 .. Len(c) /\ Len(c) \in Nat
      BY <1>1, IsSeqFacts
    <3>3. Min(junk) \in junk
      BY <2>2, <3>2, MinFacts
    <3>4. n \in Nat /\ n <= Len(c)
      BY <3>2, <3>3
    <3>5. SubSeq(c, 1, n) = [i \in 1 .. n |-> c[i]]
      <4> HIDE DEF n
      <4>1. SubSeq(c, 1, n) = [i \in 1 .. (1 + n - 1) |-> c[i + 1 - 1]]
        BY <3>4 DEF SubSeq
      <4>2. 1 + n - 1 = n /\ \A i \in 1 .. n : i + 1 - 1 = i
        BY <3>4
      <4> QED
        BY <4>1, <4>2
    <3> HIDE DEF n
    <3>6. \A i \in 1 .. n : i \in DOMAIN c
      BY <3>2, <3>4
    <3> QED
      BY <1>1, <3>1, <3>5, <3>6
  <2> QED
    BY <2>1, <2>2
<1>2. Len(d) \in Nat /\ DOMAIN d = 1 .. Len(d) /\ d \in Seq({d[i] : i \in DOMAIN d})
  BY IsSeqFacts DEF Datagram, IsSeq
<1>3. IsRecord(d[1])
  BY DatagramFacts
<1>4. d # << >>
  <2>1. KnownRecords(<< >>) = << >>
    BY DEF KnownRecords
  <2> QED
    BY <2>1
<1>5. 1 \in DOMAIN d
  BY <1>2, <1>4
<1>6. \A i \in DOMAIN Tail(d) : i + 1 \in DOMAIN d /\ Tail(d)[i] = d[i + 1]
  BY <1>2, <1>4
<1>7. IsSeq(Tail(d))
  <2> DEFINE U == {d[i] : i \in DOMAIN d}
  <2>1. d \in Seq(U)
    BY <1>2
  <2> HIDE DEF U
  <2>2. Tail(d) \in Seq(U)
    BY <1>4, <2>1
  <2> QED
    BY <2>2, IsSeqOf
<1>8. \A i \in DOMAIN Tail(d) : IsRecord(Tail(d)[i]) /\ Form(Tail(d)[i])
  BY <1>6 DEF Datagram
<1> QED
  BY <1>1, <1>3, <1>5, <1>7, <1>8

(* A record of the handshake. *)
LEMMA ReceiveDoes ==
    ASSUME HandshakeInv, FInv, NEW fault, NEW at, NEW late, Receive(fault, at, late)
    PROVE  FInv'
<1>1. mode = "recv" /\ net' = net /\ srv' = srv
  BY DEF Receive
<1>2. PICK d \in IF rl.left # << >> THEN {rl.left} ELSE net :
          KnownRecords(d) # << >> /\ Take(d[1], KnownRecords(Tail(d)), fault, at, late)
  BY DEF Receive
<1>3. WayInv /\ ListInv /\ DoneInv
  BY <1>1 DEF FInv
<1>4. Datagram(d) /\ \A i \in DOMAIN d : Form(d[i])
  BY <1>2, <1>3 DEF HandshakeInv, ServerInv, WayInv
<1>5. /\ IsRecord(d[1]) /\ Form(d[1])
      /\ \A i \in DOMAIN KnownRecords(Tail(d)) : Form(KnownRecords(Tail(d))[i])
  BY <1>2, <1>4, OwnRecords
<1> QED
  BY <1>1, <1>2, <1>3, <1>5, TakeDoes

(* Nothing is listed, sent or received. *)
LEMMA ListKept ==
    ASSUME ListInv, ServerStill, srv'.has = srv.has, seen'.ids = seen.ids, rl'.server = rl.server,
           hs'.rf = hs.rf, hs'.rseq = hs.rseq, hs'.flight = hs.flight, hs'.last = hs.last,
           hs'.sf = hs.sf
    PROVE  ListInv'
<1>1. /\ Two' <=> Two
      /\ \A fl, ids : Gathers(fl, ids)' <=> Gathers(fl, ids)
      /\ \A rseq, ids : Taken4(rseq, ids)' <=> Taken4(rseq, ids)
      /\ \A fl, server : IsSix(fl, server)' <=> IsSix(fl, server)
  BY SameServer
<1> QED
  BY <1>1 DEF ListInv

(* The wait is over. *)
LEMMA ElapseDoes ==
    ASSUME HandshakeInv, FInv, Elapse
    PROVE  FInv'
<1>1. mode = "recv" /\ TimedOut(hs) /\ UNCHANGED <<rl, wire, net, srv, faults, seen>>
  BY DEF Elapse
<1>2. Handshake(hs) /\ hs.auth # "completed" /\ ServerStill
  BY <1>1 DEF HandshakeInv, FlightsInv, GoesOn, ServerStill
<1>3. /\ hs'.chip = hs.chip /\ hs'.last = hs.last /\ hs'.auth = hs.auth
      /\ \/ mode' = "exit"
         \/ /\ mode' = "send"
            /\ hs'.rf = hs.rf /\ hs'.rseq = hs.rseq /\ hs'.flight = hs.flight /\ hs'.sf = hs.sf
  BY <1>1, <1>2, TimedOutKeeps
<1>4. WayInv /\ ListInv /\ DoneInv
  BY <1>1 DEF FInv
<1>5. DoneInv'
  BY <1>2, <1>3, <1>4, NotDone DEF DoneInv
<1>6. WayInv'
  BY <1>1, <1>2, <1>4, WayKept DEF WayInv
<1>7. mode' # "exit" => ListInv'
  BY <1>1, <1>2, <1>3, <1>4, ListKept
<1> QED
  BY <1>5, <1>6, <1>7 DEF FInv
-----------------------------------------------------------------------------
(* The steps that send *)

(* The flights awaited are those listed before and new ones. *)
LEMMA AwaitedAre ==
    ASSUME NEW rf, NEW last \in {1, 3, 5}, IsList(rf, last)
    PROVE  \A i \in DOMAIN Awaited(rf, last) :
              \/ \E k \in DOMAIN rf : Awaited(rf, last)[i] = rf[k]
              \/ \E f : Awaited(rf, last)[i] = NewFlight(f)
<1> DEFINE Are(l) == \A i \in DOMAIN l : (\E k \in DOMAIN rf : l[i] = rf[k])
                                         \/ (\E f : l[i] = NewFlight(f))
<1>1. ASSUME NEW l, IsList(l, last), Are(l), NEW f PROVE Are(Add(l, f))
  <2> DEFINE n == NewFlight(f)
  <2>1. Len(l) \in Nat /\ DOMAIN l = 1 .. Len(l) /\ IsSeq(l)
    BY <1>1, IsSeqFacts DEF IsList
  <2>2. Add(l, f) = l \/ Add(l, f) = Append(l, n)
    BY DEF Add
  <2>3. \A i \in DOMAIN Append(l, n) : (i \in DOMAIN l /\ Append(l, n)[i] = l[i]) \/ Append(l, n)[i] = n
    <3> DEFINE U == {l[i] : i \in DOMAIN l}
    <3>1. l \in Seq(U \cup {n})
      BY <2>1 DEF IsSeq
    <3> HIDE DEF U, n
    <3> QED
      BY <2>1, <3>1
  <2> QED
    BY <1>1, <2>2, <2>3
<1>2. Are(rf)
  OBVIOUS
<1> DEFINE first == Answers(last)[1]
           second == Answers(last)[2]
<1>3. first \in FlightsOf(last)
  BY DEF Answers, FlightsOf
<1>4. Awaited(rf, last) = rf \/ Awaited(rf, last) = Add(rf, second)
      \/ Awaited(rf, last) = Add(Add(rf, first), second)
  BY DEF Awaited
<1> HIDE DEF first, second, Are
<1>5. IsList(Add(rf, first), last)
  BY <1>3, AddFacts
<1>6. Are(Awaited(rf, last))
  BY <1>1, <1>2, <1>4, <1>5
<1> QED
  BY <1>6 DEF Are

(* A flight listed anew. *)
LEMMA NewFlightFacts ==
    ASSUME NEW f, NEW ids, NEW server
    PROVE  /\ NewFlight(f).id = f /\ NewFlight(f).state = "ready" /\ IsFlight(NewFlight(f))
           /\ Gathers(NewFlight(f), ids) /\ IsSix(NewFlight(f), server)
<1>1. /\ NewFlight(f).id = f /\ NewFlight(f).state = "ready" /\ DOMAIN NewFlight(f).nodes = {}
      /\ DOMAIN NewFlight(f) = {"id", "state", "nodes"}
  BY DEF NewFlight
<1> QED
  BY <1>1 DEF IsFlight, Gathers, IsSix

(* The flight sent next, and the chip when it is sent. *)
LEMMA NextFlightDoes ==
    ASSUME HandshakeInv, FInv, mode = "send"
    PROVE  LET sf == NextFlight(hs.sf, hs.last)
           IN /\ sf.id \in {1, 3, 5} /\ ChipHas(hs.chip, sf.id)
              /\ sf.id # 5 => hs.last \in 0 .. 3
              /\ sf.id = 5 => hs.last \in {4, 5}
              /\ sf.id = 5 /\ ~Formed(sf) => hs.flight \in {5, 6} \/ Two
<1> DEFINE sf == NextFlight(hs.sf, hs.last)
<1>1. /\ Handshake(hs) /\ GoesOn(hs, rl.enc) /\ ListInv /\ ChipHas(hs.chip, hs.last)
  BY DEF HandshakeInv, FlightsInv, FInv, DoneInv
<1>2. sf.id \in {1, 3, 5}
  BY <1>1, NextFlightFacts
<1>3. hs.last \in {0, 1, 2, 3, 4, 5}
  BY <1>1 DEF GoesOn, Handshake
<1>4. CASE hs.last \in {1, 3, 5}
  <2>1. sf.id = hs.last
    BY <1>1, <1>4 DEF NextFlight, GoesOn, Handshake
  <2>2. hs.last = 5 => hs.flight \in {5, 6} \/ Two
    BY <1>1, <1>4 DEF ListInv, GoesOn
  <2> HIDE DEF sf
  <2>3. ChipHas(hs.chip, sf.id)
    BY <1>1, <2>1
  <2> QED
    BY <1>4, <2>1, <2>2, <2>3 DEF sf
<1>5. CASE hs.last \in {0, 2, 4}
  <2>1. \/ sf = hs.sf /\ hs.sf.id = hs.last + 1
        \/ sf = [id |-> hs.last + 1, state |-> "ready"]
    BY <1>5 DEF NextFlight
  <2>2. sf.id = hs.last + 1
    BY <2>1
  <2>3. sf.id = 5 /\ ~Formed(sf) => hs.flight \in {5, 6} \/ Two
    <3>1. ASSUME sf.id = 5, ~Formed(sf) PROVE hs.sf.id = 5
      <4>1. sf.state # "ready"
        BY <3>1 DEF Formed
      <4> QED
        BY <2>1, <3>1, <4>1
    <3> QED
      BY <1>1, <3>1 DEF ListInv
  <2> HIDE DEF sf
  <2>4. ChipHas(hs.chip, sf.id)
    <3>1. hs.chip \in Seq(Nat)
      BY <1>1 DEF ChipHas
    <3>2. PICK k \in 0 .. Len(hs.chip) :
             /\ \A i \in 1 .. k : hs.chip[i] = 2
             /\ hs.last \in 0 .. 3 => Len(hs.chip) = k
             /\ hs.last \in {4, 5} => Len(hs.chip) = k + 1 /\ hs.chip[k + 1] = 4
      BY <1>1 DEF ChipHas
    <3>3. CASE hs.last \in {0, 2}
      <4>1. sf.id \in {1, 3} /\ Len(hs.chip) = k
        BY <2>2, <3>2, <3>3
      <4>2. ChipHas(hs.chip, 1) /\ ChipHas(hs.chip, 3)
        BY <3>1, <3>2, <4>1 DEF ChipHas
      <4> QED
        BY <4>1, <4>2
    <3>4. CASE hs.last = 4
      <4>1. sf.id = 5 /\ Len(hs.chip) = k + 1 /\ hs.chip[k + 1] = 4
        BY <2>2, <3>2, <3>4
      <4>2. ChipHas(hs.chip, 5)
        BY <3>1, <3>2, <4>1 DEF ChipHas
      <4> QED
        BY <4>1, <4>2
    <3> QED
      BY <1>5, <3>3, <3>4
  <2> QED
    BY <1>5, <2>2, <2>3, <2>4 DEF sf
<1> QED
  BY <1>3, <1>4, <1>5

(* A flight is sent, or the handshake ends. *)
LEMMA SendDoes ==
    ASSUME HandshakeInv, FInv, NEW fault, NEW at, Send(fault, at)
    PROVE  FInv'
<1> DEFINE sf == NextFlight(hs.sf, hs.last)
           noNode == fault = "node" /\ sf.id # hs.sf.id
           r0 == [rl |-> rl, wire |-> wire, ok |-> TRUE]
           r == SendFlight(r0, sf, hs.opt, fault, at)
           rf == Awaited(hs.rf, sf.id)
           began == [hs EXCEPT !.auth = "started"]
           newsf == [sf EXCEPT !.state = "transmitted"]
           flight == IF Formed(sf) THEN sf.id ELSE hs.flight
           sent == [began EXCEPT !.last = sf.id, !.sf = newsf, !.rf = rf, !.flight = flight]
<1>1. /\ mode = "send"
      /\ \/ /\ mode' = "exit"
            /\ \E h \in {hs, began} : \E status : \E fatal : hs' = Ended(h, status, fatal)
         \/ mode' = "recv" /\ hs' = sent /\ rl' = r.rl /\ r.ok /\ ~noNode
      /\ srv' = IF r.ok /\ ~noNode THEN [srv EXCEPT !.has = @ \cup {sf.id}] ELSE srv
      /\ UNCHANGED <<net, seen>>
  BY DEF Send, Fail
<1>2. /\ Handshake(hs) /\ GoesOn(hs, rl.enc) /\ hs.last \in 0 .. 6
      /\ RecordLayer(rl) /\ Numbered(rl, wire) /\ Epochs(rl) /\ ~rl.retransmit
  BY <1>1 DEF HandshakeInv, RecordsInv, FlightsInv, GoesOn, Handshake
<1>3. /\ DOMAIN sf = {"id", "state"} /\ sf.id \in {1, 3, 5} /\ IsList(hs.rf, sf.id)
      /\ sf.id = 5 /\ sf.state # "ready" => rl.enc
  BY <1>2, NextFlightFacts
<1>4. /\ ChipHas(hs.chip, sf.id)
      /\ sf.id # 5 => hs.last \in 0 .. 3
      /\ sf.id = 5 => hs.last \in {4, 5}
      /\ sf.id = 5 /\ ~Formed(sf) => hs.flight \in {5, 6} \/ Two
  BY <1>1, NextFlightDoes
<1>5. WayInv /\ ListInv /\ DoneInv
  BY <1>1 DEF FInv
<1>6. Sending(r0) /\ r0.rl = rl
  BY <1>2 DEF Sending
<1> HIDE DEF sf, r0
<1>7. SameReceiver(rl, r.rl)
  BY <1>2, <1>3, <1>6, SendFlightFacts
<1>8. /\ srv'.cookie = srv.cookie /\ srv'.sent = srv.sent /\ srv'.seq = srv.seq
      /\ r.ok /\ ~noNode => srv'.has = srv.has \cup {sf.id}
  BY <1>1 DEF HandshakeInv, ServerInv
<1>9. ServerStill
  BY <1>1, <1>8 DEF ServerStill
<1>10. CASE /\ mode' = "exit"
            /\ \E h \in {hs, began} : \E status : \E fatal : hs' = Ended(h, status, fatal)
  <2>1. hs'.chip = hs.chip /\ hs'.last = hs.last /\ hs'.auth # "completed"
    BY <1>2, <1>10 DEF Ended, Handshake, GoesOn
  <2>2. DoneInv'
    BY <1>5, <2>1, NotDone DEF DoneInv
  <2> QED
    BY <1>10, <2>2 DEF FInv
<1>11. CASE mode' = "recv" /\ hs' = sent /\ rl' = r.rl /\ r.ok /\ ~noNode
  <2>1. /\ hs'.chip = hs.chip /\ hs'.last = sf.id /\ hs'.auth = "started" /\ hs'.rf = rf
        /\ hs'.rseq = hs.rseq /\ hs'.flight = flight /\ hs'.sf.id = sf.id
    <3>1. newsf.id = sf.id
      BY <1>3
    <3> HIDE DEF newsf, flight, rf
    <3> QED
      BY <1>2, <1>11, <3>1 DEF Handshake
  <2>2. rl'.left = rl.left /\ rl'.ccs = rl.ccs /\ rl'.server = rl.server
    BY <1>7, <1>11 DEF SameReceiver
  <2>3. DoneInv'
    BY <1>4, <2>1, NotDone
  <2>4. WayInv'
    BY <1>5, <1>9, <2>2, WayKept DEF WayInv
  <2>5. \A i \in DOMAIN rf : (\E k \in DOMAIN hs.rf : rf[i] = hs.rf[k]) \/ (\E f : rf[i] = NewFlight(f))
    BY <1>3, AwaitedAre
  <2> HIDE DEF rf
  <2>6. ASSUME NEW i \in DOMAIN rf
        PROVE  /\ IsFlight(rf[i]) /\ (rf[i].id = 6 => IsSix(rf[i], rl.server))
               /\ sf.id # 5 /\ rf[i].id = 4 => rf[i].state = "ready" /\ Gathers(rf[i], seen.ids)
    <3>1. ASSUME NEW k \in DOMAIN hs.rf, rf[i] = hs.rf[k]
          PROVE  /\ IsFlight(rf[i]) /\ (rf[i].id = 6 => IsSix(rf[i], rl.server))
                 /\ sf.id # 5 /\ rf[i].id = 4 => rf[i].state = "ready" /\ Gathers(rf[i], seen.ids)
      BY <1>4, <1>5, <3>1 DEF ListInv
    <3>2. ASSUME NEW f, rf[i] = NewFlight(f)
          PROVE  /\ IsFlight(rf[i]) /\ (rf[i].id = 6 => IsSix(rf[i], rl.server))
                 /\ sf.id # 5 /\ rf[i].id = 4 => rf[i].state = "ready" /\ Gathers(rf[i], seen.ids)
      BY <3>2, NewFlightFacts
    <3> QED
      BY <2>5, <2>6, <3>1, <3>2
  <2>7. /\ Two' <=> Two
        /\ \A fl, ids : Gathers(fl, ids)' <=> Gathers(fl, ids)
        /\ \A rseq, ids : Taken4(rseq, ids)' <=> Taken4(rseq, ids)
        /\ \A fl, server : IsSix(fl, server)' <=> IsSix(fl, server)
    BY <1>9, SameServer
  <2>8. hs'.rseq \in Int /\ \A i \in DOMAIN hs'.rf : IsFlight(hs'.rf[i])
    BY <1>5, <2>1, <2>6 DEF ListInv
  <2>9. hs'.last \in 0 .. 3 => \A i \in DOMAIN hs'.rf : hs'.rf[i].id = 4 =>
          hs'.rf[i].state = "ready" /\ Gathers(hs'.rf[i], seen'.ids)
    BY <1>1, <2>1, <2>6
  <2>10. hs'.last \in {4, 5} => Taken4(hs'.rseq, seen'.ids)
    BY <1>1, <1>3, <1>4, <1>5, <2>1 DEF ListInv
  <2>11. hs'.sf.id = 5 => hs'.last \in {4, 5} /\ 5 \in srv'.has /\ (hs'.flight \in {5, 6} \/ Two')
    BY <1>4, <1>8, <1>11, <2>1, <2>7
  <2>12. \A i \in DOMAIN hs'.rf : hs'.rf[i].id = 6 => IsSix(hs'.rf[i], rl'.server)
    BY <2>1, <2>2, <2>6
  <2>13. ListInv'
    BY <2>7, <2>8, <2>9, <2>10, <2>11, <2>12 DEF ListInv
  <2> QED
    BY <2>3, <2>4, <2>13 DEF FInv
<1> QED
  BY <1>1, <1>10, <1>11
-----------------------------------------------------------------------------
(* The steps of the server, seen from the flights *)

(* What the server adds takes nothing back. *)
LEMMA ServerMoves ==
    ASSUME net \subseteq net', srv.sent \subseteq srv'.sent, srv'.cookie = srv.cookie
    PROVE  /\ Hellos \subseteq Hellos' /\ (Two => Two')
           /\ \A q : Form(q) => Form(q)'
           /\ \A fl, server : IsSix(fl, server) => IsSix(fl, server)'
<1>1. Hellos \subseteq Hellos' /\ (Two => Two')
  BY DEF Hellos, Two
<1>2. \A first, i, j : RecordOfFour(first, i, j)' = RecordOfFour(first, i, j)
  BY DEF RecordOfFour, Record, Message, Number
<1>3. ASSUME NEW q, Form(q) PROVE Form(q)'
  <2>1. q.type = "ccs" => 6 \in srv'.sent
    BY <1>3 DEF Form
  <2>2. \A k \in DOMAIN q.body : InFlight(2, q.body[k].type) => q.body[k].seq \in Int
    BY <1>3 DEF Form
  <2>3. ASSUME NEW k \in DOMAIN q.body, InFlight(4, q.body[k].type)
        PROVE  \E d \in Hellos' : \E i \in DOMAIN Packing : \E j \in DOMAIN Packing[i] :
                  q = RecordOfFour(d[1].seq, i, j)
    BY <1>1, <1>3, <2>3 DEF Form
  <2>4. \A k \in DOMAIN q.body : InFlight(4, q.body[k].type) =>
          \E d \in Hellos' : \E i \in DOMAIN Packing : \E j \in DOMAIN Packing[i] :
              q = RecordOfFour(d[1].seq, i, j)'
    BY <1>2, <2>3
  <2> QED
    BY <2>1, <2>2, <2>4 DEF Form
<1>4. \A fl, server : IsSix(fl, server) => IsSix(fl, server)'
  BY DEF IsSix
<1> QED
  BY <1>1, <1>3, <1>4

(* The server sent, and flight 4 no more often than the flights allow. *)
LEMMA ServerKeeps ==
    ASSUME FInv, mode = "recv", NEW S, net' = net \cup S, IsFiniteSet(S),
           \A d \in S : \A i \in DOMAIN d : Form(d[i])',
           srv.sent \subseteq srv'.sent, srv'.cookie = srv.cookie, srv'.has = srv.has,
           Two' \/ \A d \in Hellos' : d[1].seq \in 0 .. srv'.seq - 1,
           \A fl, ids : Gathers(fl, ids) => Gathers(fl, ids)',
           \A rseq, ids : Taken4(rseq, ids) => Taken4(rseq, ids)',
           UNCHANGED <<rl, mode, hs, seen>>
    PROVE  FInv'
<1>1. /\ Hellos \subseteq Hellos' /\ (Two => Two')
      /\ \A q : Form(q) => Form(q)'
      /\ \A fl, server : IsSix(fl, server) => IsSix(fl, server)'
  BY ServerMoves
<1>2. WayInv /\ ListInv /\ DoneInv
  BY DEF FInv
<1>3. IsFiniteSet(net')
  BY <1>2, FS_Union DEF WayInv
<1>4. \A d \in net' : \A i \in DOMAIN d : Form(d[i])'
  BY <1>1, <1>2 DEF WayInv
<1>5. WayInv'
  BY <1>1, <1>2, <1>3, <1>4 DEF WayInv
<1>6. ListInv'
  BY <1>1, <1>2 DEF ListInv
<1>7. DoneInv'
  BY <1>2 DEF DoneInv
<1> QED
  BY <1>5, <1>6, <1>7 DEF FInv

(* The server sent something else than a flight 4. *)
LEMMA OtherSent ==
    ASSUME FInv, mode = "recv", NEW S, net' = net \cup S, IsFiniteSet(S),
           \A d \in S : \A i \in DOMAIN d : Form(d[i])', Hellos' = Hellos,
           srv.sent \subseteq srv'.sent, srv'.cookie = srv.cookie, srv'.has = srv.has,
           srv.seq \in Nat, srv'.seq = srv.seq + 1, UNCHANGED <<rl, mode, hs, seen>>
    PROVE  FInv'
<1>1. \A fl, ids : Gathers(fl, ids) => Gathers(fl, ids)'
  BY DEF Gathers, Two, Number, IdOfFour
<1>2. \A rseq, ids : Taken4(rseq, ids) => Taken4(rseq, ids)'
  BY DEF Taken4, Two, Number, IdOfFour
<1>3. Two' \/ \A d \in Hellos' : d[1].seq \in 0 .. srv'.seq - 1
  <2>1. Two \/ \A d \in Hellos : d[1].seq \in 0 .. srv.seq - 1
    BY DEF FInv, WayInv
  <2>2. 0 .. srv.seq - 1 \subseteq 0 .. srv'.seq - 1
    OBVIOUS
  <2> QED
    BY <2>1, <2>2 DEF Two
<1> QED
  BY <1>1, <1>2, <1>3, ServerKeeps

(* The server sent a ServerHello. *)
LEMMA HelloSent ==
    ASSUME FInv, mode = "recv", NEW S, net' = net \cup S, IsFiniteSet(S),
           \A d \in S : \A i \in DOMAIN d : Form(d[i])', NEW hello \in Hellos',
           hello \in Hellos => Two, srv.sent \subseteq srv'.sent, srv'.cookie = srv.cookie,
           srv'.has = srv.has, hello[1].seq \in 0 .. srv'.seq - 1, UNCHANGED <<rl, mode, hs, seen>>
    PROVE  FInv'
<1>1. Hellos \subseteq Hellos' /\ (Two => Two')
  BY ServerMoves
<1>3. Hellos # {} => Two'
  BY <1>1 DEF Two
<1>4. ASSUME NEW fl, NEW ids, Gathers(fl, ids) PROVE Gathers(fl, ids)'
  <2>1. \A t \in DOMAIN fl.nodes :
          /\ InFlight(4, t)
          /\ fl.nodes[t].seq = Number(Position(4, t))
          /\ fl.nodes[t].state = "complete" => fl.nodes[t].got = Pieces[t]
    BY <1>4 DEF Gathers
  <2>2. \A t : Number(t)' = Number(t)
    BY DEF Number
  <2>3. Two' \/ DOMAIN fl.nodes = {}
    BY <1>3, <1>4 DEF Gathers
  <2>4. Hellos' # {}
    OBVIOUS
  <2> QED
    BY <2>1, <2>2, <2>3, <2>4 DEF Gathers
<1>5. ASSUME NEW rseq, NEW ids, Taken4(rseq, ids) PROVE Taken4(rseq, ids)'
  <2>1. rseq = Number(5)' /\ Hellos # {}
    BY <1>5 DEF Taken4, Number
  <2> QED
    BY <1>1, <1>3, <2>1 DEF Taken4
<1>6. Two' \/ \A d \in Hellos' : d[1].seq \in 0 .. srv'.seq - 1
  BY DEF Two
<1> QED
  BY <1>4, <1>5, <1>6, ServerKeeps

(* A record that is none of flight 4. *)
LEMMA OneForm ==
    ASSUME NEW type, NEW epoch, NEW seq, NEW body, type = "ccs" => 6 \in srv'.sent,
           \A k \in DOMAIN body : /\ ~InFlight(4, body[k].type)
                                  /\ InFlight(2, body[k].type) => body[k].seq \in Int,
           body = << >> \/ body[1].type # "ServerHello",
           NEW d, d = <<Record(type, epoch, seq, body)>>
    PROVE  /\ \A i \in DOMAIN d : Form(d[i])'
           /\ ~(d[1].body # << >> /\ d[1].body[1].type = "ServerHello")
<1> DEFINE q == Record(type, epoch, seq, body)
<1>1. q.type = type /\ q.body = body
  BY DEF Record
<1> HIDE DEF q
<1>2. Form(q)'
  BY <1>1 DEF Form
<1>3. d = <<q>>
  BY DEF q
<1>4. DOMAIN d = {1} /\ d[1] = q
  BY <1>3
<1> QED
  BY <1>1, <1>2, <1>4

(* What other flights and alerts hold. *)
LEMMA OtherTypes ==
    ASSUME NEW t \in {"HelloVerifyRequest", "Finished", "fatal", "warning", "unlisted"}
    PROVE  /\ ~InFlight(4, t) /\ t # "ServerHello"
           /\ InFlight(2, t) => t = "HelloVerifyRequest"
BY FourPlaces, TwoMessages DEF FourTypes

(* The server counts what it sends. *)
LEMMA SentCounts ==
    ASSUME HandshakeInv, NEW f, NEW used
    PROVE  LET s == Sent(f, used)
           IN /\ s.sent = srv.sent \cup {f} /\ s.cookie = srv.cookie /\ s.has = srv.has
              /\ s.seq = srv.seq + used /\ DOMAIN s = DOMAIN srv
BY DEF HandshakeInv, ServerInv, Sent

(* The HelloVerifyRequest, flight 6 and the alerts of the server. *)
LEMMA OthersDo ==
    ASSUME HandshakeInv, FInv, mode = "recv", UNCHANGED <<rl, wire, mode, hs, faults, seen>>,
           SendHelloVerifyRequest \/ SendFlight6 \/ SendServerAlert
    PROVE  FInv'
<1> DEFINE NotHello(d) == ~(d[1].body # << >> /\ d[1].body[1].type = "ServerHello")
<1>0. srv.seq \in Nat /\ DOMAIN srv = {"cookie", "has", "seq", "seq1", "sent", "extra"}
  BY DEF HandshakeInv, ServerInv
<1>1. ASSUME NEW S, net' = net \cup S, IsFiniteSet(S), \A d \in S : \A i \in DOMAIN d : Form(d[i])',
             \A d \in S : NotHello(d), NEW f, srv'.sent = srv.sent \cup {f},
             srv'.cookie = srv.cookie, srv'.has = srv.has, srv'.seq = srv.seq + 1
      PROVE  FInv'
  <2>1. Hellos' = Hellos
    BY <1>1 DEF Hellos
  <2> QED
    BY <1>0, <1>1, <2>1, OtherSent
<1>2. ASSUME SendHelloVerifyRequest PROVE FInv'
  <2> DEFINE m == [type |-> "HelloVerifyRequest", seq |-> 0, part |-> Pieces["HelloVerifyRequest"]]
             body == <<m>>
             d == <<Record("handshake", 0, srv.seq, body)>>
             S == {d}
  <2>1. net' = net \cup S /\ srv' = Sent(2, 1)
    BY <1>2 DEF SendHelloVerifyRequest
  <2>2. m.type = "HelloVerifyRequest" /\ m.seq = 0
    OBVIOUS
  <2> HIDE DEF m
  <2>3. DOMAIN body = {1} /\ body[1] = m
    OBVIOUS
  <2>4. \A k \in DOMAIN body : /\ ~InFlight(4, body[k].type)
                               /\ InFlight(2, body[k].type) => body[k].seq \in Int
    BY <2>2, <2>3, OtherTypes
  <2>5. body[1].type # "ServerHello"
    BY <2>2, <2>3
  <2> HIDE DEF body
  <2>6. \A c \in S : (\A i \in DOMAIN c : Form(c[i])') /\ NotHello(c)
    <3>1. ASSUME NEW c, c = d PROVE (\A i \in DOMAIN c : Form(c[i])') /\ NotHello(c)
      BY <2>4, <2>5, <3>1, OneForm
    <3> HIDE DEF d, NotHello
    <3> QED
      BY <3>1
  <2> HIDE DEF d
  <2>7. IsFiniteSet(S)
    BY FS_Singleton
  <2>8. /\ srv'.sent = srv.sent \cup {2} /\ srv'.cookie = srv.cookie /\ srv'.has = srv.has
        /\ srv'.seq = srv.seq + 1
    BY <2>1, SentCounts
  <2> HIDE DEF S, NotHello
  <2> QED
    BY <1>1, <2>1, <2>6, <2>7, <2>8
<1>3. ASSUME SendServerAlert PROVE FInv'
  <2>1. PICK level \in {"fatal", "warning", "unlisted"} :
            /\ net' = net \cup {<<Record("alert", 0, srv.seq, <<[type |-> level]>>)>>}
            /\ srv' = Sent(0, 1)
    BY <1>3 DEF SendServerAlert
  <2> DEFINE m == [type |-> level]
             body == <<m>>
             d == <<Record("alert", 0, srv.seq, body)>>
             S == {d}
  <2>2. m.type = level /\ net' = net \cup S
    BY <2>1
  <2> HIDE DEF m
  <2>3. DOMAIN body = {1} /\ body[1] = m
    OBVIOUS
  <2>4. \A k \in DOMAIN body : ~InFlight(4, body[k].type) /\ ~InFlight(2, body[k].type)
    BY <2>1, <2>2, <2>3, OtherTypes
  <2>5. body[1].type # "ServerHello"
    BY <2>1, <2>2, <2>3
  <2> HIDE DEF body
  <2>6. \A c \in S : (\A i \in DOMAIN c : Form(c[i])') /\ NotHello(c)
    <3>1. ASSUME NEW c, c = d PROVE (\A i \in DOMAIN c : Form(c[i])') /\ NotHello(c)
      BY <2>4, <2>5, <3>1, OneForm
    <3> HIDE DEF d, NotHello
    <3> QED
      BY <3>1
  <2> HIDE DEF d
  <2>7. IsFiniteSet(S)
    BY FS_Singleton
  <2>8. /\ srv'.sent = srv.sent \cup {0} /\ srv'.cookie = srv.cookie /\ srv'.has = srv.has
        /\ srv'.seq = srv.seq + 1
    BY <2>1, SentCounts
  <2> HIDE DEF S, NotHello
  <2> QED
    BY <1>1, <2>2, <2>6, <2>7, <2>8
<1>4. ASSUME SendFlight6 PROVE FInv'
  <2> DEFINE number == Number(Len(Messages(4))) + 1
             m == [type |-> "Finished", seq |-> number, part |-> Pieces["Finished"]]
             body == <<m>>
             none == << >>
             d1 == <<Record("ccs", 0, srv.seq, none)>>
             d2 == <<Record("handshake", 1, srv.seq1, body)>>
             S == {d1, d2}
  <2>1. net' = net \cup S /\ srv' = [Sent(6, 1) EXCEPT !.seq1 = @ + 1]
    BY <1>4 DEF SendFlight6
  <2>2. m.type = "Finished"
    OBVIOUS
  <2> HIDE DEF m
  <2>3. DOMAIN body = {1} /\ body[1] = m /\ DOMAIN none = {}
    OBVIOUS
  <2>4. \A k \in DOMAIN body : ~InFlight(4, body[k].type) /\ ~InFlight(2, body[k].type)
    BY <2>2, <2>3, OtherTypes
  <2>5. body[1].type # "ServerHello"
    BY <2>2, <2>3
  <2>6. /\ srv'.sent = srv.sent \cup {6} /\ srv'.cookie = srv.cookie /\ srv'.has = srv.has
        /\ srv'.seq = srv.seq + 1
    BY <1>0, <2>1, SentCounts
  <2> HIDE DEF body
  <2>7. ASSUME NEW c, c = d1 PROVE (\A i \in DOMAIN c : Form(c[i])') /\ NotHello(c)
    <3>1. none = << >>
      OBVIOUS
    <3> HIDE DEF none
    <3> QED
      BY <2>3, <2>6, <2>7, <3>1, OneForm
  <2>8. ASSUME NEW c, c = d2 PROVE (\A i \in DOMAIN c : Form(c[i])') /\ NotHello(c)
    BY <2>4, <2>5, <2>8, OneForm
  <2> HIDE DEF d1, d2, NotHello
  <2>9. \A c \in S : (\A i \in DOMAIN c : Form(c[i])') /\ NotHello(c)
    BY <2>7, <2>8
  <2>10. IsFiniteSet(S)
    <3>1. S = {d1} \cup {d2} /\ IsFiniteSet({d1}) /\ IsFiniteSet({d2})
      BY FS_Singleton
    <3> QED
      BY <3>1, FS_Union
  <2> HIDE DEF S
  <2> QED
    BY <1>1, <2>1, <2>6, <2>9, <2>10
<1> QED
  BY <1>2, <1>3, <1>4

(* A set that is numbered is finite. *)
LEMMA NumberedIsFinite ==
    ASSUME NEW n \in Nat, NEW g, DOMAIN g = 1 .. n
    PROVE  IsFiniteSet({g[i] : i \in 1 .. n})
<1> DEFINE I == 1 .. n
           T == {g[i] : i \in I}
           s == [i \in I |-> g[i]]
<1>1. IsFiniteSet(I)
  BY FS_Interval
<1>2. s \in Surjection(I, T)
  BY DEF Surjection
<1> HIDE DEF s, I
<1>3. IsFiniteSet(T)
  BY <1>1, <1>2, FS_Surjection
<1> QED
  BY <1>3 DEF I

(* The first record of flight 4 has the number it starts from, and the flight *)
(* uses at least one.                                                         *)
LEMMA FlightFourNumbers ==
    /\ 1 \in DOMAIN Packing /\ 1 \in DOMAIN Packing[1] /\ 1 \in DOMAIN Packing[1][1]
    /\ RecordsUpTo[0] = 0
    /\ RecordsUpTo[Len(Packing)] \in Nat /\ RecordsUpTo[Len(Packing)] >= 1
<1>1. Packing \in Seq(Seq(Seq(STRING \X SUBSET Nat))) /\ Packing # << >>
  BY HandshakeAssumption, PackingAssumption
<1> DEFINE n == Len(Packing)
           P == [i \in 1 .. n |-> Len(Packing[i])]
<1>2. n \in Nat /\ n >= 1 /\ DOMAIN Packing = 1 .. n
  BY <1>1
<1>3. ASSUME NEW i \in 1 .. n
      PROVE  /\ Packing[i] \in Seq(Seq(STRING \X SUBSET Nat)) /\ Len(Packing[i]) \in Nat
             /\ Len(Packing[i]) >= 1 /\ DOMAIN Packing[i] = 1 .. Len(Packing[i])
  <2>1. Packing[i] # << >>
    BY <1>2, PackingAssumption
  <2>2. Packing[i] \in Seq(Seq(STRING \X SUBSET Nat))
    BY <1>1, <1>2
  <2> QED
    BY <2>1, <2>2
<1>4. 1 \in DOMAIN Packing /\ 1 \in DOMAIN Packing[1]
  BY <1>2, <1>3
<1>5. 1 \in DOMAIN Packing[1][1]
  <2>1. Packing[1][1] \in Seq(STRING \X SUBSET Nat)
    BY <1>2, <1>3, <1>4
  <2>2. Packing[1][1] # << >>
    BY <1>4, PackingAssumption
  <2> QED
    BY <2>1, <2>2
<1>6. RecordsUpTo \in [0 .. n -> Nat]
  BY RecordsUpToType
<1>7. P \in [1 .. n -> Nat]
  BY <1>3
<1>8. RecordsUpTo = [i \in 0 .. n |-> IF i = 0 THEN 0 ELSE RecordsUpTo[i - 1] + Len(Packing[i])]
  <2>1. PICK f \in [0 .. n -> Nat] : f = [i \in 0 .. n |-> IF i = 0 THEN 0 ELSE f[i - 1] + P[i]]
    BY <1>2, <1>7, RecordsCounted
  <2>2. \A i \in 0 .. n : i # 0 => i \in 1 .. n
    BY <1>2
  <2>3. f = [i \in 0 .. n |-> IF i = 0 THEN 0 ELSE f[i - 1] + Len(Packing[i])]
    BY <2>1, <2>2
  <2> QED
    BY <2>3 DEF RecordsUpTo
<1> HIDE DEF n
<1>9. RecordsUpTo[0] = 0 /\ RecordsUpTo[n] = RecordsUpTo[n - 1] + Len(Packing[n])
  BY <1>2, <1>8
<1>10. RecordsUpTo[n - 1] \in Nat /\ RecordsUpTo[n] \in Nat
  BY <1>2, <1>6
<1>11. Len(Packing[n]) \in Nat /\ Len(Packing[n]) >= 1
  BY <1>2, <1>3
<1> QED
  BY <1>4, <1>5, <1>9, <1>10, <1>11 DEF n

(* Flight 4 of the server. *)
LEMMA FlightFourDoes ==
    ASSUME HandshakeInv, FInv, mode = "recv", UNCHANGED <<rl, wire, mode, hs, faults, seen>>,
           SendFlight4
    PROVE  FInv'
<1> DEFINE n == Len(Packing)
           seq == srv.seq
           g == [i \in 1 .. n |-> DatagramOfFour(seq, i)]
           S == {g[i] : i \in 1 .. n}
           hello == g[1]
           used == RecordsUpTo[n]
<1>1. n \in Nat /\ DOMAIN Packing = 1 .. n
  BY HandshakeAssumption
<1>2. net' = net \cup S /\ srv' = Sent(4, used)
  BY <1>1 DEF SendFlight4
<1>3. /\ srv'.sent = srv.sent \cup {4} /\ srv'.cookie = srv.cookie /\ srv'.has = srv.has
      /\ srv'.seq = seq + used /\ seq \in Nat
  BY <1>2, SentCounts DEF HandshakeInv, ServerInv
<1>4. IsFiniteSet(S)
  <2>1. DOMAIN g = 1 .. n
    OBVIOUS
  <2> HIDE DEF g
  <2> QED
    BY <1>1, <2>1, NumberedIsFinite
<1>5. /\ 1 \in 1 .. n /\ 1 \in DOMAIN Packing[1] /\ 1 \in DOMAIN Packing[1][1]
      /\ RecordsUpTo[0] = 0 /\ used \in Nat /\ used >= 1
  BY <1>1, FlightFourNumbers
<1> HIDE DEF used
<1>6. /\ hello[1].seq = seq /\ hello[1].body # << >> /\ hello[1].body[1].type = "ServerHello"
  <2>1. hello[1] = RecordOfFour(seq, 1, 1)
    BY <1>5 DEF DatagramOfFour
  <2>2. /\ RecordOfFour(seq, 1, 1).seq = seq + RecordsUpTo[1 - 1] + 1 - 1
        /\ RecordOfFour(seq, 1, 1).body = [k \in DOMAIN Packing[1][1] |-> Message(1, 1, k)]
    BY DEF RecordOfFour, Record
  <2>3. RecordsUpTo[1 - 1] = 0
    BY <1>5
  <2>4. Message(1, 1, 1).type = "ServerHello"
    BY PackingAssumption DEF Message
  <2>5. RecordOfFour(seq, 1, 1).body # << >>
    BY <1>5, <2>2
  <2> HIDE DEF hello, seq
  <2>6. seq + RecordsUpTo[1 - 1] + 1 - 1 = seq
    BY <1>3, <2>3
  <2> QED
    BY <1>5, <2>1, <2>2, <2>4, <2>5, <2>6
<1>7. hello \in S
  BY <1>5
<1> HIDE DEF hello, seq
<1>8. hello \in Hellos'
  BY <1>2, <1>6, <1>7 DEF Hellos
<1>9. hello \in Hellos => Two
  <2>1. Two \/ \A d \in Hellos : d[1].seq \in 0 .. srv.seq - 1
    BY DEF FInv, WayInv
  <2> QED
    BY <1>3, <1>6, <2>1 DEF seq
<1>10. hello[1].seq \in 0 .. srv'.seq - 1
  BY <1>3, <1>5, <1>6
<1>11. \A d \in S : \A a \in DOMAIN d : Form(d[a])'
  <2>1. ASSUME NEW i \in 1 .. n, NEW j \in DOMAIN Packing[i], NEW q, q = RecordOfFour(seq, i, j)
        PROVE  Form(q)'
    <3>1. /\ q.type = "handshake" /\ q.body = [k \in DOMAIN Packing[i][j] |-> Message(i, j, k)]
      BY <2>1 DEF RecordOfFour, Record
    <3>2. \A k \in DOMAIN Packing[i][j] : InFlight(4, Message(i, j, k).type)
      BY <1>1, PackingFacts
    <3>3. \A t : InFlight(4, t) => ~InFlight(2, t)
      BY FourPlaces, TwoMessages DEF FourTypes
    <3>4. \A first, a, b : RecordOfFour(first, a, b)' = RecordOfFour(first, a, b)
      BY <1>3 DEF RecordOfFour, Record, Message, Number
    <3>5. \E d \in Hellos' : q = RecordOfFour(d[1].seq, i, j)
      BY <1>6, <1>8, <2>1
    <3>6. \E d \in Hellos' : \E a \in DOMAIN Packing : \E b \in DOMAIN Packing[a] :
             q = RecordOfFour(d[1].seq, a, b)'
      BY <1>1, <3>4, <3>5
    <3>7. q.type # "ccs" /\ \A k \in DOMAIN q.body : ~InFlight(2, q.body[k].type)
      BY <3>1, <3>2, <3>3
    <3> QED
      BY <3>6, <3>7 DEF Form
  <2> QED
    BY <1>1, <2>1 DEF DatagramOfFour
<1> HIDE DEF S
<1> QED
  BY <1>2, <1>3, <1>4, <1>8, <1>9, <1>10, <1>11, HelloSent

(* Any step of the handshake. *)
LEMMA HandshakeDoes ==
    ASSUME HandshakeInv, FInv, HandshakeNext
    PROVE  FInv'
<1>1. CASE ClientSends
  BY <1>1, SendDoes DEF ClientSends
<1>2. CASE ClientReceives
  BY <1>2, ReceiveDoes DEF ClientReceives
<1>3. CASE Elapse
  BY <1>3, ElapseDoes
<1>4. CASE Server
  <2>1. mode = "recv" /\ UNCHANGED <<rl, wire, mode, hs, faults, seen>>
    BY <1>4 DEF Server
  <2>2. SendHelloVerifyRequest \/ SendFlight4 \/ SendFlight6 \/ SendServerAlert
    BY <1>4 DEF Server
  <2>3. CASE SendFlight4
    BY <2>1, <2>3, FlightFourDoes
  <2>4. CASE SendHelloVerifyRequest \/ SendFlight6 \/ SendServerAlert
    BY <2>1, <2>4, OthersDo
  <2> QED
    BY <2>2, <2>3, <2>4
<1> QED
  BY <1>1, <1>2, <1>3, <1>4 DEF HandshakeNext

-----------------------------------------------------------------------------
(* The steps of the session, seen from the flights *)

(* Nothing of the handshake changes. *)
LEMMA StillDoes ==
    ASSUME FInv, UNCHANGED <<rl, mode, hs, net, srv, seen>>
    PROVE  FInv'
<1>1. ServerStill
  BY DEF ServerStill
<1>2. DoneInv => DoneInv'
  BY DEF DoneInv
<1>3. WayInv => WayInv'
  BY <1>1, WayKept DEF WayInv
<1>4. ListInv => ListInv'
  BY <1>1, ListKept
<1> QED
  BY <1>2, <1>3, <1>4 DEF FInv

(* An authenticated session stays in its epoch. *)
InEpoch(q) == q.enc /\ q.next = 1 /\ q.server = 1

(* The handshake is over, and the session stays in its epoch. *)
LEMMA OverDoes ==
    ASSUME FInv, mode' = "exit", hs'.chip = hs.chip, hs'.last = hs.last,
           hs'.auth = "completed" => /\ hs.auth = "completed" /\ hs'.status = hs.status
                                     /\ InEpoch(rl) => InEpoch(rl'),
           srv'.has = srv.has, srv.sent \subseteq srv'.sent
    PROVE  FInv'
<1>1. DoneInv
  BY DEF FInv
<1>2. ChipHas(hs'.chip, hs'.last)
  BY <1>1 DEF DoneInv
<1>3. hs'.auth = "completed" => /\ hs'.last = 6 /\ hs'.status = "ok"
                                /\ 5 \in srv'.has /\ 6 \in srv'.sent
                                /\ rl'.enc /\ rl'.next = 1 /\ rl'.server = 1
  BY <1>1 DEF DoneInv, InEpoch
<1> QED
  BY <1>2, <1>3 DEF FInv, DoneInv

(* A warning and the alert that closes the session leave in its epoch. *)
LEMMA AlertKeeps ==
    ASSUME NEW q, RecordLayer(q), Epochs(q), ~q.retransmit, NEW w, Numbered(q, w), InEpoch(q),
           NEW error \in {"close", "norenegotiate"}
    PROVE  InEpoch(SendAlert(q, w, error).rl)
<1> DEFINE r0 == [rl |-> q, wire |-> w, ok |-> TRUE]
           g == SendRecord(r0, "alert", "none")
<1>1. ~AlertInOldEpoch(q, error)
  BY DEF AlertInOldEpoch, InEpoch
<1>2. SendAlert(q, w, error) = g
  BY <1>1 DEF SendAlert
<1>3. Sending(r0) /\ r0.rl = q
  BY DEF Sending
<1> HIDE DEF r0
<1>4. Sending(g) /\ SameReceiver(q, g.rl) /\ g.rl.enc
  BY <1>3, SendRecordFacts DEF InEpoch
<1> HIDE DEF g
<1> QED
  BY <1>2, <1>4 DEF Sending, SameReceiver, Epochs, InEpoch

(* The session is closed. *)
LEMMA CloseDoes ==
    ASSUME IInv, FInv, CloseSession, mode = "exit" \/ hs.auth = "initialised"
    PROVE  FInv'
<1> DEFINE alerted == SendAlert(rl, wire, "close")
           kept == [rl EXCEPT !.left = << >>]
           sent == [alerted.rl EXCEPT !.left = << >>]
<1>1. /\ UNCHANGED <<mode, hs, net, srv, seen>>
      /\ rl' = IF hs.auth # "initialised" /\ ~hs.fatal THEN sent ELSE kept
  BY DEF CloseSession
<1>2. RecordLayer(rl) /\ Numbered(rl, wire) /\ (hs.fatal \/ (Epochs(rl) /\ ~rl.retransmit))
  BY DEF IInv, HandshakeInv, RecordsInv
<1>3. kept.left = << >> /\ kept.ccs = rl.ccs /\ kept.server = rl.server /\ (InEpoch(rl) => InEpoch(kept))
  BY <1>2 DEF RecordLayer, InEpoch
<1>4. CASE mode = "exit"
  <2>1. InEpoch(rl) => InEpoch(rl')
    <3>1. CASE rl' = kept
      BY <1>3, <3>1
    <3>2. CASE rl' = sent /\ ~hs.fatal
      <4>1. InEpoch(rl) => InEpoch(alerted.rl)
        BY <1>2, <3>2, AlertKeeps
      <4>2. RecordLayer(alerted.rl)
        BY <1>2, <3>2, SendAlertFacts
      <4> HIDE DEF alerted
      <4>3. InEpoch(alerted.rl) => InEpoch(sent)
        BY <4>2 DEF RecordLayer, InEpoch
      <4> QED
        BY <3>2, <4>1, <4>3
    <3> QED
      BY <1>1, <3>1, <3>2
  <2> QED
    BY <1>1, <1>4, <2>1, OverDoes
<1>5. CASE mode # "exit"
  <2>1. hs.auth = "initialised" /\ WayInv /\ ListInv /\ DoneInv
    BY <1>5 DEF FInv
  <2>2. rl'.left = << >> /\ rl'.ccs = rl.ccs /\ rl'.server = rl.server
    BY <1>1, <1>3, <2>1
  <2>3. ServerStill
    BY <1>1 DEF ServerStill
  <2>4. \A i \in DOMAIN rl'.left : Form(rl'.left[i])
    BY <2>2
  <2>5. WayInv'
    BY <2>1, <2>2, <2>3, <2>4, WayKept DEF WayInv
  <2>6. ListInv'
    BY <1>1, <2>1, <2>2, <2>3, ListKept
  <2>7. DoneInv'
    BY <1>1, <2>1, NotDone DEF DoneInv
  <2> QED
    BY <2>5, <2>6, <2>7 DEF FInv
<1> QED
  BY <1>4, <1>5

(* OCP_Connect begins, or returns. *)
LEMMA ConnectDoes ==
    ASSUME IInv, FInv, (\E fault : OCPConnect(fault)) \/ OCPConnectReturns
    PROVE  FInv'
<1>1. CASE \E fault : OCPConnect(fault)
  <2>1. ses.phase = "ready" /\ (CloseSession \/ UNCHANGED <<rl, wire, mode, hs, net, srv, seen>>)
    BY <1>1 DEF OCPConnect
  <2>2. hs.auth = "initialised"
    BY <2>1 DEF IInv, SessionInv, InitialHandshake
  <2> QED
    BY <2>1, <2>2, CloseDoes, StillDoes
<1>2. CASE OCPConnectReturns
  <2>1. mode = "exit" /\ (CloseSession \/ UNCHANGED <<rl, wire, mode, hs, net, srv, seen>>)
    BY <1>2 DEF OCPConnectReturns
  <2> QED
    BY <2>1, CloseDoes, StillDoes
<1> QED
  BY <1>1, <1>2

(* OCP_Send. *)
LEMMA OCPSendDoes ==
    ASSUME IInv, FInv, NEW fault, OCPSend(fault)
    PROVE  FInv'
<1> DEFINE r0 == [rl |-> rl, wire |-> wire, ok |-> TRUE]
           r == SendRecord(r0, "app", fault)
<1>1. ses.phase = "connected" /\ rl' = r.rl /\ UNCHANGED <<mode, hs, net, srv, seen, ses>>
  BY DEF OCPSend, Ready
<1>2. mode = "exit" /\ ~hs.fatal
  BY <1>1 DEF IInv, SessionInv
<1>3. Sending(r0) /\ r0.rl = rl /\ ~rl.retransmit
  BY <1>2 DEF IInv, HandshakeInv, RecordsInv, Sending
<1> HIDE DEF r0
<1>4. Sending(r) /\ SameReceiver(rl, r.rl) /\ (rl.enc => r.rl.enc)
  BY <1>3, SendRecordFacts
<1> HIDE DEF r
<1>5. InEpoch(rl) => InEpoch(r.rl)
  BY <1>4 DEF Sending, SameReceiver, Epochs, InEpoch
<1> QED
  BY <1>1, <1>2, <1>5, OverDoes

(* A record for OCP_Receive. *)
LEMMA OCPReceiveRecordDoes ==
    ASSUME IInv, FInv, NEW fault, OCPReceiveRecord(fault)
    PROVE  FInv'
<1>1. ses.reading /\ UNCHANGED <<mode, net, srv>>
  BY DEF OCPReceiveRecord
<1>2. PICK d \in IF rl.left # << >> THEN {rl.left} ELSE net :
          LET r == ReceiveRecord(rl, d[1], "app", fault)
              rest == KnownRecords(Tail(d))
              kept == [r.rl EXCEPT !.left = rest]
          IN /\ KnownRecords(d) # << >>
             /\ hs' \in {hs, [hs EXCEPT !.auth = "closed"]}
             /\ rl' \in {kept, SendAlert(kept, wire, "norenegotiate").rl}
  BY DEF OCPReceiveRecord
<1> DEFINE r == ReceiveRecord(rl, d[1], "app", fault)
           kept == [r.rl EXCEPT !.left = KnownRecords(Tail(d))]
           refused == SendAlert(kept, wire, "norenegotiate")
<1>3. hs' \in {hs, [hs EXCEPT !.auth = "closed"]} /\ rl' \in {kept, refused.rl}
  BY <1>2
<1>4. Datagram(d)
  BY <1>2 DEF IInv, HandshakeInv, ServerInv
<1>5. IsRecord(d[1])
  BY <1>2, <1>4, DatagramFacts
<1>6. /\ RecordLayer(rl) /\ (rl.ccs => rl.server = 0) /\ Windows(rl, seen.ids)
      /\ Numbered(rl, wire)
  BY DEF IInv, HandshakeInv, RecordsInv, WindowsInv
<1>7. SameSender(rl, r.rl)
  <2> DEFINE q == d[1]
  <2>1. q.epoch \in {0, 1} /\ q.seq \in Nat
    BY <1>5 DEF IsRecord
  <2> HIDE DEF q
  <2>2. Recorded(rl, seen.ids, q, ReceiveRecord(rl, q, "app", fault))
    BY <1>6, <2>1, ReceiveRecordFacts
  <2> QED
    BY <2>2 DEF q, Recorded
<1> HIDE DEF r
<1>8. mode = "exit" /\ ~hs.fatal
  BY <1>1 DEF IInv, SessionInv
<1>9. Epochs(rl) /\ ~rl.retransmit
  BY <1>8 DEF IInv, HandshakeInv, RecordsInv
<1>10. /\ RecordLayer(kept) /\ Epochs(kept) /\ ~kept.retransmit /\ Numbered(kept, wire)
       /\ InEpoch(rl) => InEpoch(kept)
  <2>1. /\ RecordLayer(kept) /\ kept.next = rl.next /\ kept.server = rl.server /\ kept.seq = rl.seq
        /\ kept.nextseq = rl.nextseq /\ kept.enc = rl.enc /\ kept.retransmit = rl.retransmit
    BY <1>7 DEF SameSender, RecordLayer
  <2> HIDE DEF kept
  <2> QED
    BY <1>6, <1>9, <2>1 DEF Epochs, Numbered, InEpoch
<1> HIDE DEF kept
<1>11. InEpoch(kept) => InEpoch(refused.rl)
  BY <1>10, AlertKeeps
<1> HIDE DEF refused
<1>12. hs'.chip = hs.chip /\ hs'.last = hs.last /\ hs'.auth \in {hs.auth, "closed"}
       /\ hs'.status = hs.status
  BY <1>3 DEF IInv, HandshakeInv, FlightsInv, Handshake
<1> QED
  BY <1>1, <1>3, <1>8, <1>10, <1>11, <1>12, OverDoes

(* The server's data. *)
LEMMA SendDataDoes ==
    ASSUME IInv, FInv, SendData
    PROVE  FInv'
<1>1. /\ ses.reading /\ UNCHANGED <<rl, wire, mode, hs, faults, seen, ses>>
      /\ srv' = [srv EXCEPT !.sent = @ \cup {8}, !.seq1 = @ + 2]
  BY DEF SendData
<1>2. mode = "exit"
  BY <1>1 DEF IInv, SessionInv
<1>3. srv'.has = srv.has /\ srv.sent \subseteq srv'.sent
  BY <1>1 DEF IInv, HandshakeInv, ServerInv
<1> QED
  BY <1>1, <1>2, <1>3, OverDoes

-----------------------------------------------------------------------------
(* The agreement of chip, client and server *)

(* It holds at the start: the chip has nothing, and nothing is on its way. *)
LEMMA InitDoes ==
    ASSUME Init
    PROVE  FInv
<1>1. /\ rl = InitialRecordLayer /\ mode = "send" /\ hs = InitialHandshake
      /\ net = {<<Record("junk", 0, 0, << >>)>>} /\ seen = [ids |-> {}, twice |-> FALSE]
  BY DEF Init, HandshakeInit
<1>2. PICK cookie \in BOOLEAN : srv = InitialServer(cookie)
  BY DEF Init, HandshakeInit
<1>3. /\ hs.chip = << >> /\ hs.last = 0 /\ hs.rf = << >> /\ hs.rseq = -1 /\ hs.sf.id = 0
      /\ hs.auth = "initialised" /\ rl.left = << >> /\ ~rl.ccs
  BY <1>1 DEF InitialHandshake, NoFlight, InitialRecordLayer
<1>4. DoneInv
  <2>1. << >> \in Seq(Nat) /\ Len(<< >>) = 0
    OBVIOUS
  <2> QED
    BY <1>3, <2>1 DEF DoneInv, ChipHas
<1>5. ListInv
  BY <1>3 DEF ListInv
<1>6. WayInv
  <2> DEFINE q == Record("junk", 0, 0, << >>)
             d == <<q>>
  <2>1. q.type = "junk" /\ q.body = << >>
    BY DEF Record
  <2> HIDE DEF q
  <2>2. DOMAIN d = {1} /\ d[1] = q /\ net = {d}
    BY <1>1 DEF q
  <2> HIDE DEF d
  <2>3. Form(q)
    BY <2>1 DEF Form
  <2>4. IsFiniteSet(net)
    BY <2>2, FS_Singleton
  <2>5. Hellos = {}
    BY <2>1, <2>2 DEF Hellos
  <2> QED
    BY <1>3, <2>2, <2>3, <2>4, <2>5 DEF WayInv
<1> QED
  BY <1>4, <1>5, <1>6 DEF FInv

(* OCP_Init leaves everything but the session as it is. *)
LEMMA OCPInitKeeps ==
    ASSUME NEW failing, OCPInit(failing)
    PROVE  UNCHANGED <<rl, wire, mode, hs, net, srv, seen>>
<1> DEFINE n == IF failing = "none" THEN Len(InitSteps) + 1
                ELSE CHOOSE i \in DOMAIN InitSteps : InitSteps[i] = failing
           done == {InitSteps[i] : i \in 1 .. n - 1}
           mem == Memory \cap done
           socket == "socket" \in done
           registered == "registry" \in done
           s == [ses EXCEPT !.mem = mem, !.socket = socket, !.registered = registered]
           configured == "clcfg" \in done
           freed == FreeMemory(s, configured)
<1>1. /\ ses.phase = "none"
      /\ ses' = IF failing = "none" THEN [s EXCEPT !.phase = "ready"]
                ELSE [freed EXCEPT !.phase = "over"]
      /\ Faulty(failing)
      /\ UNCHANGED <<rl, wire, mode, hs, net, srv, seen>>
  BY ZenonT(60) DEF OCPInit
<1> HIDE DEF s, freed
<1> QED
  BY <1>1

(* Every step keeps it. *)
LEMMA NextDoes ==
    ASSUME IInv, FInv, [Next]_allvars
    PROVE  FInv'
<1>1. CASE \E failing \in MayFail(Range(InitSteps)) : OCPInit(failing)
  <2>1. PICK failing : OCPInit(failing)
    BY <1>1
  <2>2. UNCHANGED <<rl, wire, mode, hs, net, srv, seen>>
    BY <2>1, OCPInitKeeps
  <2> QED
    BY <2>2, StillDoes
<1>2. CASE \E fault \in MayFail({"connect", "scheme"}) : OCPConnect(fault)
  BY <1>2, ConnectDoes
<1>3. CASE Within(HandshakeNext)
  BY <1>3, HandshakeDoes DEF Within, IInv
<1>4. CASE OCPConnectReturns
  BY <1>4, ConnectDoes
<1>5. CASE \E fault \in MayFail({"malloc", "chip", "net"}) : OCPSend(fault)
  BY <1>5, OCPSendDoes
<1>6. CASE \E fault \in MayFail({"malloc"}) : OCPReceive(fault)
  BY <1>6, StillDoes DEF OCPReceive
<1>7. CASE \E fault \in MayFail({"malloc", "chip"}) : OCPReceiveRecord(fault)
  BY <1>7, OCPReceiveRecordDoes
<1>8. CASE OCPReceiveTimeout
  BY <1>8, StillDoes DEF OCPReceiveTimeout
<1>9. CASE OCPDisconnect
  <2>1. CloseSession /\ ses.phase = "connected"
    BY <1>9 DEF OCPDisconnect
  <2>2. mode = "exit"
    BY <2>1 DEF IInv, SessionInv
  <2> QED
    BY <2>1, <2>2, CloseDoes
<1>10. CASE SendData
  BY <1>10, SendDataDoes
<1>11. CASE UNCHANGED allvars
  BY <1>11, StillDoes DEF allvars
<1> QED
  BY <1>1, <1>2, <1>3, <1>4, <1>5, <1>6, <1>7, <1>8, <1>9, <1>10, <1>11 DEF Next

(* A sequence of two numbers, and what it starts with. *)
LEMMA PrefixFacts ==
    ASSUME NEW p \in Seq(Nat), NEW a \in Nat, NEW b \in Nat, Len(p) <= 2,
           \A i \in 1 .. Len(p) : p[i] = <<a, b>>[i]
    PROVE  IsPrefix(p, <<a, b>>)
<1> DEFINE t == <<a, b>>
           n == Len(p)
           p1 == SubSeq(p, 1, n)
           t1 == SubSeq(t, 1, n)
<1>1. t \in Seq(Nat) /\ Len(t) = 2 /\ n \in Nat
  OBVIOUS
<1> HIDE DEF t
<1>2. p1 \in Seq(Nat) /\ Len(p1) = n /\ \A i \in 1 .. n : p1[i] = p[i]
  BY <1>1
<1>3. t1 \in Seq(Nat) /\ Len(t1) = n /\ \A i \in 1 .. n : t1[i] = t[i]
  BY <1>1
<1> HIDE DEF p1, t1
<1>4. p1 = t1
  BY <1>2, <1>3, SeqEqual DEF t
<1> QED
  BY <1>1, <1>4 DEF IsPrefix, p1, t1, t

(* What follows the first flights of a sequence. *)
LEMMA TailInOrder ==
    ASSUME NEW c \in Seq(Nat), NEW k \in Nat,
           \/ Len(c) = k
           \/ Len(c) = k + 1 /\ c[k + 1] = 4
           \/ Len(c) = k + 2 /\ c[k + 1] = 4 /\ c[k + 2] = 6
    PROVE  IsPrefix(SubSeq(c, k + 1, Len(c)), <<4, 6>>)
<1> DEFINE l == Len(c)
           p == SubSeq(c, k + 1, l)
           t == <<4, 6>>
<1>1. l \in Nat /\ k + 1 \in Nat /\ k <= l /\ l - k \in Nat /\ l - k <= 2
  OBVIOUS
<1>2. p \in Seq(Nat) /\ Len(p) = l - k
  BY <1>1
<1>3. \A i \in 1 .. l - k : p[i] = c[k + i]
  BY <1>1
<1>4. l - k >= 1 => c[k + 1] = 4
  OBVIOUS
<1>5. l - k >= 2 => c[k + 2] = 6
  OBVIOUS
<1>6. t[1] = 4 /\ t[2] = 6
  OBVIOUS
<1> HIDE DEF l, p, t
<1>7. \A i \in 1 .. Len(p) : p[i] = t[i]
  BY <1>1, <1>2, <1>3, <1>4, <1>5, <1>6
<1>8. Len(p) <= 2
  BY <1>1, <1>2
<1> QED
  BY <1>2, <1>7, <1>8, PrefixFacts DEF l, p, t

(* The chip's flights are in order when they are counted. *)
LEMMA ChipInOrder ==
    ASSUME NEW last \in 0 .. 6, ChipHas(hs.chip, last)
    PROVE  ChipSeesFlightsInOrder /\ (last = 6 => Last(hs.chip) = 6)
<1> DEFINE chip == hs.chip
           l == Len(chip)
           n == Cardinality({i \in DOMAIN chip : chip[i] = 2})
<1>1. chip \in Seq(Nat) /\ l \in Nat /\ DOMAIN chip = 1 .. l
  BY DEF ChipHas
<1>2. PICK k \in 0 .. l :
         /\ \A i \in 1 .. k : chip[i] = 2
         /\ last \in 0 .. 3 => l = k
         /\ last \in {4, 5} => l = k + 1 /\ chip[k + 1] = 4
         /\ last = 6 => l = k + 2 /\ chip[k + 1] = 4 /\ chip[k + 2] = 6
  BY DEF ChipHas
<1>3. n = k
  <2>1. {i \in DOMAIN chip : chip[i] = 2} = 1 .. k
    BY <1>1, <1>2
  <2>2. k \in Nat /\ 1 \in Int /\ k \in Int
    BY <1>1, <1>2
  <2>3. Cardinality(1 .. k) = IF 1 > k THEN 0 ELSE k - 1 + 1
    BY <2>2, FS_Interval
  <2>4. (IF 1 > k THEN 0 ELSE k - 1 + 1) = k
    BY <2>2, <1>1, <1>2
  <2> DEFINE K == 1 .. k
  <2>5. Cardinality(K) = k
    BY <2>3, <2>4
  <2>6. {i \in DOMAIN chip : chip[i] = 2} = K
    BY <2>1
  <2> HIDE DEF K
  <2> QED
    BY <2>5, <2>6
<1>4. last \in 0 .. 3 \/ last \in {4, 5} \/ last = 6
  OBVIOUS
<1>5. \/ Len(chip) = k
      \/ Len(chip) = k + 1 /\ chip[k + 1] = 4
      \/ Len(chip) = k + 2 /\ chip[k + 1] = 4 /\ chip[k + 2] = 6
  BY <1>1, <1>2, <1>4
<1>6. IsPrefix(SubSeq(chip, k + 1, Len(chip)), <<4, 6>>)
  BY <1>1, <1>2, <1>5, TailInOrder
<1>7. last = 6 => Last(chip) = 6
  BY <1>1, <1>2 DEF Last
<1>8. \A i \in 1 .. n : chip[i] = 2
  BY <1>2, <1>3
<1>9. IsPrefix(SubSeq(chip, n + 1, Len(chip)), <<4, 6>>)
  BY <1>3, <1>6
<1> QED
  BY <1>7, <1>8, <1>9 DEF ChipSeesFlightsInOrder

(* Two datagrams start with a ServerHello, and they are counted. *)
LEMMA TwoAreTwo ==
    ASSUME IsFiniteSet(net), Two
    PROVE  Cardinality(Hellos) > 1
<1>1. PICK d \in Hellos : \E e \in Hellos : d # e
  BY DEF Two
<1>2. PICK e \in Hellos : d # e
  BY <1>1
<1>3. Hellos \subseteq net
  BY DEF Hellos
<1> HIDE DEF Hellos
<1>4. IsFiniteSet(Hellos)
  BY <1>3, FS_Subset
<1>5. Cardinality({d} \cup {e}) = 2 /\ IsFiniteSet({d} \cup {e})
  <2>1. IsFiniteSet({d}) /\ Cardinality({d}) = 1 /\ IsFiniteSet({e}) /\ Cardinality({e}) = 1
    BY FS_Singleton
  <2>2. {d} \cap {e} = {} /\ Cardinality({}) = 0
    BY <1>2, FS_EmptySet
  <2> DEFINE D == {d}
             E == {e}
  <2>3. IsFiniteSet(D) /\ IsFiniteSet(E) /\ Cardinality(D) = 1 /\ Cardinality(E) = 1
        /\ Cardinality(D \cap E) = 0
    BY <2>1, <2>2
  <2> HIDE DEF D, E
  <2>4. IsFiniteSet(D \cup E) /\ Cardinality(D \cup E) = 2
    BY <2>3, FS_Union
  <2> QED
    BY <2>4 DEF D, E
<1>6. {d} \cup {e} \subseteq Hellos
  OBVIOUS
<1>7. Cardinality({d} \cup {e}) <= Cardinality(Hellos) /\ Cardinality(Hellos) \in Nat
  BY <1>4, <1>6, FS_Subset, FS_CardinalityType
<1> QED
  BY <1>5, <1>7

(* Chip, client and server agree on how far the handshake is, for every      *)
(* packing of flight 4, and whatever the network loses, repeats and          *)
(* reorders: the chip is given the flights once and in order, a session is   *)
(* authenticated only when both sides have changed to its epoch, and flight  *)
(* 6 is no longer awaited only when flight 4 was sent again.                 *)
THEOREM FlightsAgreeAlways == Spec => []FlightsAgree
<1>1. Init => FInv
  BY InitDoes
<1>2. IInv /\ FInv /\ [Next]_allvars => FInv'
  BY NextDoes
<1>3. IInv /\ FInv => FlightsAgree
  <2> SUFFICES ASSUME IInv, FInv PROVE FlightsAgree
    OBVIOUS
  <2>1. /\ hs.last \in 0 .. 6 /\ DoneInv
        /\ mode = "recv" /\ hs.last = 5 => hs.sf.id = 5
    BY DEF IInv, HandshakeInv, FlightsInv, Handshake, GoesOn, FInv
  <2>2. ChipHas(hs.chip, hs.last)
    BY <2>1 DEF DoneInv
  <2>3. ChipSeesFlightsInOrder /\ (hs.last = 6 => Last(hs.chip) = 6)
    BY <2>1, <2>2, ChipInOrder
  <2>4. CompletedAgrees
    BY <2>1, <2>3 DEF CompletedAgrees, DoneInv
  <2>5. FlightSixAwaited
    <3>1. ASSUME mode = "recv", hs.last = 5, hs.flight \notin {5, 6}
          PROVE  Cardinality(Hellos) > 1
      BY <2>1, <3>1, TwoAreTwo DEF FInv, ListInv, WayInv
    <3> QED
      BY <3>1 DEF FlightSixAwaited
  <2> QED
    BY <2>3, <2>4, <2>5 DEF FlightsAgree
<1> QED
  BY <1>1, <1>2, <1>3, Invariant, PTL DEF Spec
=============================================================================
