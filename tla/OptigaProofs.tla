----------------------------- MODULE OptigaProofs -----------------------------
(***************************************************************************)
(* Proofs about the OPTIGA command library, for any calls of the shapes the *)
(* program makes, any limit of the device and any size of its objects.      *)
(***************************************************************************)
EXTENDS OptigaCrypt, TLAPS

\* The arguments of CmdLib_CalcHash.
HashSized(a) ==
  /\ a.cmd = "CalcHash" /\ ~a.missing /\ a.context = CALC_HASH_SHA256_CONTEXT_SIZE
  /\ a.sequence \in {"start", "continue", "final"} /\ a.action \in {"import", "export", "both", "none"}
  /\ a.len \in Nat
Opening == [cmd |-> "OpenApplication"]
Asking  == [cmd |-> "GetMaxCommsBuffer"]

Hashing == {"hash_start", "hash_update", "hash_finalize"}
Working == pc \in {"issue", "sent", "answered", "failed"}
Crypted == {"Encrypt", "Decrypt"}
Objects == {"GetDataObject", "SetDataObject"}

\* A command runs for the call that runs it.
Runner ==
  \/ Callable(call) /\ ~Rejected(call) /\ arg = call.arg
  \/ call.api = "open" /\ arg \in {Opening, Asking}
  \/ call.api = "limit" /\ arg = CurrentLimitation.arg
  \/ call.api \in Hashing /\ HashSized(arg)

\* The parts of the device that say how long its answers are.
ChipOK(c) ==
  /\ DOMAIN c = {"open", "hash", "auth", "challenge", "used", "from", "to", "sent"}
  /\ c.used \in Nat /\ c.sent \in Nat

Types ==
  /\ pc \in {"idle", "boot", "issue", "sent", "answered", "failed", "done"}
  /\ wMaxCommsBuffer \in {Unknown, DeviceMax}
  /\ left \in Nat /\ ChipOK(chip)
  /\ k.step \in 0..2 /\ k.done \in Nat /\ k.total \in Nat
  /\ Working => Runner
  /\ Working /\ call.api = "hash_update" => arg.len <= left

\* The cut where the loop of EncDecHelper is, and the fragments from there on, which nothing
\* has been written over.
AheadIn(b) ==
  /\ \A from \in Cuts(arg.len, wMaxCommsBuffer) :
       from >= k.done => Fragment(from, arg.len, wMaxCommsBuffer) \in b
  /\ \A p \in b :
       /\ p.at \in Int /\ p.len \in Nat \ {0}
       /\ \/ p.at + p.len <= OVERHEAD_UPDOWNLINK + k.done
          \/ \E from \in Cuts(arg.len, wMaxCommsBuffer) :
               from >= k.done /\ p = Fragment(from, arg.len, wMaxCommsBuffer)
Behind(b) == \A p \in b : p.at \in Int /\ p.at >= LEN_APDUHEADER /\ p.len \in Nat

\* What is in the buffer for a request before it is made: the caller's message, or the
\* object's name in the request before.
Before ==
  IF arg.cmd \in Objects /\ k.done # 0 THEN {Oid(4, arg.oid)}
  ELSE IF arg.cmd = "PutMessage" THEN {Piece(9, arg.len - 9, "message", arg.len)}
  ELSE {}

\* The loops are inside what they were asked for.
InBounds ==
  /\ arg.cmd \in Objects => k.done = 0 \/ k.done < arg.len
  /\ arg.cmd \in Crypted => arg.len = 0 \/ k.done \in Cuts(arg.len, wMaxCommsBuffer)

\* The commands that send several requests from one buffer.
Several == Crypted \cup {"GetSignature", "GetMessage"}
Ready(b) ==
  /\ arg.cmd \in Crypted => AheadIn(b)
  /\ arg.cmd = "GetSignature" => IF k.step < 2 THEN b = {} ELSE Behind(b)
  /\ arg.cmd = "GetMessage" => (\A p \in b : p \in GetMessage(arg, wMaxCommsBuffer).writes)
  /\ arg.cmd \notin Several => b = Before

\* The buffer a request is written to; CmdLib_GetSignature allocates one for each of the first two.
Prior == IF arg.cmd = "GetSignature" /\ k.step < 2 THEN {} ELSE buffer

\* The payload the device finds: what the request writes and what was there before.
Parcel ==
  IF arg.cmd \in Crypted
  THEN {p \in req.writes : p.what[1] # "header"} \cup {Fragment(k.done, arg.len, wMaxCommsBuffer)}
  ELSE req.writes \cup Before

Loaded ==
  /\ Sent = Parcel
  /\ arg.cmd \in Crypted => AheadIn(buffer)
  /\ arg.cmd = "GetSignature" => Behind(buffer)
  /\ arg.cmd \notin Crypted \cup {"GetSignature"} => buffer = Parcel

\* What is left of a request when the response has been written over it.
Overwritten ==
  /\ arg.cmd \in Crypted => AheadIn(buffer)
  /\ arg.cmd = "GetSignature" => Behind(buffer)
  /\ arg.cmd \in Objects => buffer = {Oid(4, arg.oid)}
  /\ arg.cmd = "GetMessage" => (\A p \in buffer : p \in req.writes)

\* The response has a length, and there is something in one to GetDataObject.
Answered ==
  /\ ans.len \in Int /\ (arg.cmd = "GetDataObject" => ans.len > 4)
  /\ arg.cmd \in Crypted => ans.n \in Nat

Requested == req = Request(arg, k, wMaxCommsBuffer) /\ req.status = "ok"

MemoryInv ==
  /\ Types
  /\ Working => InBounds
  /\ pc = "issue" => Ready(Prior)
  /\ pc \in {"sent", "answered"} => Requested
  /\ pc = "sent" => Loaded
  /\ pc = "answered" => Overwritten /\ AnswersFit /\ Answered
-----------------------------------------------------------------------------
(* Requests *)

\* The pieces of a request, from its first byte to its last, without a gap.
Row(ps, first, end) ==
  /\ Lined(ps, first, end) /\ first \in Nat /\ end \in Nat
  /\ \A p \in ps : p.at \in Nat /\ p.len \in Nat

\* A request begins with nothing.
LEMMA RowEmpty == Row({}, 4, 4)
BY DEF Row, Lined

\* A piece put behind a row makes a longer one.
LEMMA RowThen ==
  ASSUME NEW ps, NEW first, NEW mid, NEW end, NEW p,
         Row(ps, first, mid), p.at = mid, p.len \in Nat \ {0}, end = mid + p.len
  PROVE  Row(ps \cup {p}, first, end)
<1>1. /\ first \in Nat /\ mid \in Nat /\ end \in Nat /\ p.at \in Nat /\ p.len \in Nat /\ first <= mid
      /\ \A x \in ps : x.at \in Nat /\ x.len \in Nat /\ x.at >= first /\ x.len > 0 /\ x.at + x.len <= mid
  <2>1. /\ first \in Nat /\ mid \in Nat
        /\ \A x \in ps : x.at \in Nat /\ x.len \in Nat /\ x.at >= first /\ x.len > 0 /\ x.at + x.len <= mid
        /\ first = mid \/ \E x \in ps : x.at = first
    BY DEF Row, Lined
  <2> QED  BY <2>1
<1>2. first = end \/ \E x \in ps \cup {p} : x.at = first
  <2>1. first = mid \/ \E x \in ps : x.at = first
    BY DEF Row, Lined
  <2> QED  BY <2>1
<1>3. \A x \in ps \cup {p} : x.at >= first /\ x.len > 0 /\ x.at + x.len <= end
  BY <1>1
<1>4. \A x \in ps \cup {p} : x.at + x.len = end \/ \E y \in ps \cup {p} : y.at = x.at + x.len
  <2>1. \A x \in ps : x.at + x.len = mid \/ \E y \in ps : y.at = x.at + x.len
    BY DEF Row, Lined
  <2> QED  BY <2>1, <1>1
<1>5. \A x, y \in ps \cup {p} : x = y \/ Apart(x, y)
  <2>1. \A x, y \in ps : x = y \/ Apart(x, y)
    BY DEF Row, Lined
  <2>2. \A x \in ps : Apart(x, p) /\ Apart(p, x)
    BY <1>1 DEF Apart
  <2> QED  BY <2>1, <2>2
<1> QED
  BY <1>1, <1>2, <1>3, <1>4, <1>5 DEF Row, Lined

\* A piece of no length is none.
LEMMA RowThenMaybe ==
  ASSUME NEW ps, NEW first, NEW mid, NEW end, NEW p,
         Row(ps, first, mid), p.at = mid, p.len \in Nat, end = mid + p.len
  PROVE  Row(ps \cup {x \in {p} : x.len > 0}, first, end)
<1>0. mid \in Nat
  BY DEF Row
<1>1. CASE p.len = 0
  <2>1. ps \cup {x \in {p} : x.len > 0} = ps
    BY <1>1
  <2>2. end = mid
    BY <1>0, <1>1
  <2> QED  BY <2>1, <2>2
<1>2. CASE p.len # 0
  <2>1. {x \in {p} : x.len > 0} = {p}
    BY <1>2
  <2>2. p.len \in Nat \ {0}
    BY <1>2
  <2>3. Row(ps \cup {p}, first, end)
    BY <2>2, RowThen
  <2> QED  BY <2>1, <2>3
<1> QED
  BY <1>1, <1>2

\* Where a piece lies and how long it is.
LEMMA PieceIs ==
  /\ \A at, len, tag, value :
       LET p == Piece(at, len, tag, value)
       IN p.at = at /\ p.len = len /\ p.what[1] = tag /\ p.what[2] = value
  /\ \A at, tag, len, value :
       LET p == Tlv(at, tag, len, value)
       IN p.at = at /\ p.len = 3 + len /\ p.what[1] = tag /\ p.what[2] = value
  /\ \A at, oid : LET p == Oid(at, oid) IN p.at = at /\ p.len = 2 /\ p.what[1] = "oid" /\ p.what[2] = oid
BY DEF Piece, Tlv, Oid, LEN_TAG_ENCODING

\* A request is one of those of its command.
LEMMA RequestIs ==
  ASSUME NEW a, NEW kk, NEW max
  PROVE  /\ a.cmd = "OpenApplication" => Request(a, kk, max) = OpenApplication
         /\ a.cmd = "GetMaxCommsBuffer" => Request(a, kk, max) = GetMaxCommsBuffer
         /\ a.cmd = "GetDataObject" => Request(a, kk, max) = GetDataObject(a, kk.done, max)
         /\ a.cmd = "SetDataObject" => Request(a, kk, max) = SetDataObject(a, kk.done, max)
         /\ a.cmd = "GetRandom" => Request(a, kk, max) = GetRandom(a, max)
         /\ a.cmd = "SetAuthScheme" => Request(a, kk, max) = SetAuthScheme(a)
         /\ a.cmd = "GetSignature" => Request(a, kk, max) = GetSignature(a, kk.step, max)
         /\ a.cmd = "CalcHash" => Request(a, kk, max) = CalcHash(a, max)
         /\ a.cmd = "VerifySign" => Request(a, kk, max) = VerifySign(a, max)
         /\ a.cmd = "GenerateKeyPair" => Request(a, kk, max) = GenerateKeyPair(a, max)
         /\ a.cmd = "CalculateSign" => Request(a, kk, max) = CalculateSign(a, max)
         /\ a.cmd = "CalculateSharedSecret" => Request(a, kk, max) = CalculateSharedSecret(a, max)
         /\ a.cmd = "DeriveKey" => Request(a, kk, max) = DeriveKey(a, max)
         /\ a.cmd = "GetMessage" => Request(a, kk, max) = GetMessage(a, max)
         /\ a.cmd = "PutMessage" => Request(a, kk, max) = PutMessage(a, max)
         /\ a.cmd = "CloseSession" => Request(a, kk, max) = CloseSession(a)
         /\ a.cmd \in Crypted => Request(a, kk, max) = EncDecHelper(a, kk.done, kk.total, max)
BY DEF Request, Crypted

\* A refusal has a status of its own.
Refused(r) == r.status # "ok"

\* A request that is refused says so, and one that needs memory is made only when there is some.
LEMMA RefuseIs ==
  /\ \A s \in {"null", "zero", "exec", "memory", "session", "length", "error", "param"} : Refused(Refuse(s))
  /\ \A max, r : ~Refused(Heap(max, r)) => max # Unknown /\ Heap(max, r) = r
BY DEF Refused, Refuse, Heap

\* What a request consists of.
Made(r, alloc, writes, payload, at, room) ==
  /\ r.status = "ok" /\ r.alloc = alloc /\ r.base = 0 /\ r.payload = payload /\ r.at = at /\ r.room = room
  /\ r.writes = {p \in writes : p.len > 0}

\* A request has the parts it was made of.
LEMMA ApduIs ==
  ASSUME NEW param, NEW alloc, NEW writes, NEW payload, NEW at, NEW room
  PROVE  /\ Made(Apdu(param, alloc, writes, payload, at, room), alloc, writes, payload, at, room)
         /\ Apdu(param, alloc, writes, payload, at, room).param = param
BY DEF Made, Apdu

\* What RequestsWellFormed says of a request, for the pieces the device is to find.
Whole(ps, r) ==
  /\ Row(ps, r.base + LEN_APDUHEADER, r.base + LEN_APDUHEADER + r.payload)
  /\ \A p \in r.writes : p.at \in Nat /\ p.len \in Nat \ {0} /\ p.at + p.len <= r.alloc
  /\ r.base + LEN_APDUHEADER + r.payload <= r.alloc
  /\ r.base \in Nat /\ r.payload \in Nat /\ r.at \in Nat /\ r.room \in Int /\ r.alloc \in Nat

\* The response may take the whole of the memory behind the place it is written to.
Roomy(r) == r.at + r.room <= r.alloc

\* All that is written lies in the payload.
LEMMA WholeBy ==
  ASSUME NEW r, NEW alloc, NEW writes, NEW payload, NEW at, NEW room, NEW ps,
         Made(r, alloc, writes, payload, at, room), payload \in Nat, alloc \in Nat, at \in Nat, room \in Int,
         Row(ps, 4, 4 + payload), 4 + payload <= alloc, \A p \in writes : p.len > 0 => p \in ps
  PROVE  Whole(ps, r)
<1>1. r.base = 0 /\ r.payload = payload /\ r.alloc = alloc /\ r.at = at /\ r.room = room
  BY DEF Made
<1>2. r.base + LEN_APDUHEADER = 4 /\ r.base + LEN_APDUHEADER + r.payload = 4 + payload
  BY <1>1 DEF LEN_APDUHEADER
<1>3. \A p \in ps : p.at \in Nat /\ p.len \in Nat \ {0} /\ p.at + p.len <= 4 + payload
  BY DEF Row, Lined
<1>4. \A p \in r.writes : p.at \in Nat /\ p.len \in Nat \ {0} /\ p.at + p.len <= alloc
  BY <1>3 DEF Made
<1> QED
  BY <1>1, <1>2, <1>4 DEF Whole

\* One piece.
LEMMA RowOf1 ==
  ASSUME NEW p, NEW end, p.len \in Nat \ {0},
         p.at = 4, end = p.at + p.len
  PROVE  Row({p}, 4, end)
<1>0. /\ Row({}, 4, 4)
      /\ p.at = 4
      /\ p.at \in Nat /\ p.len \in Nat \ {0} /\ p.at + p.len \in Nat
  BY RowEmpty
<1>1. Row({p}, 4, p.at + p.len)
  <2>1. Row({} \cup {p}, 4, p.at + p.len)
    BY <1>0, RowThen
  <2>2. {} \cup {p} = {p}
    OBVIOUS
  <2> QED  BY <2>1, <2>2
<1> QED
  BY <1>1

\* A request that writes all of its payload.
LEMMA WholeOf1 ==
  ASSUME NEW z, NEW alloc, NEW payload, NEW at, NEW room, NEW p,
         Made(z, alloc, {p}, payload, at, room),
         payload \in Nat, alloc \in Nat, at \in Nat, room \in Int, 4 + payload <= alloc,
         p.len \in Nat \ {0},
         p.at = 4, 4 + payload = p.at + p.len
  PROVE  Whole(z.writes, z) /\ z.writes = {p}
<1>1. z.writes = {p}
  BY DEF Made
<1>2. Row({p}, 4, 4 + payload)
  BY RowOf1
<1>3. Whole({p}, z)
  BY <1>2, WholeBy
<1> QED
  BY <1>1, <1>3

\* Two pieces, one behind the other.
LEMMA RowOf2 ==
  ASSUME NEW p, NEW q, NEW end, p.len \in Nat \ {0}, q.len \in Nat \ {0},
         p.at = 4, q.at = p.at + p.len, end = q.at + q.len
  PROVE  Row({p, q}, 4, end)
<1>0. /\ Row({}, 4, 4)
      /\ p.at = 4
      /\ p.at \in Nat /\ p.len \in Nat \ {0} /\ p.at + p.len \in Nat
      /\ q.at \in Nat /\ q.len \in Nat \ {0} /\ q.at + q.len \in Nat
  BY RowEmpty
<1>1. Row({p}, 4, p.at + p.len)
  <2>1. Row({} \cup {p}, 4, p.at + p.len)
    BY <1>0, RowThen
  <2>2. {} \cup {p} = {p}
    OBVIOUS
  <2> QED  BY <2>1, <2>2
<1>2. Row({p, q}, 4, q.at + q.len)
  <2>1. Row({p} \cup {q}, 4, q.at + q.len)
    BY <1>0, <1>1, RowThen
  <2>2. {p} \cup {q} = {p, q}
    OBVIOUS
  <2> QED  BY <2>1, <2>2
<1> QED
  BY <1>2

\* A request that writes all of its payload.
LEMMA WholeOf2 ==
  ASSUME NEW z, NEW alloc, NEW payload, NEW at, NEW room, NEW p, NEW q,
         Made(z, alloc, {p, q}, payload, at, room),
         payload \in Nat, alloc \in Nat, at \in Nat, room \in Int, 4 + payload <= alloc,
         p.len \in Nat \ {0}, q.len \in Nat \ {0},
         p.at = 4, q.at = p.at + p.len, 4 + payload = q.at + q.len
  PROVE  Whole(z.writes, z) /\ z.writes = {p, q}
<1>1. z.writes = {p, q}
  BY DEF Made
<1>2. Row({p, q}, 4, 4 + payload)
  BY RowOf2
<1>3. Whole({p, q}, z)
  BY <1>2, WholeBy
<1> QED
  BY <1>1, <1>3

\* Three.
LEMMA RowOf3 ==
  ASSUME NEW p, NEW q, NEW r, NEW end, p.len \in Nat \ {0}, q.len \in Nat \ {0}, r.len \in Nat \ {0},
         p.at = 4, q.at = p.at + p.len, r.at = q.at + q.len, end = r.at + r.len
  PROVE  Row({p, q, r}, 4, end)
<1>0. /\ Row({}, 4, 4)
      /\ p.at = 4
      /\ p.at \in Nat /\ p.len \in Nat \ {0} /\ p.at + p.len \in Nat
      /\ q.at \in Nat /\ q.len \in Nat \ {0} /\ q.at + q.len \in Nat
      /\ r.at \in Nat /\ r.len \in Nat \ {0} /\ r.at + r.len \in Nat
  BY RowEmpty
<1>1. Row({p}, 4, p.at + p.len)
  <2>1. Row({} \cup {p}, 4, p.at + p.len)
    BY <1>0, RowThen
  <2>2. {} \cup {p} = {p}
    OBVIOUS
  <2> QED  BY <2>1, <2>2
<1>2. Row({p, q}, 4, q.at + q.len)
  <2>1. Row({p} \cup {q}, 4, q.at + q.len)
    BY <1>0, <1>1, RowThen
  <2>2. {p} \cup {q} = {p, q}
    OBVIOUS
  <2> QED  BY <2>1, <2>2
<1>3. Row({p, q, r}, 4, r.at + r.len)
  <2>1. Row({p, q} \cup {r}, 4, r.at + r.len)
    BY <1>0, <1>2, RowThen
  <2>2. {p, q} \cup {r} = {p, q, r}
    OBVIOUS
  <2> QED  BY <2>1, <2>2
<1> QED
  BY <1>3

\* A request that writes all of its payload.
LEMMA WholeOf3 ==
  ASSUME NEW z, NEW alloc, NEW payload, NEW at, NEW room, NEW p, NEW q, NEW r,
         Made(z, alloc, {p, q, r}, payload, at, room),
         payload \in Nat, alloc \in Nat, at \in Nat, room \in Int, 4 + payload <= alloc,
         p.len \in Nat \ {0}, q.len \in Nat \ {0}, r.len \in Nat \ {0},
         p.at = 4, q.at = p.at + p.len, r.at = q.at + q.len, 4 + payload = r.at + r.len
  PROVE  Whole(z.writes, z) /\ z.writes = {p, q, r}
<1>1. z.writes = {p, q, r}
  BY DEF Made
<1>2. Row({p, q, r}, 4, 4 + payload)
  BY RowOf3
<1>3. Whole({p, q, r}, z)
  BY <1>2, WholeBy
<1> QED
  BY <1>1, <1>3

\* Four.
LEMMA RowOf4 ==
  ASSUME NEW p, NEW q, NEW r, NEW s, NEW end,
         p.len \in Nat \ {0}, q.len \in Nat \ {0}, r.len \in Nat \ {0}, s.len \in Nat \ {0},
         p.at = 4, q.at = p.at + p.len, r.at = q.at + q.len, s.at = r.at + r.len, end = s.at + s.len
  PROVE  Row({p, q, r, s}, 4, end)
<1>0. /\ Row({}, 4, 4)
      /\ p.at = 4
      /\ p.at \in Nat /\ p.len \in Nat \ {0} /\ p.at + p.len \in Nat
      /\ q.at \in Nat /\ q.len \in Nat \ {0} /\ q.at + q.len \in Nat
      /\ r.at \in Nat /\ r.len \in Nat \ {0} /\ r.at + r.len \in Nat
      /\ s.at \in Nat /\ s.len \in Nat \ {0} /\ s.at + s.len \in Nat
  BY RowEmpty
<1>1. Row({p}, 4, p.at + p.len)
  <2>1. Row({} \cup {p}, 4, p.at + p.len)
    BY <1>0, RowThen
  <2>2. {} \cup {p} = {p}
    OBVIOUS
  <2> QED  BY <2>1, <2>2
<1>2. Row({p, q}, 4, q.at + q.len)
  <2>1. Row({p} \cup {q}, 4, q.at + q.len)
    BY <1>0, <1>1, RowThen
  <2>2. {p} \cup {q} = {p, q}
    OBVIOUS
  <2> QED  BY <2>1, <2>2
<1>3. Row({p, q, r}, 4, r.at + r.len)
  <2>1. Row({p, q} \cup {r}, 4, r.at + r.len)
    BY <1>0, <1>2, RowThen
  <2>2. {p, q} \cup {r} = {p, q, r}
    OBVIOUS
  <2> QED  BY <2>1, <2>2
<1>4. Row({p, q, r, s}, 4, s.at + s.len)
  <2>1. Row({p, q, r} \cup {s}, 4, s.at + s.len)
    BY <1>0, <1>3, RowThen
  <2>2. {p, q, r} \cup {s} = {p, q, r, s}
    OBVIOUS
  <2> QED  BY <2>1, <2>2
<1> QED
  BY <1>4

\* A request that writes all of its payload.
LEMMA WholeOf4 ==
  ASSUME NEW z, NEW alloc, NEW payload, NEW at, NEW room, NEW p, NEW q, NEW r, NEW s,
         Made(z, alloc, {p, q, r, s}, payload, at, room),
         payload \in Nat, alloc \in Nat, at \in Nat, room \in Int, 4 + payload <= alloc,
         p.len \in Nat \ {0}, q.len \in Nat \ {0}, r.len \in Nat \ {0}, s.len \in Nat \ {0},
         p.at = 4, q.at = p.at + p.len, r.at = q.at + q.len, s.at = r.at + r.len, 4 + payload = s.at + s.len
  PROVE  Whole(z.writes, z) /\ z.writes = {p, q, r, s}
<1>1. z.writes = {p, q, r, s}
  BY DEF Made
<1>2. Row({p, q, r, s}, 4, 4 + payload)
  BY RowOf4
<1>3. Whole({p, q, r, s}, z)
  BY <1>2, WholeBy
<1> QED
  BY <1>1, <1>3

\* What a command that begins with an empty buffer writes is all there is.
LEMMA ParcelIs ==
  arg.cmd \notin Crypted \cup Objects \cup {"PutMessage"} => Parcel = req.writes /\ Before = {}
BY DEF Parcel, Before

\* The part of a request under a tag: what it says and how long it is.
Tells(ps, tag, value, len) ==
  /\ \E p \in ps : p.what[1] = tag
  /\ \A p \in ps : p.what[1] = tag => p.what[2] = value /\ p.len = len
Silent(ps, tag) == \A p \in ps : p.what[1] # tag

\* What the device reads under a tag is what the payload says there.
LEMMA ToldIs ==
  ASSUME NEW tag, NEW value, NEW len, Sent = Parcel, Tells(Parcel, tag, value, len)
  PROVE  Says(tag) /\ Value(tag) = value /\ Length(tag) = len
BY DEF Says, Value, Length, Tells

\* The three requests of CmdLib_GetSignature.
LEMMA SignatureIs ==
  ASSUME arg.cmd = "GetSignature", Requested, k.step \in 0..2
  PROVE  /\ arg.len \in 8..256
         /\ k.step = 0 => req = SetAuthScheme([scheme |-> "ecdsa", key |-> arg.key])
         /\ k.step = 1 =>
              req = Apdu("challenge", 270, {Piece(4, arg.len, "challenge", arg.challenge)}, arg.len, 0, 270)
         /\ k.step = 2 => req = Apdu("signature", 270, {}, 0, 0, 270)
<1> DEFINE rest ==
      CASE k.step = 0 -> SetAuthScheme([scheme |-> "ecdsa", key |-> arg.key])
        [] k.step = 1 -> Apdu("challenge", 270, {Piece(4, arg.len, "challenge", arg.challenge)}, arg.len, 0, 270)
        [] k.step = 2 -> Apdu("signature", 270, {}, 0, 0, 270)
<1>1. req = Heap(wMaxCommsBuffer, IF arg.missing THEN Refuse("null")
                                  ELSE IF arg.len \notin 8..256 THEN Refuse("length") ELSE rest)
  BY RequestIs, ZenonT(30) DEF Requested, GetSignature
<1>2. /\ k.step = 0 => rest = SetAuthScheme([scheme |-> "ecdsa", key |-> arg.key])
      /\ k.step = 1 =>
           rest = Apdu("challenge", 270, {Piece(4, arg.len, "challenge", arg.challenge)}, arg.len, 0, 270)
      /\ k.step = 2 => rest = Apdu("signature", 270, {}, 0, 0, 270)
  OBVIOUS
<1> HIDE DEF rest
<1>3. arg.len \in 8..256 /\ req = rest
  <2> DEFINE some == IF arg.missing THEN Refuse("null") ELSE IF arg.len \notin 8..256 THEN Refuse("length") ELSE rest
  <2>1. ~Refused(req)
    BY DEF Requested, Refused
  <2>2. /\ arg.missing => some = Refuse("null")
        /\ ~arg.missing /\ arg.len \notin 8..256 => some = Refuse("length")
        /\ ~arg.missing /\ arg.len \in 8..256 => some = rest
    OBVIOUS
  <2> HIDE DEF some
  <2>3. req = some
    BY <1>1, <2>1, RefuseIs, Zenon DEF some
  <2> QED
    BY <2>1, <2>2, <2>3, RefuseIs, Zenon
<1> QED
  BY <1>2, <1>3

\* CmdLib_OpenApplication.
LEMMA WholeOpen ==
  ASSUME arg.cmd = "OpenApplication", Sized(arg), Requested
  PROVE  Whole(Parcel, req) /\ Roomy(req)
<1>1. req = OpenApplication
  BY RequestIs DEF Requested
<1> DEFINE p == Piece(4, 16, "application", "UID")
<1>2. Made(req, 25, {p}, 16, 0, 25)
  BY <1>1, RefuseIs, ApduIs DEF Requested, OpenApplication, Refused
<1>3. /\ p.at = 4 /\ p.len = 16
  BY PieceIs DEF Sized
<1> HIDE DEF p
<1>4. /\ 16 \in Nat /\ 25 \in Nat /\ 0 \in Nat /\ 25 \in Int /\ 4 + (16) <= 25
      /\ p.len \in Nat \ {0} /\ p.at = 4
      /\ 4 + (16) = p.at + p.len
      /\ 0 + (25) <= 25
  BY <1>3 DEF Larger, LEN_APDUHEADER
<1>5. Whole(req.writes, req) /\ req.writes = {p}
  BY <1>2, <1>4, WholeOf1
<1>6. Parcel = req.writes
  BY ParcelIs DEF Crypted, Objects
<1> QED
  BY <1>2, <1>4, <1>5, <1>6 DEF Made, Roomy

\* CmdLib_GetMaxCommsBuffer.
LEMMA WholeLimit ==
  ASSUME arg.cmd = "GetMaxCommsBuffer", Sized(arg), Requested
  PROVE  Whole(Parcel, req) /\ Roomy(req)
<1>1. req = GetMaxCommsBuffer
  BY RequestIs DEF Requested
<1> DEFINE p == Oid(4, "E0C6")
<1>2. Made(req, 10, {p}, 2, 0, 10)
  BY <1>1, RefuseIs, ApduIs DEF Requested, GetMaxCommsBuffer, Refused
<1>3. /\ p.at = 4 /\ p.len = 2
  BY PieceIs DEF Sized
<1> HIDE DEF p
<1>4. /\ 2 \in Nat /\ 10 \in Nat /\ 0 \in Nat /\ 10 \in Int /\ 4 + (2) <= 10
      /\ p.len \in Nat \ {0} /\ p.at = 4
      /\ 4 + (2) = p.at + p.len
      /\ 0 + (10) <= 10
  BY <1>3 DEF Larger, LEN_APDUHEADER
<1>5. Whole(req.writes, req) /\ req.writes = {p}
  BY <1>2, <1>4, WholeOf1
<1>6. Parcel = req.writes
  BY ParcelIs DEF Crypted, Objects
<1> QED
  BY <1>2, <1>4, <1>5, <1>6 DEF Made, Roomy

\* CmdLib_GetRandom.
LEMMA WholeRandom ==
  ASSUME arg.cmd = "GetRandom", Sized(arg), Requested
  PROVE  Whole(Parcel, req) /\ Roomy(req) /\ Tells(Parcel, "length", arg.n, 2)
<1>1. req = GetRandom(arg, wMaxCommsBuffer)
  BY RequestIs DEF Requested
<1> DEFINE n == arg.n
           p == Piece(4, 2, "length", n)
<1>2. Made(req, LEN_APDUHEADER + 2 + n, {p}, 2, 0, LEN_APDUHEADER + n)
  BY <1>1, RefuseIs, ApduIs DEF Requested, GetRandom, Refused
<1>3. /\ p.at = 4 /\ p.len = 2 /\ n \in Nat
      /\ p.what[1] = "length"
      /\ p.what[2] = arg.n
  BY PieceIs DEF Sized
<1> HIDE DEF p
<1>4. /\ 2 \in Nat /\ LEN_APDUHEADER + 2 + n \in Nat /\ 0 \in Nat /\ LEN_APDUHEADER + n \in Int
      /\ 4 + (2) <= LEN_APDUHEADER + 2 + n
      /\ p.len \in Nat \ {0} /\ p.at = 4
      /\ 4 + (2) = p.at + p.len
      /\ 0 + (LEN_APDUHEADER + n) <= LEN_APDUHEADER + 2 + n
  BY <1>3 DEF Larger, LEN_APDUHEADER
<1>5. Whole(req.writes, req) /\ req.writes = {p}
  BY <1>2, <1>4, WholeOf1
<1>6. Parcel = req.writes
  BY ParcelIs DEF Crypted, Objects
<1>7. Tells({p}, "length", arg.n, 2)
  BY <1>3 DEF Tells
<1> QED
  BY <1>2, <1>4, <1>5, <1>6, <1>7 DEF Made, Roomy

\* CmdLib_CalculateSign.
LEMMA WholeSign ==
  ASSUME arg.cmd = "CalculateSign", Sized(arg), Requested
  PROVE  Whole(Parcel, req) /\ Roomy(req)
<1>1. req = CalculateSign(arg, wMaxCommsBuffer)
  BY RequestIs DEF Requested
<1> DEFINE n == arg.digest
           a == LEN_APDUHEADER + Larger(8 + n, 119)
           p == Tlv(4, "digest", n, n)
           q == Tlv(7 + n, "keyoid", 2, arg.key)
<1>2. Made(req, a, {p, q}, 8 + n, 0, a)
  BY <1>1, RefuseIs, ApduIs DEF Requested, CalculateSign, Refused
<1>3. /\ p.at = 4 /\ p.len = 3 + n
      /\ q.at = 7 + n /\ q.len = 5
      /\ n \in Nat
  BY PieceIs DEF Sized
<1> HIDE DEF p, q
<1>4. /\ 8 + n \in Nat /\ a \in Nat /\ 0 \in Nat /\ a \in Int /\ 4 + (8 + n) <= a
      /\ p.len \in Nat \ {0} /\ q.len \in Nat \ {0} /\ p.at = 4
      /\ q.at = p.at + p.len /\ 4 + (8 + n) = q.at + q.len
      /\ 0 + (a) <= a
  BY <1>3 DEF Larger, LEN_APDUHEADER
<1>5. Whole(req.writes, req) /\ req.writes = {p, q}
  BY <1>2, <1>4, WholeOf2
<1>6. Parcel = req.writes
  BY ParcelIs DEF Crypted, Objects
<1> QED
  BY <1>2, <1>4, <1>5, <1>6 DEF Made, Roomy

\* CmdLib_CalculateSharedSecret.
LEMMA WholeSecret ==
  ASSUME arg.cmd = "CalculateSharedSecret", Sized(arg), Requested
  PROVE  Whole(Parcel, req) /\ Roomy(req)
<1>1. req = CalculateSharedSecret(arg, wMaxCommsBuffer)
  BY RequestIs DEF Requested
<1> DEFINE n == arg.publen
           a == LEN_APDUHEADER + 15 + n + (IF arg.export THEN 0 ELSE 2)
           p == Tlv(4, "keyoid", 2, arg.key)
           q == Tlv(9, "algorithm", 1, arg.curve)
           r == Tlv(13, "key", n, "peer")
           s == Destination(16 + n, arg.export, arg.oid)
<1>2. Made(req, a, {p, q, r, s}, 12 + n + s.len, 0, a)
  BY <1>1, RefuseIs, ApduIs DEF Requested, CalculateSharedSecret, Refused
<1>3. /\ p.at = 4 /\ p.len = 5
      /\ q.at = 9 /\ q.len = 4
      /\ r.at = 13 /\ r.len = 3 + n
      /\ s.at = 16 + n /\ s.len = (IF arg.export THEN 3 ELSE 5)
      /\ n \in Nat /\ s.len \in {3, 5}
  BY PieceIs DEF Sized, Destination
<1> HIDE DEF p, q, r, s
<1>4. /\ 12 + n + s.len \in Nat /\ a \in Nat /\ 0 \in Nat /\ a \in Int /\ 4 + (12 + n + s.len) <= a
      /\ p.len \in Nat \ {0} /\ q.len \in Nat \ {0} /\ r.len \in Nat \ {0} /\ s.len \in Nat \ {0} /\ p.at = 4
      /\ q.at = p.at + p.len /\ r.at = q.at + q.len /\ s.at = r.at + r.len /\ 4 + (12 + n + s.len) = s.at + s.len
      /\ 0 + (a) <= a
  BY <1>3 DEF Larger, LEN_APDUHEADER
<1>5. Whole(req.writes, req) /\ req.writes = {p, q, r, s}
  BY <1>2, <1>4, WholeOf4
<1>6. Parcel = req.writes
  BY ParcelIs DEF Crypted, Objects
<1> QED
  BY <1>2, <1>4, <1>5, <1>6 DEF Made, Roomy

\* CmdLib_DeriveKey.
LEMMA WholeDerive ==
  ASSUME arg.cmd = "DeriveKey", Sized(arg), Requested
  PROVE  Whole(Parcel, req) /\ Roomy(req) /\ Tells(Parcel, "length", arg.n, 5)
<1>1. req = DeriveKey(arg, wMaxCommsBuffer)
  BY RequestIs DEF Requested
<1> DEFINE n == arg.seed
           a == LEN_APDUHEADER + 16 + Larger(n, arg.n) + (IF arg.export THEN 0 ELSE 2)
           p == Tlv(4, "keyoid", 2, arg.key)
           q == Tlv(9, "seed", n, n)
           r == Tlv(12 + n, "length", 2, arg.n)
           s == Destination(17 + n, arg.export, arg.oid)
<1>2. Made(req, a, {p, q, r, s}, 13 + n + s.len, 0, a)
  BY <1>1, RefuseIs, ApduIs DEF Requested, DeriveKey, Refused
<1>3. /\ p.at = 4 /\ p.len = 5
      /\ q.at = 9 /\ q.len = 3 + n
      /\ r.at = 12 + n /\ r.len = 5
      /\ s.at = 17 + n /\ s.len = (IF arg.export THEN 3 ELSE 5)
      /\ n \in Nat /\ arg.n \in Nat /\ s.len \in {3, 5}
      /\ p.what[1] = "keyoid"
      /\ q.what[1] = "seed"
      /\ r.what[1] = "length"
      /\ s.what[1] = (IF arg.export THEN "export" ELSE "destination")
      /\ r.what[2] = arg.n
  BY PieceIs DEF Sized, Destination
<1> HIDE DEF p, q, r, s
<1>4. /\ 13 + n + s.len \in Nat /\ a \in Nat /\ 0 \in Nat /\ a \in Int /\ 4 + (13 + n + s.len) <= a
      /\ p.len \in Nat \ {0} /\ q.len \in Nat \ {0} /\ r.len \in Nat \ {0} /\ s.len \in Nat \ {0} /\ p.at = 4
      /\ q.at = p.at + p.len /\ r.at = q.at + q.len /\ s.at = r.at + r.len /\ 4 + (13 + n + s.len) = s.at + s.len
      /\ 0 + (a) <= a
  BY <1>3 DEF Larger, LEN_APDUHEADER
<1>5. Whole(req.writes, req) /\ req.writes = {p, q, r, s}
  BY <1>2, <1>4, WholeOf4
<1>6. Parcel = req.writes
  BY ParcelIs DEF Crypted, Objects
<1>7. Tells({p, q, r, s}, "length", arg.n, 5)
  BY <1>3 DEF Tells
<1> QED
  BY <1>2, <1>4, <1>5, <1>6, <1>7 DEF Made, Roomy

\* CmdLib_VerifySign with the caller's key.
LEMMA WholeVerifyHost ==
  ASSUME arg.cmd = "VerifySign", Sized(arg), arg.host, wMaxCommsBuffer \in Nat, Requested
  PROVE  Whole(Parcel, req) /\ req.at = 0
<1>1. req = VerifySign(arg, wMaxCommsBuffer)
  BY RequestIs DEF Requested
<1> DEFINE d == arg.digest
           g == arg.siglen
           n == arg.publen
           a == LEN_APDUHEADER + (13 + n) + d + g
           p == Tlv(4, "digest", d, d)
           q == Tlv(7 + d, "signature", g, g)
           r == Tlv(10 + d + g, "algorithm", 1, arg.curve)
           s == Tlv((10 + d + g) + 4, "key", n, arg.key)
<1>2. Made(req, a, {p, q, r, s}, (13 + n) + d + g, 0, wMaxCommsBuffer)
  <2> DEFINE made == Apdu("verify", a, {p, q} \cup {r, s}, (13 + n) + d + g, 0, wMaxCommsBuffer)
  <2>1. \/ VerifySign(arg, wMaxCommsBuffer) \in {Refuse("null"), Refuse("memory")}
        \/ VerifySign(arg, wMaxCommsBuffer) = Heap(wMaxCommsBuffer, made)
    BY Zenon DEF VerifySign
  <2>2. {p, q} \cup {r, s} = {p, q, r, s}
    OBVIOUS
  <2> HIDE DEF made
  <2>3. req = made
    BY <1>1, <2>1, RefuseIs DEF Requested, Refused
  <2>4. made = Apdu("verify", a, {p, q, r, s}, (13 + n) + d + g, 0, wMaxCommsBuffer)
    BY <2>2 DEF made
  <2> HIDE DEF p, q, r, s, a
  <2> QED
    BY <2>3, <2>4, ApduIs
<1>3. /\ p.at = 4 /\ p.len = 3 + d
      /\ q.at = 7 + d /\ q.len = 3 + g
      /\ r.at = 10 + d + g /\ r.len = 4
      /\ s.at = (10 + d + g) + 4 /\ s.len = 3 + n
      /\ d \in Nat /\ g \in Nat /\ n \in Nat
  BY PieceIs DEF Sized
<1> HIDE DEF p, q, r, s
<1>4. /\ (13 + n) + d + g \in Nat /\ a \in Nat /\ 0 \in Nat /\ wMaxCommsBuffer \in Int /\ 4 + ((13 + n) + d + g) <= a
      /\ p.len \in Nat \ {0} /\ q.len \in Nat \ {0} /\ r.len \in Nat \ {0} /\ s.len \in Nat \ {0} /\ p.at = 4
      /\ q.at = p.at + p.len /\ r.at = q.at + q.len /\ s.at = r.at + r.len /\ 4 + ((13 + n) + d + g) = s.at + s.len
  BY <1>3 DEF Larger, LEN_APDUHEADER
<1>5. Whole(req.writes, req) /\ req.writes = {p, q, r, s}
  BY <1>2, <1>4, WholeOf4
<1>6. Parcel = req.writes
  BY ParcelIs DEF Crypted, Objects
<1> QED
  BY <1>2, <1>4, <1>5, <1>6 DEF Made, Roomy

\* With a key the device holds.
LEMMA WholeVerifyOid ==
  ASSUME arg.cmd = "VerifySign", Sized(arg), ~arg.host, wMaxCommsBuffer \in Nat, Requested
  PROVE  Whole(Parcel, req) /\ req.at = 0
<1>1. req = VerifySign(arg, wMaxCommsBuffer)
  BY RequestIs DEF Requested
<1> DEFINE d == arg.digest
           g == arg.siglen
           a == LEN_APDUHEADER + 11 + d + g
           p == Tlv(4, "digest", d, d)
           q == Tlv(7 + d, "signature", g, g)
           r == Tlv(10 + d + g, "keyoid", 2, arg.key)
<1>2. Made(req, a, {p, q, r}, 11 + d + g, 0, wMaxCommsBuffer)
  <2> DEFINE made == Apdu("verify", a, {p, q} \cup {r}, 11 + d + g, 0, wMaxCommsBuffer)
  <2>1. \/ VerifySign(arg, wMaxCommsBuffer) \in {Refuse("null"), Refuse("memory")}
        \/ VerifySign(arg, wMaxCommsBuffer) = Heap(wMaxCommsBuffer, made)
    BY Zenon DEF VerifySign
  <2>2. {p, q} \cup {r} = {p, q, r}
    OBVIOUS
  <2> HIDE DEF made
  <2>3. req = made
    BY <1>1, <2>1, RefuseIs DEF Requested, Refused
  <2>4. made = Apdu("verify", a, {p, q, r}, 11 + d + g, 0, wMaxCommsBuffer)
    BY <2>2 DEF made
  <2> HIDE DEF p, q, r, a
  <2> QED
    BY <2>3, <2>4, ApduIs
<1>3. /\ p.at = 4 /\ p.len = 3 + d
      /\ q.at = 7 + d /\ q.len = 3 + g
      /\ r.at = 10 + d + g /\ r.len = 5
      /\ d \in Nat /\ g \in Nat
  BY PieceIs DEF Sized
<1> HIDE DEF p, q, r
<1>4. /\ 11 + d + g \in Nat /\ a \in Nat /\ 0 \in Nat /\ wMaxCommsBuffer \in Int /\ 4 + (11 + d + g) <= a
      /\ p.len \in Nat \ {0} /\ q.len \in Nat \ {0} /\ r.len \in Nat \ {0} /\ p.at = 4
      /\ q.at = p.at + p.len /\ r.at = q.at + q.len /\ 4 + (11 + d + g) = r.at + r.len
  BY <1>3 DEF Larger, LEN_APDUHEADER
<1>5. Whole(req.writes, req) /\ req.writes = {p, q, r}
  BY <1>2, <1>4, WholeOf3
<1>6. Parcel = req.writes
  BY ParcelIs DEF Crypted, Objects
<1> QED
  BY <1>2, <1>4, <1>5, <1>6 DEF Made, Roomy

\* CmdLib_GenerateKeyPair, when the private key is given out.
LEMMA WholeKeysOut ==
  ASSUME arg.cmd = "GenerateKeyPair", Sized(arg), arg.export, KeyLen[arg.curve] \in Nat, Requested
  PROVE  Whole(Parcel, req) /\ Roomy(req)
<1>1. req = GenerateKeyPair(arg, wMaxCommsBuffer)
  BY RequestIs DEF Requested
<1> DEFINE w == KeyLen[arg.curve]
           a == LEN_APDUHEADER + (10 + 3 * w) + 2
           p == Tlv(4, "export", 0, 0)
<1>2. Made(req, a, {p}, 3, 0, a)
  BY <1>1, RefuseIs, ApduIs DEF Requested, GenerateKeyPair, Refused
<1>3. /\ p.at = 4 /\ p.len = 3
      /\ w \in Nat
  BY PieceIs DEF Sized
<1> HIDE DEF p
<1>4. /\ 3 \in Nat /\ a \in Nat /\ 0 \in Nat /\ a \in Int /\ 4 + (3) <= a
      /\ p.len \in Nat \ {0} /\ p.at = 4
      /\ 4 + (3) = p.at + p.len
      /\ 0 + (a) <= a
  BY <1>3 DEF Larger, LEN_APDUHEADER
<1>5. Whole(req.writes, req) /\ req.writes = {p}
  BY <1>2, <1>4, WholeOf1
<1>6. Parcel = req.writes
  BY ParcelIs DEF Crypted, Objects
<1> QED
  BY <1>2, <1>4, <1>5, <1>6 DEF Made, Roomy

\* When the device keeps it.
LEMMA WholeKeysKept ==
  ASSUME arg.cmd = "GenerateKeyPair", Sized(arg), ~arg.export, KeyLen[arg.curve] \in Nat, Requested
  PROVE  Whole(Parcel, req) /\ Roomy(req)
<1>1. req = GenerateKeyPair(arg, wMaxCommsBuffer)
  BY RequestIs DEF Requested
<1> DEFINE w == KeyLen[arg.curve]
           a == LEN_APDUHEADER + (9 + 2 * w) + 2
           p == Tlv(4, "keyoid", 2, arg.key)
           q == Tlv(9, "usage", 1, arg.usage)
<1>2. Made(req, a, {p, q}, 9, 0, a)
  BY <1>1, RefuseIs, ApduIs DEF Requested, GenerateKeyPair, Refused
<1>3. /\ p.at = 4 /\ p.len = 5
      /\ q.at = 9 /\ q.len = 4
      /\ w \in Nat
  BY PieceIs DEF Sized
<1> HIDE DEF p, q
<1>4. /\ 9 \in Nat /\ a \in Nat /\ 0 \in Nat /\ a \in Int /\ 4 + (9) <= a
      /\ p.len \in Nat \ {0} /\ q.len \in Nat \ {0} /\ p.at = 4
      /\ q.at = p.at + p.len /\ 4 + (9) = q.at + q.len
      /\ 0 + (a) <= a
  BY <1>3 DEF Larger, LEN_APDUHEADER
<1>5. Whole(req.writes, req) /\ req.writes = {p, q}
  BY <1>2, <1>4, WholeOf2
<1>6. Parcel = req.writes
  BY ParcelIs DEF Crypted, Objects
<1> QED
  BY <1>2, <1>4, <1>5, <1>6 DEF Made, Roomy

\* CmdLib_SetAuthScheme.
LEMMA WholeScheme ==
  ASSUME arg.cmd = "SetAuthScheme", Sized(arg), Requested
  PROVE  Whole(Parcel, req) /\ Roomy(req)
<1>1. req = SetAuthScheme(arg)
  BY RequestIs DEF Requested
<1> DEFINE p == Oid(4, arg.key)
           q == Piece(6, 2, "session", arg.session)
<1>2. Made(req, 10, {p, q}, 4, 0, 10)
  BY <1>1, RefuseIs, ApduIs DEF Sized, Requested, SetAuthScheme, Refused
<1>3. /\ p.at = 4 /\ p.len = 2
      /\ q.at = 6 /\ q.len = 2
  BY PieceIs DEF Sized
<1> HIDE DEF p, q
<1>4. /\ 4 \in Nat /\ 10 \in Nat /\ 0 \in Nat /\ 10 \in Int /\ 4 + (4) <= 10
      /\ p.len \in Nat \ {0} /\ q.len \in Nat \ {0} /\ p.at = 4
      /\ q.at = p.at + p.len /\ 4 + (4) = q.at + q.len
      /\ 0 + (10) <= 10
  BY <1>3 DEF Larger, LEN_APDUHEADER
<1>5. Whole(req.writes, req) /\ req.writes = {p, q}
  BY <1>2, <1>4, WholeOf2
<1>6. Parcel = req.writes
  BY ParcelIs DEF Crypted, Objects
<1> QED
  BY <1>2, <1>4, <1>5, <1>6 DEF Made, Roomy

\* CmdLib_CloseSession.
LEMMA WholeClose ==
  ASSUME arg.cmd = "CloseSession", Sized(arg), Requested
  PROVE  Whole(Parcel, req) /\ Roomy(req)
<1>1. req = CloseSession(arg)
  BY RequestIs DEF Requested
<1> DEFINE p == Piece(4, 2, "session", arg.session)
<1>2. Made(req, 6, {p}, 2, 0, 6)
  BY <1>1, RefuseIs, ApduIs DEF Requested, CloseSession, Refused
<1>3. /\ p.at = 4 /\ p.len = 2
  BY PieceIs DEF Sized
<1> HIDE DEF p
<1>4. /\ 2 \in Nat /\ 6 \in Nat /\ 0 \in Nat /\ 6 \in Int /\ 4 + (2) <= 6
      /\ p.len \in Nat \ {0} /\ p.at = 4
      /\ 4 + (2) = p.at + p.len
      /\ 0 + (6) <= 6
  BY <1>3 DEF Larger, LEN_APDUHEADER
<1>5. Whole(req.writes, req) /\ req.writes = {p}
  BY <1>2, <1>4, WholeOf1
<1>6. Parcel = req.writes
  BY ParcelIs DEF Crypted, Objects
<1> QED
  BY <1>2, <1>4, <1>5, <1>6 DEF Made, Roomy

\* CmdLib_GetSignature, the scheme.
LEMMA WholeSignature0 ==
  ASSUME arg.cmd = "GetSignature", Sized(arg), k.step = 0, Requested
  PROVE  Whole(Parcel, req) /\ Roomy(req) /\ Tells(Parcel, "oid", arg.key, 2)
<1>1. req = SetAuthScheme([scheme |-> "ecdsa", key |-> arg.key])
  BY SignatureIs
<1> DEFINE p == Oid(4, arg.key)
<1>2. Made(req, 10, {p}, 2, 0, 10)
  BY <1>1, RefuseIs, ApduIs DEF Requested, SetAuthScheme, Refused
<1>3. /\ p.at = 4 /\ p.len = 2
      /\ p.what[1] = "oid"
      /\ p.what[2] = arg.key
  BY PieceIs, SignatureIs DEF Sized
<1> HIDE DEF p
<1>4. /\ 2 \in Nat /\ 10 \in Nat /\ 0 \in Nat /\ 10 \in Int /\ 4 + (2) <= 10
      /\ p.len \in Nat \ {0} /\ p.at = 4
      /\ 4 + (2) = p.at + p.len
      /\ 0 + (10) <= 10
  BY <1>3 DEF Larger, LEN_APDUHEADER
<1>5. Whole(req.writes, req) /\ req.writes = {p}
  BY <1>2, <1>4, WholeOf1
<1>6. Parcel = req.writes
  BY ParcelIs DEF Crypted, Objects
<1>7. Tells({p}, "oid", arg.key, 2)
  BY <1>3 DEF Tells
<1> QED
  BY <1>2, <1>4, <1>5, <1>6, <1>7 DEF Made, Roomy

\* The challenge.
LEMMA WholeSignature1 ==
  ASSUME arg.cmd = "GetSignature", Sized(arg), k.step = 1, Requested
  PROVE  Whole(Parcel, req) /\ Roomy(req) /\ Tells(Parcel, "challenge", arg.challenge, arg.len)
<1>1. req = Apdu("challenge", 270, {Piece(4, arg.len, "challenge", arg.challenge)}, arg.len, 0, 270)
  BY SignatureIs
<1> DEFINE n == arg.len
           p == Piece(4, n, "challenge", arg.challenge)
<1>2. Made(req, 270, {p}, n, 0, 270)
  BY <1>1, RefuseIs, ApduIs DEF Requested, SetAuthScheme, Refused
<1>3. /\ p.at = 4 /\ p.len = n /\ n \in 8..256
      /\ p.what[1] = "challenge"
      /\ p.what[2] = arg.challenge
  BY PieceIs, SignatureIs DEF Sized
<1> HIDE DEF p
<1>4. /\ n \in Nat /\ 270 \in Nat /\ 0 \in Nat /\ 270 \in Int /\ 4 + (n) <= 270
      /\ p.len \in Nat \ {0} /\ p.at = 4
      /\ 4 + (n) = p.at + p.len
      /\ 0 + (270) <= 270
  BY <1>3 DEF Larger, LEN_APDUHEADER
<1>5. Whole(req.writes, req) /\ req.writes = {p}
  BY <1>2, <1>4, WholeOf1
<1>6. Parcel = req.writes
  BY ParcelIs DEF Crypted, Objects
<1>7. Tells({p}, "challenge", arg.challenge, arg.len)
  BY <1>3 DEF Tells
<1> QED
  BY <1>2, <1>4, <1>5, <1>6, <1>7 DEF Made, Roomy

\* CmdLib_GetMessage, a ClientHello with the time.
LEMMA WholeHello ==
  ASSUME arg.cmd = "GetMessage", Sized(arg), arg.message = "ClientHello", arg.extra, Requested
  PROVE  Whole(Parcel, req) /\ Roomy(req)
<1>1. req = GetMessage(arg, wMaxCommsBuffer)
  BY RequestIs DEF Requested
<1> DEFINE p == Piece(4, 2, "session", arg.session)
           q == Tlv(6, "time", 4, 0)
<1>2. Made(req, MAX_APDU_BUFF_LEN, {p, q}, 9, 0, MAX_APDU_BUFF_LEN)
  BY <1>1, RefuseIs, ApduIs DEF Requested, GetMessage, Refused
<1>3. /\ p.at = 4 /\ p.len = 2
      /\ q.at = 6 /\ q.len = 7
  BY PieceIs DEF Sized
<1> HIDE DEF p, q
<1>4. /\ 9 \in Nat /\ MAX_APDU_BUFF_LEN \in Nat /\ 0 \in Nat /\ MAX_APDU_BUFF_LEN \in Int /\ 4 + (9) <= MAX_APDU_BUFF_LEN
      /\ p.len \in Nat \ {0} /\ q.len \in Nat \ {0} /\ p.at = 4
      /\ q.at = p.at + p.len /\ 4 + (9) = q.at + q.len
      /\ 0 + (MAX_APDU_BUFF_LEN) <= MAX_APDU_BUFF_LEN
  BY <1>3 DEF Larger, LEN_APDUHEADER, MAX_APDU_BUFF_LEN
<1>5. Whole(req.writes, req) /\ req.writes = {p, q}
  BY <1>2, <1>4, WholeOf2
<1>6. Parcel = req.writes
  BY ParcelIs DEF Crypted, Objects
<1> QED
  BY <1>2, <1>4, <1>5, <1>6 DEF Made, Roomy

\* A Certificate with the object it is in.
LEMMA WholeCertificate ==
  ASSUME arg.cmd = "GetMessage", Sized(arg), arg.message = "Certificate", arg.extra, Requested
  PROVE  Whole(Parcel, req) /\ Roomy(req)
<1>1. req = GetMessage(arg, wMaxCommsBuffer)
  BY RequestIs DEF Requested
<1> DEFINE p == Piece(4, 2, "session", arg.session)
           q == Tlv(6, "certificate", 2, 0)
<1>2. Made(req, MAX_APDU_BUFF_LEN, {p, q}, 7, 0, MAX_APDU_BUFF_LEN)
  BY <1>1, RefuseIs, ApduIs DEF Requested, GetMessage, Refused
<1>3. /\ p.at = 4 /\ p.len = 2
      /\ q.at = 6 /\ q.len = 5
  BY PieceIs DEF Sized
<1> HIDE DEF p, q
<1>4. /\ 7 \in Nat /\ MAX_APDU_BUFF_LEN \in Nat /\ 0 \in Nat /\ MAX_APDU_BUFF_LEN \in Int /\ 4 + (7) <= MAX_APDU_BUFF_LEN
      /\ p.len \in Nat \ {0} /\ q.len \in Nat \ {0} /\ p.at = 4
      /\ q.at = p.at + p.len /\ 4 + (7) = q.at + q.len
      /\ 0 + (MAX_APDU_BUFF_LEN) <= MAX_APDU_BUFF_LEN
  BY <1>3 DEF Larger, LEN_APDUHEADER, MAX_APDU_BUFF_LEN
<1>5. Whole(req.writes, req) /\ req.writes = {p, q}
  BY <1>2, <1>4, WholeOf2
<1>6. Parcel = req.writes
  BY ParcelIs DEF Crypted, Objects
<1> QED
  BY <1>2, <1>4, <1>5, <1>6 DEF Made, Roomy

\* Any other message.
LEMMA WholeOther ==
  ASSUME arg.cmd = "GetMessage", Sized(arg), ~(arg.message \in {"ClientHello", "Certificate"} /\ arg.extra), Requested
  PROVE  Whole(Parcel, req) /\ Roomy(req)
<1>1. req = GetMessage(arg, wMaxCommsBuffer)
  BY RequestIs DEF Requested
<1> DEFINE p == Piece(4, 2, "session", arg.session)
<1>2. Made(req, MAX_APDU_BUFF_LEN, {p}, 2, 0, MAX_APDU_BUFF_LEN)
  BY <1>1, RefuseIs, ApduIs DEF Requested, GetMessage, Refused
<1>3. /\ p.at = 4 /\ p.len = 2
  BY PieceIs DEF Sized
<1> HIDE DEF p
<1>4. /\ 2 \in Nat /\ MAX_APDU_BUFF_LEN \in Nat /\ 0 \in Nat /\ MAX_APDU_BUFF_LEN \in Int /\ 4 + (2) <= MAX_APDU_BUFF_LEN
      /\ p.len \in Nat \ {0} /\ p.at = 4
      /\ 4 + (2) = p.at + p.len
      /\ 0 + (MAX_APDU_BUFF_LEN) <= MAX_APDU_BUFF_LEN
  BY <1>3 DEF Larger, LEN_APDUHEADER, MAX_APDU_BUFF_LEN
<1>5. Whole(req.writes, req) /\ req.writes = {p}
  BY <1>2, <1>4, WholeOf1
<1>6. Parcel = req.writes
  BY ParcelIs DEF Crypted, Objects
<1> QED
  BY <1>2, <1>4, <1>5, <1>6 DEF Made, Roomy

\* The request for the signature has no payload.
LEMMA WholeSignature2 ==
  ASSUME arg.cmd = "GetSignature", k.step = 2, Requested
  PROVE  Whole(Parcel, req) /\ Roomy(req) /\ req.writes = {}
<1>1. Made(req, 270, {}, 0, 0, 270)
  BY SignatureIs, ApduIs
<1>2. Row({}, 4, 4 + 0)
  BY RowEmpty
<1>3. Whole({}, req)
  BY <1>1, <1>2, WholeBy
<1>4. req.writes = {}
  BY <1>1 DEF Made
<1>5. Parcel = {}
  BY <1>4, ParcelIs DEF Crypted, Objects
<1> QED
  BY <1>1, <1>3, <1>4, <1>5 DEF Made, Roomy

\* CmdLib_PutMessage, with the caller's message.
LEMMA WholePut ==
  ASSUME arg.cmd = "PutMessage", Sized(arg), Requested
  PROVE  Whole(Parcel, req) /\ Roomy(req)
<1>1. req = PutMessage(arg, wMaxCommsBuffer)
  BY RequestIs DEF Requested
<1> DEFINE n == arg.len
           p == Piece(4, 2, "session", arg.session)
           q == Piece(6, 3, "final", n - 9)
           r == Piece(9, n - 9, "message", n)
<1>2. Made(req, n, {p, q}, n - LEN_APDUHEADER, 0, n) /\ n # 0
  BY <1>1, RefuseIs, ApduIs DEF Requested, PutMessage, Refused
<1>3. /\ p.at = 4 /\ p.len = 2 /\ q.at = 6 /\ q.len = 3 /\ r.at = 9 /\ r.len = n - 9
      /\ n \in Nat \ (0..9) /\ n >= 10
  BY <1>2, PieceIs DEF Sized
<1>4. Before = {r}
  BY DEF Before, Objects
<1> HIDE DEF p, q, r
<1>5. req.writes = {p, q}
  BY <1>2, <1>3 DEF Made
<1>6. Parcel = {p, q, r}
  BY <1>4, <1>5 DEF Parcel, Crypted
<1>7. /\ p.len \in Nat \ {0} /\ q.len \in Nat \ {0} /\ r.len \in Nat \ {0} /\ p.at = 4
      /\ q.at = p.at + p.len /\ r.at = q.at + q.len /\ 4 + (n - LEN_APDUHEADER) = r.at + r.len
      /\ n - LEN_APDUHEADER \in Nat /\ n \in Nat /\ 4 + (n - LEN_APDUHEADER) <= n /\ 0 + n <= n
  BY <1>3 DEF LEN_APDUHEADER
<1>8. Row({p, q, r}, 4, 4 + (n - LEN_APDUHEADER))
  BY <1>7, RowOf3
<1>9. Whole({p, q, r}, req)
  BY <1>2, <1>7, <1>8, WholeBy
<1> QED
  BY <1>2, <1>6, <1>7, <1>9 DEF Made, Roomy

\* CmdLib_GetDataObject: the name of the object is there from the first request on.
LEMMA WholeRead ==
  ASSUME arg.cmd = "GetDataObject", Sized(arg), Requested, wMaxCommsBuffer \in Nat, wMaxCommsBuffer >= 300, k.done \in Nat
  PROVE  /\ Whole(Parcel, req) /\ Roomy(req)
         /\ ~arg.meta => /\ req.param = "data"
                         /\ Tells(Parcel, "offset", arg.offset + k.done, 2)
                         /\ Tells(Parcel, "length", Smaller(wMaxCommsBuffer - LEN_APDUHEADER, arg.len - k.done), 2)
         /\ arg.meta => req.param = "metadata"
         /\ req.at = 6 /\ Oid(4, arg.oid) \in Parcel
         /\ \A p \in Parcel : p = Oid(4, arg.oid) \/ (p.at \in {6, 8} /\ p.len = 2)
<1>1. req = GetDataObject(arg, k.done, wMaxCommsBuffer)
  BY RequestIs DEF Requested
<1> DEFINE m == wMaxCommsBuffer
           n == Smaller(m - LEN_APDUHEADER, arg.len - k.done)
           p == Oid(4, arg.oid)
           q == Piece(6, 2, "offset", arg.offset + k.done)
           r == Piece(8, 2, "length", n)
           o == IF k.done = 0 THEN {p} ELSE {}
<1>2. /\ arg.meta => Made(req, m + 6, o, 2, 6, m) /\ req.param = "metadata"
      /\ ~arg.meta => Made(req, m + 6, o \cup {q, r}, 6, 6, m) /\ req.param = "data"
  BY <1>1, RefuseIs, ApduIs DEF Requested, GetDataObject, Refused
<1>3. /\ p.at = 4 /\ p.len = 2 /\ q.at = 6 /\ q.len = 2 /\ r.at = 8 /\ r.len = 2
      /\ p.what[1] = "oid" /\ q.what[1] = "offset" /\ r.what[1] = "length"
      /\ q.what[2] = arg.offset + k.done /\ r.what[2] = n
  BY PieceIs
<1>4. Before = IF k.done # 0 THEN {p} ELSE {}
  BY DEF Before, Objects
<1>5. Parcel = req.writes \cup Before
  BY DEF Parcel, Crypted
<1> HIDE DEF p, q, r, n
<1>6. CASE arg.meta
  <2>1. req.writes = o
    <3>1. req.writes = {x \in o : x.len > 0}
      BY <1>2, <1>6 DEF Made
    <3>2. \A x \in o : x.len > 0
      BY <1>3
    <3> QED  BY <3>1, <3>2
  <2>2. Parcel = {p}
    BY <1>4, <1>5, <2>1
  <2>3. Row({p}, 4, 4 + 2)
    <3>1. p.len \in Nat \ {0} /\ p.at = 4 /\ 4 + 2 = p.at + p.len
      BY <1>3
    <3> QED  BY <3>1, RowOf1
  <2>4. /\ \A x \in o : x.len > 0 => x \in {p}
        /\ 4 + 2 <= m + 6 /\ m + 6 \in Nat /\ m \in Int /\ 6 + m <= m + 6
    OBVIOUS
  <2>5. Whole({p}, req)
    BY <1>2, <1>6, <2>3, <2>4, WholeBy
  <2> QED  BY <1>2, <1>6, <2>2, <2>4, <2>5 DEF Made, Roomy, p
<1>7. CASE ~arg.meta
  <2>1. req.writes = o \cup {q, r}
    BY <1>2, <1>3, <1>7 DEF Made
  <2>2. Parcel = {p, q, r}
    BY <1>4, <1>5, <2>1
  <2>3. Row({p, q, r}, 4, 4 + 6)
    <3>1. /\ p.len \in Nat \ {0} /\ q.len \in Nat \ {0} /\ r.len \in Nat \ {0}
          /\ p.at = 4 /\ q.at = p.at + p.len /\ r.at = q.at + q.len /\ 4 + 6 = r.at + r.len
      BY <1>3
    <3> QED  BY <3>1, RowOf3
  <2>4. /\ \A x \in o \cup {q, r} : x.len > 0 => x \in {p, q, r}
        /\ m + 6 \in Nat /\ m \in Int /\ 6 + m <= m + 6
    OBVIOUS
  <2>5. 4 + 6 <= m + 6
    OBVIOUS
  <2>6. Whole({p, q, r}, req)
    BY <1>2, <1>7, <2>3, <2>4, <2>5, WholeBy
  <2>7. Tells({p, q, r}, "offset", arg.offset + k.done, 2) /\ Tells({p, q, r}, "length", n, 2)
    BY <1>3 DEF Tells
  <2> QED  BY <1>2, <1>3, <1>7, <2>2, <2>4, <2>6, <2>7 DEF Made, Roomy, p, n
<1> QED
  BY <1>6, <1>7

\* CmdLib_SetDataObject.
LEMMA WholeWrite ==
  ASSUME arg.cmd = "SetDataObject", Sized(arg), Requested, InBounds,
         wMaxCommsBuffer \in Nat, wMaxCommsBuffer >= 300, k.done \in Nat
  PROVE  /\ Whole(Parcel, req) /\ req.at = 7 /\ req.alloc >= 300
         /\ ~arg.meta => req.param \in {"data", "erase"}
         /\ arg.meta => req.param = "metadata"
         /\ Tells(Parcel, "offset", arg.offset + k.done, 2)
         /\ Tells(Parcel, "data", k.done, Smaller(wMaxCommsBuffer - 8, arg.len - k.done))
         /\ Oid(4, arg.oid) \in Parcel
         /\ \A p \in Parcel : p = Oid(4, arg.oid) \/ (p.at \in {6, 8} /\ p.len > 0 /\ (p.at = 6 => p.len = 2))
<1>1. req = SetDataObject(arg, k.done, wMaxCommsBuffer)
  BY RequestIs DEF Requested
<1> DEFINE m == wMaxCommsBuffer
           n == Smaller(m - 8, arg.len - k.done)
           p == Oid(4, arg.oid)
           q == Piece(6, 2, "offset", arg.offset + k.done)
           r == Piece(8, n, "data", k.done)
           o == IF k.done = 0 THEN {p} ELSE {}
<1>2. /\ Made(req, m, o \cup {q, r}, 4 + n, 7, m) /\ arg.len # 0
      /\ ~arg.meta => req.param \in {"data", "erase"}
      /\ arg.meta => req.param = "metadata"
  BY <1>1, RefuseIs, ApduIs DEF Requested, SetDataObject, Refused
<1>3. /\ p.at = 4 /\ p.len = 2 /\ q.at = 6 /\ q.len = 2 /\ r.at = 8 /\ r.len = n
      /\ p.what[1] = "oid" /\ q.what[1] = "offset" /\ r.what[1] = "data"
      /\ q.what[2] = arg.offset + k.done /\ r.what[2] = k.done
  BY PieceIs
<1>4. n \in Nat \ {0} /\ n <= m - 8
  <2>1. arg.len \in Nat /\ arg.len - k.done > 0
    BY <1>2 DEF Sized, InBounds, Objects
  <2> QED  BY <2>1 DEF Smaller
<1>5. Before = IF k.done # 0 THEN {p} ELSE {}
  BY DEF Before, Objects
<1>6. Parcel = req.writes \cup Before
  BY DEF Parcel, Crypted
<1> HIDE DEF p, q, r, n
<1>7. req.writes = o \cup {q, r}
  <2>1. req.writes = {x \in o \cup {q, r} : x.len > 0}
    BY <1>2 DEF Made
  <2>2. \A x \in o \cup {q, r} : x.len > 0
    BY <1>3, <1>4
  <2> QED  BY <2>1, <2>2
<1>8. Parcel = {p, q, r}
  BY <1>5, <1>6, <1>7
<1>9. /\ p.len \in Nat \ {0} /\ q.len \in Nat \ {0} /\ r.len \in Nat \ {0}
      /\ p.at = 4 /\ q.at = p.at + p.len /\ r.at = q.at + q.len /\ 4 + (4 + n) = r.at + r.len
      /\ 4 + n \in Nat /\ m \in Int /\ 4 + (4 + n) <= m
  BY <1>3, <1>4
<1>10. Row({p, q, r}, 4, 4 + (4 + n))
  BY <1>9, RowOf3
<1>11. Whole({p, q, r}, req)
  <2>1. \A x \in o \cup {q, r} : x.len > 0 => x \in {p, q, r}
    OBVIOUS
  <2> QED  BY <1>2, <1>9, <1>10, <2>1, WholeBy
<1>12. Tells({p, q, r}, "offset", arg.offset + k.done, 2) /\ Tells({p, q, r}, "data", k.done, n)
  BY <1>3 DEF Tells
<1> QED
  BY <1>2, <1>3, <1>4, <1>8, <1>11, <1>12 DEF Made, p, n

\* CmdLib_CalcHash: the data, or the object it is taken from, then the context that comes in
\* and the one that goes out.
LEMMA WholeHash ==
  ASSUME HashSized(arg), Requested
  PROVE  /\ Whole(Parcel, req) /\ Roomy(req)
         /\ Tells(Parcel, "sequence", arg.sequence, 1)
         /\ IF arg.host
            THEN /\ Silent(Parcel, "oid")
                 /\ IF arg.len = 0 THEN Silent(Parcel, "data")
                    ELSE /\ Tells(Parcel, "data", arg.from, arg.len)
                         /\ Tells(Parcel, "inlength", arg.len, 2)
            ELSE /\ Silent(Parcel, "data") /\ Tells(Parcel, "oid", arg.oid, 2)
                 /\ Tells(Parcel, "length", arg.len, 2)
         /\ IF arg.action \in {"import", "both"}
            THEN Tells(Parcel, "import", arg.state, 133) ELSE Silent(Parcel, "import")
         /\ IF arg.action \in {"export", "both"}
            THEN Tells(Parcel, "export", 0, 3) ELSE Silent(Parcel, "export")
<1> DEFINE import == arg.action \in {"import", "both"}
           export == arg.action \in {"export", "both"}
           w == IF arg.host THEN arg.len ELSE 6
           i == IF import THEN CALC_HASH_IMPORT_OR_EXPORT_OVERHEAD_SIZE + arg.context ELSE 0
           e == IF export THEN CALC_HASH_IMPORT_OR_EXPORT_OVERHEAD_SIZE ELSE 0
           want == CALC_HASH_FIXED_OVERHEAD_SIZE + (IF arg.sequence = "final" THEN HASH_LEN ELSE 0)
                   + (IF export THEN CALC_HASH_SHA256_CONTEXT_SIZE ELSE 0)
           alloc == Larger(want, CALC_HASH_FIXED_OVERHEAD_SIZE + w + (i + e))
           p == Piece(4, 1, "sequence", arg.sequence)
           q == Piece(5, 2, "inlength", w)
           r == Piece(7, w, "data", arg.from)
           s == Oid(7, arg.oid)
           t == Piece(9, 2, "offset", arg.from)
           u == Piece(11, 2, "length", arg.len)
           v == Tlv(7 + w, "import", arg.context, arg.state)
           x == Tlv((7 + w) + (i + e) - LEN_TAG_ENCODING, "export", 0, 0)
           data == IF arg.host THEN {r} ELSE {s, t, u}
           in == IF import THEN {v} ELSE {}
           ex == IF export THEN {x} ELSE {}
<1>1. req = CalcHash(arg, wMaxCommsBuffer)
  BY RequestIs DEF Requested, HashSized
<1>2. Made(req, alloc, {p, q} \cup data \cup (in \cup ex), 3 + w + (i + e), 0, alloc)
  BY <1>1, RefuseIs, ApduIs DEF Requested, CalcHash, Refused
<1>3. /\ w \in Nat /\ i \in Nat /\ e \in Nat /\ alloc \in Nat /\ 7 + w + (i + e) <= alloc
      /\ i = (IF import THEN 133 ELSE 0) /\ e = (IF export THEN 3 ELSE 0)
  BY DEF HashSized, CALC_HASH_IMPORT_OR_EXPORT_OVERHEAD_SIZE, CALC_HASH_FIXED_OVERHEAD_SIZE,
         CALC_HASH_SHA256_CONTEXT_SIZE, HASH_LEN, Larger
<1>4. /\ p.at = 4 /\ p.len = 1 /\ q.at = 5 /\ q.len = 2 /\ r.at = 7 /\ r.len = w
      /\ s.at = 7 /\ s.len = 2 /\ t.at = 9 /\ t.len = 2 /\ u.at = 11 /\ u.len = 2
      /\ v.at = 7 + w /\ v.len = 133 /\ x.at = 7 + w + (i + e) - 3 /\ x.len = 3
  BY <1>3, PieceIs DEF HashSized, CALC_HASH_SHA256_CONTEXT_SIZE, LEN_TAG_ENCODING
<1>5. /\ p.what[1] = "sequence" /\ q.what[1] = "inlength" /\ r.what[1] = "data" /\ s.what[1] = "oid"
      /\ t.what[1] = "offset" /\ u.what[1] = "length" /\ v.what[1] = "import" /\ x.what[1] = "export"
      /\ p.what[2] = arg.sequence /\ q.what[2] = w /\ r.what[2] = arg.from /\ s.what[2] = arg.oid
      /\ u.what[2] = arg.len /\ v.what[2] = arg.state /\ x.what[2] = 0
  BY PieceIs
<1>6. /\ arg.host => w = arg.len
      /\ ~arg.host => w = 6
  OBVIOUS
<1> HIDE DEF p, q, r, s, t, u, v, x, alloc, i, e, w
<1> DEFINE ps == (({p, q} \cup {y \in data : y.len > 0}) \cup in) \cup ex
<1>7. Row({p, q}, 4, 7)
  <2>1. /\ p.len \in Nat \ {0} /\ q.len \in Nat \ {0} /\ p.at = 4 /\ q.at = p.at + p.len /\ 7 = q.at + q.len
    BY <1>4
  <2> QED  BY <2>1, RowOf2
<1>8. Row({p, q} \cup {y \in data : y.len > 0}, 4, 7 + w)
  <2>1. CASE arg.host
    <3>1. r.at = 7 /\ r.len \in Nat /\ 7 + w = 7 + r.len
      BY <1>3, <1>4
    <3>2. Row({p, q} \cup {y \in {r} : y.len > 0}, 4, 7 + w)
      BY <1>7, <3>1, RowThenMaybe
    <3> QED  BY <2>1, <3>2
  <2>2. CASE ~arg.host
    <3>1. /\ s.len \in Nat \ {0} /\ s.at = 7 /\ 9 = 7 + s.len
          /\ t.len \in Nat \ {0} /\ t.at = 9 /\ 11 = 9 + t.len
          /\ u.len \in Nat \ {0} /\ u.at = 11 /\ 7 + w = 11 + u.len
      BY <1>4, <1>6, <2>2
    <3>2. Row({p, q} \cup {s}, 4, 9)
      BY <1>7, <3>1, RowThen
    <3>3. Row(({p, q} \cup {s}) \cup {t}, 4, 11)
      BY <3>1, <3>2, RowThen
    <3>4. Row((({p, q} \cup {s}) \cup {t}) \cup {u}, 4, 7 + w)
      BY <3>1, <3>3, RowThen
    <3>5. {y \in data : y.len > 0} = {s, t, u}
      BY <2>2, <3>1
    <3>6. (({p, q} \cup {s}) \cup {t}) \cup {u} = {p, q} \cup {s, t, u}
      OBVIOUS
    <3> QED  BY <3>4, <3>5, <3>6
  <2> QED  BY <2>1, <2>2
<1>9. Row(({p, q} \cup {y \in data : y.len > 0}) \cup in, 4, 7 + w + i)
  <2>1. CASE import
    <3>1. v.at = 7 + w /\ v.len \in Nat \ {0} /\ 7 + w + i = 7 + w + v.len
      BY <1>3, <1>4, <2>1
    <3>2. Row(({p, q} \cup {y \in data : y.len > 0}) \cup {v}, 4, 7 + w + i)
      BY <1>8, <3>1, RowThen
    <3> QED  BY <2>1, <3>2
  <2>2. CASE ~import
    <3>1. 7 + w + i = 7 + w
      BY <1>3, <2>2
    <3>2. ({p, q} \cup {y \in data : y.len > 0}) \cup in = {p, q} \cup {y \in data : y.len > 0}
      BY <2>2
    <3> QED  BY <1>8, <3>1, <3>2
  <2> QED  BY <2>1, <2>2
<1>10. Row(ps, 4, 4 + (3 + w + (i + e)))
  <2>1. CASE export
    <3>1. x.at = 7 + w + i /\ x.len \in Nat \ {0} /\ 4 + (3 + w + (i + e)) = 7 + w + i + x.len
      BY <1>3, <1>4, <2>1
    <3>2. Row((({p, q} \cup {y \in data : y.len > 0}) \cup in) \cup {x}, 4, 4 + (3 + w + (i + e)))
      BY <1>9, <3>1, RowThen
    <3> QED  BY <2>1, <3>2
  <2>2. CASE ~export
    <3>1. 4 + (3 + w + (i + e)) = 7 + w + i
      BY <1>3, <2>2
    <3>2. ps = ({p, q} \cup {y \in data : y.len > 0}) \cup in
      BY <2>2
    <3> QED  BY <1>9, <3>1, <3>2
  <2> QED  BY <2>1, <2>2
<1>11. req.writes = ps
  <2>1. req.writes = {y \in {p, q} \cup data \cup (in \cup ex) : y.len > 0}
    BY <1>2 DEF Made
  <2>2. \A y \in {p, q} \cup in \cup ex : y.len > 0
    BY <1>4
  <2>3. \A y : y \in req.writes <=> y \in ps
    BY <2>1, <2>2
  <2> QED  BY <2>1, <2>3
<1>12. Whole(ps, req)
  <2>1. /\ 3 + w + (i + e) \in Nat /\ 4 + (3 + w + (i + e)) <= alloc /\ alloc \in Nat /\ alloc \in Int
        /\ \A y \in {p, q} \cup data \cup (in \cup ex) : y.len > 0 => y \in ps
    BY <1>3
  <2> HIDE DEF ps, data, in, ex
  <2> QED  BY <1>2, <1>10, <2>1, WholeBy
<1>13. Parcel = ps /\ Roomy(req)
  <2>1. Parcel = ps
    BY <1>11, ParcelIs DEF HashSized, Crypted, Objects
  <2>2. 0 + alloc <= alloc
    BY <1>3
  <2> QED  BY <1>2, <2>1, <2>2 DEF Roomy, Made
<1>14. Tells(ps, "sequence", arg.sequence, 1)
  BY <1>4, <1>5 DEF Tells
<1>15. IF arg.host
       THEN /\ Silent(ps, "oid")
            /\ IF arg.len = 0 THEN Silent(ps, "data")
               ELSE Tells(ps, "data", arg.from, arg.len) /\ Tells(ps, "inlength", arg.len, 2)
       ELSE /\ Silent(ps, "data") /\ Tells(ps, "oid", arg.oid, 2) /\ Tells(ps, "length", arg.len, 2)
  <2>1. CASE arg.host
    <3>1. Silent(ps, "oid")
      BY <1>5, <2>1 DEF Silent
    <3>2. arg.len = 0 => Silent(ps, "data")
      BY <1>4, <1>5, <1>6, <2>1 DEF Silent
    <3>3. arg.len # 0 => Tells(ps, "data", arg.from, arg.len) /\ Tells(ps, "inlength", arg.len, 2)
      BY <1>3, <1>4, <1>5, <1>6, <2>1 DEF Tells
    <3> QED  BY <2>1, <3>1, <3>2, <3>3
  <2>2. CASE ~arg.host
    <3>1. Silent(ps, "data")
      BY <1>5, <2>2 DEF Silent
    <3>2. Tells(ps, "oid", arg.oid, 2) /\ Tells(ps, "length", arg.len, 2)
      BY <1>4, <1>5, <2>2 DEF Tells
    <3> QED  BY <2>2, <3>1, <3>2
  <2> QED  BY <2>1, <2>2
<1>16. IF import THEN Tells(ps, "import", arg.state, 133) ELSE Silent(ps, "import")
  <2>1. import => Tells(ps, "import", arg.state, 133)
    BY <1>4, <1>5 DEF Tells
  <2>2. ~import => Silent(ps, "import")
    BY <1>4, <1>5 DEF Silent
  <2> QED  BY <2>1, <2>2
<1>17. IF export THEN Tells(ps, "export", 0, 3) ELSE Silent(ps, "export")
  <2>1. export => Tells(ps, "export", 0, 3)
    BY <1>4, <1>5 DEF Tells
  <2>2. ~export => Silent(ps, "export")
    BY <1>4, <1>5 DEF Silent
  <2> QED  BY <2>1, <2>2
<1> HIDE DEF ps
<1> QED
  BY <1>12, <1>13, <1>14, <1>15, <1>16, <1>17

\* A fragment of EncDecHelper behind its header: the session, whether it is the last one, and
\* the data, which was there before.
LEMMA WholeCrypto ==
  ASSUME arg.cmd \in Crypted, Sized(arg), Requested, InBounds, k.done \in Nat, k.total \in Nat,
         wMaxCommsBuffer \in Nat, wMaxCommsBuffer >= 300
  PROVE  /\ Whole(Parcel, req) /\ req.at + req.room <= arg.room /\ req.base = ADDITIONALBYTES_ENCDEC + k.done
         /\ req.payload = 5 + Smaller(arg.len - k.done, wMaxPlainText(wMaxCommsBuffer))
         /\ k.done \in Cuts(arg.len, wMaxCommsBuffer) /\ arg.len # 0
         /\ req.at = k.total /\ req.room = arg.room - k.total
         /\ FragSeq(arg.len, k.done, wMaxCommsBuffer) \in {"start", "continue", "final"}
         /\ Tells(Parcel, "data", k.done, Smaller(wMaxPlainText(wMaxCommsBuffer), arg.len - k.done))
         /\ Tells(Parcel, FragSeq(arg.len, k.done, wMaxCommsBuffer),
                  Smaller(arg.len - k.done, wMaxPlainText(wMaxCommsBuffer)), 3)
         /\ \A t \in {"start", "continue", "final"} :
              t # FragSeq(arg.len, k.done, wMaxCommsBuffer) => Silent(Parcel, t)
         /\ \A p \in req.writes :
              \/ p.at = 10 + k.done /\ p.len = 4
              \/ p.at = 14 + k.done /\ p.len = 2
              \/ p.at = 16 + k.done /\ p.len = 3
         /\ \E p, q, r \in req.writes :
              /\ p.at = 10 + k.done /\ p.len = 4 /\ q.at = 14 + k.done /\ q.len = 2
              /\ r.at = 16 + k.done /\ r.len = 3 /\ p \notin Parcel
              /\ Parcel = {q, r, Fragment(k.done, arg.len, wMaxCommsBuffer)}
              /\ req.writes = {p, q, r}
<1>1. req = EncDecHelper(arg, k.done, k.total, wMaxCommsBuffer)
  BY RequestIs DEF Requested
<1> DEFINE m == wMaxPlainText(wMaxCommsBuffer)
           f == FragSeq(arg.len, k.done, wMaxCommsBuffer)
           w == Smaller(arg.len - k.done, m)
           p == Piece(10 + k.done, 4, "header", 0)
           q == Piece((10 + k.done) + 4, 2, "session", arg.session)
           r == Piece((10 + k.done) + 6, 3, f, w)
           s == Fragment(k.done, arg.len, wMaxCommsBuffer)
<1>2. /\ req.base = 10 + k.done /\ req.alloc = arg.stream /\ req.payload = 5 + w
      /\ req.at = k.total /\ req.room = arg.room - k.total
      /\ req.writes = {x \in {p, q, r} : x.len > 0}
      /\ arg.len # 0 /\ ~(arg.stream < arg.len + OVERHEAD_UPDOWNLINK) /\ ~(arg.len > arg.room)
  BY <1>1, RefuseIs DEF Requested, EncDecHelper, Refused, Apdu, ADDITIONALBYTES_ENCDEC
<1>3. /\ m \in Nat /\ m >= 281 /\ arg.len \in Nat /\ arg.len > 0 /\ arg.stream >= arg.len + 19
      /\ arg.room \in Nat /\ arg.stream \in Nat
  BY <1>2 DEF Sized, Crypted, OVERHEAD_UPDOWNLINK, wMaxPlainText
<1>4. k.done \in Cuts(arg.len, wMaxCommsBuffer) /\ k.done < arg.len
  BY <1>2 DEF InBounds, Cuts
<1>5. w \in Nat \ {0} /\ w <= arg.len - k.done /\ w = Smaller(m, arg.len - k.done)
  BY <1>3, <1>4 DEF Smaller
<1>6. f \in {"start", "continue", "final"}
  BY DEF FragSeq
<1>7. /\ p.at = 10 + k.done /\ p.len = 4 /\ q.at = 14 + k.done /\ q.len = 2
      /\ r.at = 16 + k.done /\ r.len = 3 /\ s.at = 19 + k.done /\ s.len = w
      /\ p.what[1] = "header" /\ q.what[1] = "session" /\ r.what[1] = f /\ s.what[1] = "data"
      /\ r.what[2] = w /\ s.what[2] = k.done
  BY <1>5, PieceIs DEF Fragment, OVERHEAD_UPDOWNLINK
<1> HIDE DEF m, f, w, p, q, r, s
<1>8. req.writes = {p, q, r}
  BY <1>2, <1>7
<1>9. Parcel = {q, r, s}
  <2>1. Parcel = {x \in {p, q, r} : x.what[1] # "header"} \cup {s}
    BY <1>8 DEF Parcel, s
  <2>2. "session" # "header" /\ f # "header"
    BY <1>6
  <2> QED  BY <1>7, <2>1, <2>2
<1>10. Row({q, r, s}, 14 + k.done, 19 + k.done + w)
  <2>1. \A x \in {q, r, s} : x.at \in Nat /\ x.len \in Nat
    BY <1>5, <1>7
  <2>2. Lined({q, r, s}, 14 + k.done, 19 + k.done + w)
    BY <1>5, <1>7 DEF Lined, Apart
  <2> QED  BY <1>5, <2>1, <2>2 DEF Row
<1>11. Whole({q, r, s}, req)
  <2>1. /\ req.base + LEN_APDUHEADER = 14 + k.done
        /\ req.base + LEN_APDUHEADER + req.payload = 19 + k.done + w
        /\ 19 + k.done + w <= arg.stream
        /\ req.base \in Nat /\ req.payload \in Nat
    BY <1>2, <1>3, <1>5 DEF LEN_APDUHEADER
  <2> QED  BY <1>2, <1>3, <1>5, <1>7, <1>8, <1>10, <2>1 DEF Whole
<1>12. Tells({q, r, s}, "data", k.done, w) /\ Tells({q, r, s}, f, w, 3)
  BY <1>6, <1>7 DEF Tells
<1>13. \A t \in {"start", "continue", "final"} : t # f => Silent({q, r, s}, t)
  BY <1>6, <1>7 DEF Silent
<1>14. p \notin {q, r, s}
  <2>1. 10 + k.done # 14 + k.done /\ 10 + k.done # 16 + k.done /\ 10 + k.done # 19 + k.done
    OBVIOUS
  <2> QED  BY <1>7, <2>1
<1> QED
  BY <1>2, <1>3, <1>4, <1>5, <1>6, <1>7, <1>8, <1>9, <1>11, <1>12, <1>13, <1>14 DEF m, f, w, s, ADDITIONALBYTES_ENCDEC

\* What a call runs, and that its arguments are of their sizes.
Plain ==
  {"GetRandom", "GenerateKeyPair", "CalculateSign", "VerifySign", "CalculateSharedSecret", "DeriveKey",
   "GetDataObject", "SetDataObject", "GetSignature", "SetAuthScheme", "GetMessage", "PutMessage",
   "Encrypt", "Decrypt", "CloseSession"}

\* A call the program makes runs a command of its own, with arguments of their sizes.
LEMMA CallableIs ==
  ASSUME NEW c, Callable(c)
  PROVE  /\ c.arg.cmd \in Plain /\ Sized(c.arg) /\ c.api \notin Hashing \cup {"open", "limit"}
         /\ c.api \in {"read_data", "write_data"} => ~c.arg.meta
<1>1. /\ c.api \in DOMAIN Runs /\ c.arg.cmd \in Runs[c.api] /\ Sized(c.arg)
      /\ c.api \in {"read_data", "write_data"} => ~c.arg.meta
  BY DEF Callable
<1>2. DOMAIN Runs = {"random", "keypair", "sign", "verify", "ecdh", "tls_prf", "read_data", "read_metadata",
                     "write_data", "write_metadata", "signature", "scheme", "message", "crypto", "close"}
  BY DEF Runs
<1>3. \A api \in DOMAIN Runs : Runs[api] \subseteq Plain
  BY DEF Runs, Plain
<1> QED
  BY <1>1, <1>2, <1>3 DEF Hashing

\* The arguments of the current limit.
LEMMA LimitIs ==
  /\ CurrentLimitation.arg.cmd = "SetDataObject" /\ Sized(CurrentLimitation.arg)
  /\ CurrentLimitation.api = "write_data"
  /\ DOMAIN CurrentLimitation = {"api", "arg"}
  /\ CurrentLimitation.arg.offset = 0 /\ CurrentLimitation.arg.len = 1 /\ ~CurrentLimitation.arg.meta
BY DEF CurrentLimitation, WriteData, Call, Sized

\* A command, its arguments and the call it runs for.
LEMMA ArgIs ==
  ASSUME Runner
  PROVE  /\ arg.cmd \in Plain \cup {"OpenApplication", "GetMaxCommsBuffer", "CalcHash"}
         /\ arg.cmd # "CalcHash" => Sized(arg)
         /\ arg.cmd = "CalcHash" <=> call.api \in Hashing
         /\ arg.cmd = "CalcHash" => HashSized(arg)
         /\ arg.cmd \in {"OpenApplication", "GetMaxCommsBuffer"} => call.api = "open"
<1>1. CASE Callable(call) /\ arg = call.arg
  BY <1>1, CallableIs DEF Plain, Hashing
<1>2. CASE call.api = "open" /\ arg \in {Opening, Asking}
  <2>1. arg.cmd \in {"OpenApplication", "GetMaxCommsBuffer"}
    BY <1>2 DEF Opening, Asking
  <2> QED  BY <1>2, <2>1 DEF Hashing, Sized
<1>3. CASE call.api = "limit" /\ arg = CurrentLimitation.arg
  BY <1>3, LimitIs DEF Plain, Hashing
<1>4. CASE call.api \in Hashing /\ HashSized(arg)
  BY <1>4 DEF Plain, Hashing, HashSized
<1> QED
  BY <1>1, <1>2, <1>3, <1>4 DEF Runner

\* The largest request a caller of the library makes of the device.
LEMMA MaxIs ==
  ASSUME wMaxCommsBuffer \in {Unknown, DeviceMax}
  PROVE  wMaxCommsBuffer \in Nat /\ wMaxCommsBuffer >= 300 /\ DeviceMax # Unknown
BY OptigaAssumption DEF Unknown, MAX_APDU_BUFF_LEN

\* Where the response to a request may be put: at its beginning, and for the commands that
\* promise more room than they have, as far as what the device says.
Receives ==
  IF arg.cmd \in Crypted THEN req.at + req.room <= arg.room
  ELSE IF arg.cmd = "SetDataObject" THEN req.at = 7 /\ req.alloc >= 300
  ELSE IF arg.cmd = "VerifySign" THEN req.at = 0 /\ req.alloc >= 4
  ELSE Roomy(req)

\* Every request is whole.
LEMMA WholeAll ==
  ASSUME Types, Runner, InBounds, Requested
  PROVE  Whole(Parcel, req) /\ Receives
<1>1. /\ arg.cmd \in Plain \cup {"OpenApplication", "GetMaxCommsBuffer", "CalcHash"}
      /\ arg.cmd # "CalcHash" => Sized(arg)
      /\ arg.cmd = "CalcHash" => HashSized(arg)
  BY ArgIs
<1>2. /\ wMaxCommsBuffer \in Nat /\ wMaxCommsBuffer >= 300
      /\ k.done \in Nat /\ k.total \in Nat /\ k.step \in 0..2
  BY MaxIs DEF Types
<1>3. CASE arg.cmd \in Crypted
  <2>1. arg.cmd # "CalcHash"
    BY <1>3 DEF Crypted
  <2> QED  BY <1>1, <1>2, <1>3, <2>1, WholeCrypto DEF Receives
<1>4. CASE arg.cmd = "SetDataObject"
  BY <1>1, <1>2, <1>4, WholeWrite DEF Receives, Crypted
<1>5. CASE arg.cmd = "VerifySign"
  <2>1. Whole(Parcel, req) /\ req.at = 0
    <3>1. CASE arg.host
      BY <1>1, <1>2, <1>5, <3>1, WholeVerifyHost
    <3>2. CASE ~arg.host
      BY <1>1, <1>2, <1>5, <3>2, WholeVerifyOid
    <3> QED  BY <3>1, <3>2
  <2>2. req.alloc >= 4
    BY <2>1 DEF Whole, LEN_APDUHEADER
  <2> QED  BY <1>5, <2>1, <2>2 DEF Receives, Crypted
<1>6. CASE arg.cmd = "GetSignature"
  BY <1>1, <1>2, <1>6, WholeSignature0, WholeSignature1, WholeSignature2 DEF Receives, Crypted
<1>7. CASE arg.cmd = "GetMessage"
  <2>1. Whole(Parcel, req) /\ Roomy(req)
    BY <1>1, <1>7, WholeHello, WholeCertificate, WholeOther
  <2> QED  BY <1>7, <2>1 DEF Receives, Crypted
<1>8. CASE arg.cmd = "GenerateKeyPair"
  <2>1. KeyLen[arg.curve] \in Nat
    <3>1. req = GenerateKeyPair(arg, wMaxCommsBuffer)
      BY <1>8, RequestIs DEF Requested
    <3>2. arg.curve \in DOMAIN KeyLen
      BY <3>1, RefuseIs DEF Requested, Refused, GenerateKeyPair
    <3> QED  BY <3>2 DEF KeyLen
  <2>2. Whole(Parcel, req) /\ Roomy(req)
    BY <1>1, <1>8, <2>1, WholeKeysOut, WholeKeysKept
  <2> QED  BY <1>8, <2>2 DEF Receives, Crypted
<1>9. CASE arg.cmd = "CalcHash"
  <2>1. Whole(Parcel, req) /\ Roomy(req)
    BY <1>1, <1>9, WholeHash
  <2> QED  BY <1>9, <2>1 DEF Receives, Crypted
<1>10. CASE arg.cmd \in {"GetRandom", "CalculateSign", "CalculateSharedSecret", "DeriveKey"}
  <2>1. Whole(Parcel, req) /\ Roomy(req)
    BY <1>1, <1>10, WholeRandom, WholeSign, WholeSecret, WholeDerive
  <2> QED  BY <1>10, <2>1 DEF Receives, Crypted
<1>11. CASE arg.cmd \in {"OpenApplication", "GetMaxCommsBuffer", "SetAuthScheme", "CloseSession", "PutMessage"}
  <2>1. Whole(Parcel, req) /\ Roomy(req)
    BY <1>1, <1>11, WholeOpen, WholeLimit, WholeScheme, WholeClose, WholePut
  <2> QED  BY <1>11, <2>1 DEF Receives, Crypted
<1>12. CASE arg.cmd = "GetDataObject"
  <2>1. Whole(Parcel, req) /\ Roomy(req)
    BY <1>1, <1>2, <1>12, WholeRead
  <2> QED  BY <1>12, <2>1 DEF Receives, Crypted
<1> QED
  BY <1>1, <1>3, <1>4, <1>5, <1>6, <1>7, <1>8, <1>9, <1>10, <1>11, <1>12 DEF Plain, Crypted
-----------------------------------------------------------------------------
(* The device *)

\* What the device makes of a request, by command.
LEMMA DeviceIs ==
  /\ (arg.cmd # "OpenApplication" /\ ~chip.open) => Device = NoAnswer
  /\ Device = NoAnswer \/
       /\ arg.cmd = "OpenApplication" => Device = Done([chip EXCEPT !.open = TRUE], Answer(LEN_APDUHEADER))
       /\ arg.cmd = "GetMaxCommsBuffer" => Device = Done(chip, Answer(LEN_APDUHEADER + 2))
       /\ arg.cmd = "GetDataObject" => Device = DeviceRead
       /\ arg.cmd = "SetDataObject" => Device = DeviceWrite
       /\ arg.cmd = "GetRandom" => Device = Done(chip, Answer(LEN_APDUHEADER + Value("length")))
       /\ arg.cmd = "CalcHash" => Device = DeviceHash
       /\ arg.cmd = "GetSignature" => Device = DeviceSignature
       /\ arg.cmd = "GenerateKeyPair" =>
            Device = Done(chip, Answer(LEN_APDUHEADER + LEN_TAG_ENCODING + Size(arg.curve)
                                       + IF arg.export THEN LEN_TAG_ENCODING + KeyLen[arg.curve] + 2 ELSE 0))
       /\ arg.cmd = "CalculateSign" => Device = Done(chip, Answer(LEN_APDUHEADER + 72))
       /\ arg.cmd = "CalculateSharedSecret" =>
            Device = Done(chip, Answer(LEN_APDUHEADER + IF arg.export THEN KeyLen[arg.curve] ELSE 0))
       /\ arg.cmd = "DeriveKey" =>
            Device = Done(chip, Answer(LEN_APDUHEADER + IF arg.export THEN Value("length") ELSE 0))
       /\ arg.cmd = "GetMessage" => Device = DeviceMessage
       /\ arg.cmd \in Crypted => Device = DeviceCrypto
       /\ arg.cmd \in {"SetAuthScheme", "VerifySign", "PutMessage", "CloseSession"} =>
            Device = Done(chip, Answer(LEN_APDUHEADER))
<1>1. \/ Device = NoAnswer /\ (~Fills(buffer, req.base, req.payload) \/ (arg.cmd # "OpenApplication" /\ ~chip.open))
      \/ ~(~Fills(buffer, req.base, req.payload) \/ (arg.cmd # "OpenApplication" /\ ~chip.open))
  BY DEF Device
<1>2. CASE ~(~Fills(buffer, req.base, req.payload) \/ (arg.cmd # "OpenApplication" /\ ~chip.open))
  BY <1>2 DEF Device, Crypted
<1> QED
  BY <1>1, <1>2

\* What is needed of an answer for the memory it is written to.
Answers(d) ==
  /\ ChipOK(d.chip) /\ d.ans.len \in Int /\ "len" \in DOMAIN d.ans
  /\ arg.cmd \in {"SetDataObject", "VerifySign"} => d.ans.len = 4
  /\ arg.cmd = "GetDataObject" /\ d.ans.code = "ok" => d.ans.len > 4
  /\ arg.cmd \in Crypted /\ d.ans.code = "ok" => d.ans.n \in Nat /\ "n" \in DOMAIN d.ans

\* The device may always answer that it cannot.
LEMMA NoAnswers ==
  ASSUME ChipOK(chip)
  PROVE  Answers(NoAnswer)
BY DEF Answers, NoAnswer, Error, LEN_APDUHEADER

\* An answer without more than its length.
LEMMA AnswerIs ==
  ASSUME NEW c, NEW n, ChipOK(c), n \in Int, arg.cmd \in {"SetDataObject", "VerifySign"} => n = 4,
         arg.cmd = "GetDataObject" => n > 4, arg.cmd \notin Crypted
  PROVE  Answers(Done(c, Answer(n)))
BY DEF Answers, Done, Answer

\* Reading an object.
LEMMA ReadIs ==
  ASSUME arg.cmd = "GetDataObject", Sized(arg), Requested, Sent = Parcel,
         wMaxCommsBuffer \in Nat, wMaxCommsBuffer >= 300, k.done \in Nat
  PROVE  /\ arg.meta => DeviceRead = Done(chip, Answer(LEN_APDUHEADER + 24))
         /\ ~arg.meta =>
              LET n == Smaller(Smaller(wMaxCommsBuffer - LEN_APDUHEADER, arg.len - k.done),
                               chip.used - (arg.offset + k.done))
              IN DeviceRead = IF n <= 0 THEN Done(chip, Error("bound"))
                              ELSE Done(chip, [code |-> "ok", len |-> LEN_APDUHEADER + n,
                                               from |-> arg.offset + k.done, n |-> n])
<1>1. CASE arg.meta
  BY <1>1, WholeRead DEF DeviceRead
<1>2. CASE ~arg.meta
  <2>1. /\ req.param = "data" /\ Value("offset") = arg.offset + k.done
        /\ Value("length") = Smaller(wMaxCommsBuffer - LEN_APDUHEADER, arg.len - k.done)
    BY <1>2, WholeRead, ToldIs
  <2> QED  BY <1>2, <2>1 DEF DeviceRead
<1> QED
  BY <1>1, <1>2

\* Writing one.
LEMMA WriteIs ==
  ASSUME arg.cmd = "SetDataObject", Sized(arg), Requested, InBounds, Sent = Parcel,
         wMaxCommsBuffer \in Nat, wMaxCommsBuffer >= 300, k.done \in Nat
  PROVE  /\ arg.meta => DeviceWrite = Done(chip, Answer(LEN_APDUHEADER))
         /\ ~arg.meta =>
              LET from == arg.offset + k.done
                  to == from + Smaller(wMaxCommsBuffer - 8, arg.len - k.done)
              IN /\ req.param \in {"data", "erase"}
                 /\ DeviceWrite =
                      IF from > chip.used \/ to > ObjectSize THEN Done(chip, Error("bound"))
                      ELSE Done([chip EXCEPT !.used = IF req.param = "erase" THEN to ELSE Larger(to, @),
                                             !.to = IF from = @ /\ k.done = from - chip.from
                                                    THEN to ELSE Scrambled],
                                Answer(LEN_APDUHEADER))
<1>1. CASE arg.meta
  BY <1>1, WholeWrite DEF DeviceWrite
<1>2. CASE ~arg.meta
  <2>1. /\ req.param \in {"data", "erase"} /\ Value("offset") = arg.offset + k.done
        /\ Length("data") = Smaller(wMaxCommsBuffer - 8, arg.len - k.done) /\ Value("data") = k.done
    BY <1>2, WholeWrite, ToldIs
  <2>2. req.param # "metadata"
    BY <2>1
  <2> QED  BY <1>2, <2>1, <2>2 DEF DeviceWrite
<1> QED
  BY <1>1, <1>2

\* Encrypting and decrypting.
LEMMA CryptoIs ==
  ASSUME arg.cmd \in Crypted, Sized(arg), Requested, InBounds, Sent = Parcel, k.done \in Nat, k.total \in Nat,
         wMaxCommsBuffer \in Nat, wMaxCommsBuffer >= 300
  PROVE  LET tag == FragSeq(arg.len, k.done, wMaxCommsBuffer)
             n == Smaller(arg.len - k.done, wMaxPlainText(wMaxCommsBuffer))
             extra == (IF k.done = 0 THEN 8 ELSE 0) + (IF tag = "final" THEN 8 ELSE 0)
             m == IF req.param = "Encrypt" THEN n + extra ELSE n - extra
         IN DeviceCrypto = IF m <= 0 THEN NoAnswer
                           ELSE Done(chip, [code |-> "ok", len |-> OVERHEAD_ENCDEC_RESPONSE + m, tag |-> tag,
                                            n |-> m, from |-> k.done])
<1> DEFINE tag == FragSeq(arg.len, k.done, wMaxCommsBuffer)
           n == Smaller(arg.len - k.done, wMaxPlainText(wMaxCommsBuffer))
           w == Smaller(wMaxPlainText(wMaxCommsBuffer), arg.len - k.done)
<1>1. /\ tag \in {"start", "continue", "final"} /\ Tells(Parcel, "data", k.done, w) /\ Tells(Parcel, tag, n, 3)
      /\ \A t \in {"start", "continue", "final"} : t # tag => Silent(Parcel, t)
  BY WholeCrypto
<1> HIDE DEF tag, n, w
<1>2. /\ Value("data") = k.done /\ Value(tag) = n /\ Says(tag)
      /\ \A t \in {"start", "continue", "final"} : t # tag => ~Says(t)
  BY <1>1, ToldIs DEF Silent, Says
<1> DEFINE c == CHOOSE t \in {"start", "continue", "final"} : Says(t)
           more(t) == (IF Value("data") = 0 THEN 8 ELSE 0) + (IF t = "final" THEN 8 ELSE 0)
           m(t) == IF req.param = "Encrypt" THEN Value(t) + more(t) ELSE Value(t) - more(t)
           answer(t) == IF m(t) <= 0 THEN NoAnswer
                        ELSE Done(chip, [code |-> "ok", len |-> OVERHEAD_ENCDEC_RESPONSE + m(t), tag |-> t,
                                         n |-> m(t), from |-> Value("data")])
<1>3. DeviceCrypto = answer(c)
  BY Zenon DEF DeviceCrypto
<1>4. c = tag
  BY <1>1, <1>2
<1> HIDE DEF c
<1>5. answer(c) = answer(tag)
  BY <1>4
<1> QED
  BY <1>2, <1>3, <1>5 DEF tag, n

\* The three requests of CmdLib_GetSignature.
LEMMA SigningIs ==
  ASSUME arg.cmd = "GetSignature", Sized(arg), Requested, Sent = Parcel, k.step \in 0..2
  PROVE  /\ k.step = 0 => DeviceSignature = Done([chip EXCEPT !.auth = arg.key], Answer(LEN_APDUHEADER))
         /\ k.step = 1 => DeviceSignature = Done([chip EXCEPT !.challenge = arg.challenge], Answer(LEN_APDUHEADER))
         /\ k.step = 2 =>
              DeviceSignature = IF "none" \in {chip.auth, chip.challenge} THEN NoAnswer
                                ELSE Done(chip, [code |-> "ok", len |-> LEN_APDUHEADER + 70,
                                                 of |-> <<chip.auth, chip.challenge>>])
<1>1. CASE k.step = 0
  <2>1. req.param = "ecdsa"
    <3>1. req = SetAuthScheme([scheme |-> "ecdsa", key |-> arg.key])
      BY <1>1, SignatureIs
    <3> QED  BY <3>1 DEF SetAuthScheme, Apdu
  <2>2. Value("oid") = arg.key
    BY <1>1, WholeSignature0, ToldIs
  <2> QED  BY <1>1, <2>1, <2>2 DEF DeviceSignature
<1>2. CASE k.step = 1
  <2>1. req.param = "challenge"
    BY <1>2, SignatureIs, ApduIs
  <2>2. Value("challenge") = arg.challenge
    BY <1>2, WholeSignature1, ToldIs
  <2> QED  BY <1>2, <2>1, <2>2 DEF DeviceSignature
<1>3. CASE k.step = 2
  <2>1. req.param = "signature"
    BY <1>3, SignatureIs, ApduIs
  <2> QED  BY <1>3, <2>1 DEF DeviceSignature
<1> QED
  BY <1>1, <1>2, <1>3

\* A message is asked for by its name.
LEMMA MessageIs ==
  ASSUME arg.cmd = "GetMessage", Requested
  PROVE  req.param = arg.message /\ req = GetMessage(arg, wMaxCommsBuffer)
<1>1. req = GetMessage(arg, wMaxCommsBuffer)
  BY RequestIs DEF Requested
<1> QED
  BY <1>1, RefuseIs DEF Requested, Refused, GetMessage, Apdu

\* Changing what the device knows does not change what it is.
LEMMA ChipKeeps ==
  ASSUME ChipOK(chip)
  PROVE  /\ \A x : ChipOK([chip EXCEPT !.open = x]) /\ ChipOK([chip EXCEPT !.hash = x])
         /\ \A x : ChipOK([chip EXCEPT !.auth = x]) /\ ChipOK([chip EXCEPT !.challenge = x])
         /\ \A x \in Nat : ChipOK([chip EXCEPT !.sent = x])
         /\ \A x \in Nat : \A y : ChipOK([chip EXCEPT !.used = x, !.to = y])
         /\ \A x : ChipOK(Unwritten(chip, x))
         /\ \A x : ChipOK([Unwritten(chip, x) EXCEPT !.open = FALSE, !.hash = NotHashing, !.auth = "none",
                                                     !.challenge = "none"])
         /\ \A x : ChipOK([Unwritten(chip, x) EXCEPT !.hash = NotHashing])
BY DEF ChipOK, Unwritten

\* Whatever the device answers.
LEMMA DeviceAll ==
  ASSUME Types, Runner, InBounds, Requested, Sent = Parcel
  PROVE  Answers(Device)
<1>1. /\ arg.cmd \in Plain \cup {"OpenApplication", "GetMaxCommsBuffer", "CalcHash"}
      /\ arg.cmd # "CalcHash" => Sized(arg)
      /\ arg.cmd = "CalcHash" => HashSized(arg)
  BY ArgIs
<1>2. /\ wMaxCommsBuffer \in Nat /\ wMaxCommsBuffer >= 300 /\ ChipOK(chip)
      /\ k.done \in Nat /\ k.total \in Nat /\ k.step \in 0..2
  BY MaxIs DEF Types
<1>3. chip.used \in Nat /\ chip.sent \in Nat
  BY <1>2 DEF ChipOK
<1>4. SUFFICES ASSUME Device # NoAnswer
               PROVE  Answers(Device)
  BY <1>2, NoAnswers
<1>5. CASE arg.cmd \in Crypted
  <2>1. arg.cmd # "CalcHash" /\ arg.cmd \notin {"SetDataObject", "VerifySign", "GetDataObject"}
    BY <1>5 DEF Crypted
  <2>2. Device = DeviceCrypto
    BY <1>4, <1>5, DeviceIs
  <2> DEFINE n == Smaller(arg.len - k.done, wMaxPlainText(wMaxCommsBuffer))
             tag == FragSeq(arg.len, k.done, wMaxCommsBuffer)
             more == (IF k.done = 0 THEN 8 ELSE 0) + (IF tag = "final" THEN 8 ELSE 0)
             m == IF req.param = "Encrypt" THEN n + more ELSE n - more
  <2>3. n \in Int /\ m \in Int
    BY <1>1, <1>2, <1>5, <2>1 DEF Sized, Crypted, Smaller, wMaxPlainText, OVERHEAD_UPDOWNLINK
  <2>4. DeviceCrypto = IF m <= 0 THEN NoAnswer
                       ELSE Done(chip, [code |-> "ok", len |-> OVERHEAD_ENCDEC_RESPONSE + m, tag |-> tag,
                                        n |-> m, from |-> k.done])
    BY <1>1, <1>2, <1>5, <2>1, CryptoIs
  <2> HIDE DEF m, tag, n
  <2>5. m > 0
    BY <1>4, <2>2, <2>3, <2>4
  <2> QED  BY <1>2, <2>1, <2>2, <2>3, <2>4, <2>5 DEF Answers, Done, OVERHEAD_ENCDEC_RESPONSE
<1>6. CASE arg.cmd = "GetDataObject"
  <2>1. Device = DeviceRead
    BY <1>4, <1>6, DeviceIs
  <2> DEFINE n == Smaller(Smaller(wMaxCommsBuffer - LEN_APDUHEADER, arg.len - k.done),
                          chip.used - (arg.offset + k.done))
  <2>2. n \in Int
    BY <1>1, <1>2, <1>3, <1>6 DEF Sized, Smaller, LEN_APDUHEADER
  <2>3. /\ arg.meta => DeviceRead = Done(chip, Answer(LEN_APDUHEADER + 24))
        /\ ~arg.meta => DeviceRead = IF n <= 0 THEN Done(chip, Error("bound"))
                                     ELSE Done(chip, [code |-> "ok", len |-> LEN_APDUHEADER + n,
                                                      from |-> arg.offset + k.done, n |-> n])
    BY <1>1, <1>2, <1>6, ReadIs
  <2> HIDE DEF n
  <2>4. CASE arg.meta
    BY <1>2, <1>6, <2>1, <2>3, <2>4 DEF Answers, Done, Answer, Crypted, LEN_APDUHEADER
  <2>5. CASE ~arg.meta /\ n <= 0
    BY <1>2, <1>6, <2>1, <2>3, <2>5 DEF Answers, Done, Error, Crypted, LEN_APDUHEADER
  <2>6. CASE ~arg.meta /\ n > 0
    BY <1>2, <1>6, <2>1, <2>2, <2>3, <2>6 DEF Answers, Done, Crypted, LEN_APDUHEADER
  <2> QED  BY <2>2, <2>4, <2>5, <2>6
<1>7. CASE arg.cmd = "SetDataObject"
  <2>1. Device = DeviceWrite
    BY <1>4, <1>7, DeviceIs
  <2> DEFINE from == arg.offset + k.done
             to == from + Smaller(wMaxCommsBuffer - 8, arg.len - k.done)
             more == IF req.param = "erase" THEN to ELSE Larger(to, chip.used)
             new == IF from = chip.to /\ k.done = from - chip.from THEN to ELSE Scrambled
  <2>2. from \in Nat /\ to \in Nat /\ more \in Nat
    BY <1>1, <1>2, <1>3, <1>7 DEF Sized, InBounds, Objects, Smaller, Larger
  <2>3. /\ arg.meta => DeviceWrite = Done(chip, Answer(LEN_APDUHEADER))
        /\ ~arg.meta => DeviceWrite = IF from > chip.used \/ to > ObjectSize THEN Done(chip, Error("bound"))
                                      ELSE Done([chip EXCEPT !.used = more, !.to = new], Answer(LEN_APDUHEADER))
    <3>1. DOMAIN chip = {"open", "hash", "auth", "challenge", "used", "from", "to", "sent"}
      BY <1>2 DEF ChipOK
    <3> QED  BY <1>1, <1>2, <1>7, <3>1, WriteIs
  <2> HIDE DEF from, to, more, new
  <2>4. ChipOK([chip EXCEPT !.used = more, !.to = new])
    BY <1>2, <2>2, ChipKeeps
  <2> QED  BY <1>2, <1>7, <2>1, <2>3, <2>4 DEF Answers, Done, Answer, Error, Crypted, LEN_APDUHEADER
<1>8. CASE arg.cmd = "CalcHash"
  <2>1. Device = DeviceHash
    BY <1>4, <1>8, DeviceIs
  <2>2. /\ \A x : ChipOK([chip EXCEPT !.hash = x])
    BY <1>2, ChipKeeps
  <2>3. \/ DeviceHash = NoAnswer
        \/ \E c, a : /\ DeviceHash = Done(c, a) /\ ChipOK(c) /\ a.len \in Int /\ "len" \in DOMAIN a
    <3> DEFINE finished(x) == [code |-> "ok", len |-> LEN_APDUHEADER + LEN_TAG_ENCODING + HASH_LEN, digest |-> x]
               exported(x) == [code |-> "ok", len |-> LEN_APDUHEADER + LEN_TAG_ENCODING + CALC_HASH_SHA256_CONTEXT_SIZE,
                              context |-> x]
    <3>1. PICK x : \/ DeviceHash = NoAnswer
                   \/ DeviceHash = Done([chip EXCEPT !.hash = NotHashing], finished(x))
                   \/ DeviceHash = Done([chip EXCEPT !.hash = x], exported(x))
                   \/ DeviceHash = Done([chip EXCEPT !.hash = x], Answer(LEN_APDUHEADER))
      BY ZenonT(30) DEF DeviceHash
    <3>2. /\ finished(x).len \in Int /\ "len" \in DOMAIN finished(x)
          /\ exported(x).len \in Int /\ "len" \in DOMAIN exported(x)
          /\ Answer(LEN_APDUHEADER).len \in Int /\ "len" \in DOMAIN Answer(LEN_APDUHEADER)
      BY DEF Answer, LEN_APDUHEADER, LEN_TAG_ENCODING, HASH_LEN, CALC_HASH_SHA256_CONTEXT_SIZE
    <3> HIDE DEF finished, exported
    <3> QED  BY <2>2, <3>1, <3>2
  <2> QED  BY <1>4, <1>8, <2>1, <2>3 DEF Answers, Done, Crypted
<1>9. CASE arg.cmd = "GetSignature"
  <2>1. Device = DeviceSignature
    BY <1>4, <1>9, DeviceIs
  <2>2. \/ DeviceSignature = NoAnswer
        \/ \E c, a : /\ DeviceSignature = Done(c, a) /\ ChipOK(c) /\ a.len \in Int /\ "len" \in DOMAIN a
    <3>1. CASE k.step = 0
      <4> DEFINE c == [chip EXCEPT !.auth = arg.key]
                 a == Answer(LEN_APDUHEADER)
      <4>1. DeviceSignature = Done(c, a)
        BY <1>1, <1>2, <1>9, <3>1, SigningIs
      <4>2. ChipOK(c)
        BY <1>2, ChipKeeps
      <4>3. a.len \in Int /\ "len" \in DOMAIN a
        BY DEF Answer, LEN_APDUHEADER
      <4> HIDE DEF c, a
      <4> QED  BY <4>1, <4>2, <4>3
    <3>2. CASE k.step = 1
      <4> DEFINE c == [chip EXCEPT !.challenge = arg.challenge]
                 a == Answer(LEN_APDUHEADER)
      <4>1. DeviceSignature = Done(c, a)
        BY <1>1, <1>2, <1>9, <3>2, SigningIs
      <4>2. ChipOK(c)
        BY <1>2, ChipKeeps
      <4>3. a.len \in Int /\ "len" \in DOMAIN a
        BY DEF Answer, LEN_APDUHEADER
      <4> HIDE DEF c, a
      <4> QED  BY <4>1, <4>2, <4>3
    <3>3. CASE k.step = 2
      <4> DEFINE c == chip
                 a == [code |-> "ok", len |-> LEN_APDUHEADER + 70, of |-> <<chip.auth, chip.challenge>>]
      <4>1. DeviceSignature = NoAnswer \/ DeviceSignature = Done(c, a)
        BY <1>1, <1>2, <1>9, <3>3, SigningIs
      <4>2. ChipOK(c)
        BY <1>2, ChipKeeps
      <4>3. a.len \in Int /\ "len" \in DOMAIN a
        BY DEF Answer, LEN_APDUHEADER
      <4> HIDE DEF c, a
      <4> QED  BY <4>1, <4>2, <4>3
    <3> QED  BY <1>2, <3>1, <3>2, <3>3
  <2> QED  BY <1>4, <1>9, <2>1, <2>2 DEF Answers, Done, Crypted
<1>10. CASE arg.cmd = "GetMessage"
  <2>1. Device = DeviceMessage
    BY <1>4, <1>10, DeviceIs
  <2> DEFINE room == DeviceMax - OVERHEAD_ENCDEC_RESPONSE - 12
             all == MessageLen[req.param]
             n == Smaller(all - chip.sent, room)
             last == chip.sent + n = all
             sent == IF last THEN 0 ELSE chip.sent + n
  <2>2. n \in Int /\ sent \in Nat
    <3>1. room \in Nat
      BY OptigaAssumption DEF OVERHEAD_ENCDEC_RESPONSE
    <3>2. all \in Nat
      BY <1>1, <1>10, MessageIs, OptigaAssumption DEF Sized
    <3> HIDE DEF room, all
    <3> QED  BY <1>3, <3>1, <3>2 DEF Smaller
  <2>3. ChipOK([chip EXCEPT !.sent = sent])
    BY <1>2, <2>2, ChipKeeps
  <2>4. [chip EXCEPT !.sent = IF last THEN 0 ELSE @ + n] = [chip EXCEPT !.sent = sent]
    BY <1>2 DEF ChipOK
  <2>5. /\ Device.chip = [chip EXCEPT !.sent = sent]
        /\ Device.ans.len = OVERHEAD_ENCDEC_RESPONSE + 12 + n /\ "len" \in DOMAIN Device.ans
    BY <2>1, <2>4 DEF DeviceMessage, Done
  <2> HIDE DEF n, sent
  <2> QED  BY <1>10, <2>2, <2>3, <2>5 DEF Answers, OVERHEAD_ENCDEC_RESPONSE, Crypted
<1>11. CASE arg.cmd \in Plain \cup {"OpenApplication", "GetMaxCommsBuffer"}
                 /\ arg.cmd \notin Crypted \cup Objects \cup {"CalcHash", "GetSignature", "GetMessage"}
  <2>1. \E c, n : /\ Device = Done(c, Answer(n)) /\ ChipOK(c) /\ n \in Int /\ arg.cmd \notin Crypted
                  /\ arg.cmd \in {"SetDataObject", "VerifySign"} => n = 4
                  /\ arg.cmd = "GetDataObject" => n > 4
    <3>1. CASE arg.cmd = "OpenApplication"
      <4> DEFINE c == [chip EXCEPT !.open = TRUE]
      <4>1. ChipOK(c)
        BY <1>2, ChipKeeps
      <4>2. Device = Done(c, Answer(LEN_APDUHEADER)) /\ LEN_APDUHEADER \in Int
        BY <1>4, <3>1, DeviceIs DEF LEN_APDUHEADER
      <4> HIDE DEF c
      <4> QED  BY <1>11, <3>1, <4>1, <4>2
    <3>2. CASE arg.cmd \in {"GetMaxCommsBuffer", "CalculateSign"}
      BY <1>2, <1>4, <1>11, <3>2, DeviceIs DEF LEN_APDUHEADER
    <3>3. CASE arg.cmd \in {"SetAuthScheme", "VerifySign", "PutMessage", "CloseSession"}
      BY <1>2, <1>4, <1>11, <3>3, DeviceIs DEF LEN_APDUHEADER
    <3>4. CASE arg.cmd = "GetRandom"
      <4>1. LEN_APDUHEADER + Value("length") \in Int
        BY <1>1, <3>4, WholeRandom, ToldIs DEF LEN_APDUHEADER, Sized
      <4> QED  BY <1>2, <1>4, <1>11, <3>4, <4>1, DeviceIs
    <3>5. CASE arg.cmd = "DeriveKey"
      <4>1. LEN_APDUHEADER + (IF arg.export THEN Value("length") ELSE 0) \in Int
        BY <1>1, <3>5, WholeDerive, ToldIs DEF LEN_APDUHEADER, Sized
      <4> QED  BY <1>2, <1>4, <1>11, <3>5, <4>1, DeviceIs
    <3>6. CASE arg.cmd = "CalculateSharedSecret"
      <4>1. LEN_APDUHEADER + (IF arg.export THEN KeyLen[arg.curve] ELSE 0) \in Int
        BY <1>1, <3>6 DEF LEN_APDUHEADER, Sized, KeyLen
      <4> QED  BY <1>2, <1>4, <1>11, <3>6, <4>1, DeviceIs
    <3>7. CASE arg.cmd = "GenerateKeyPair"
      <4>1. arg.curve \in DOMAIN KeyLen
        <5>1. req = GenerateKeyPair(arg, wMaxCommsBuffer)
          BY <3>7, RequestIs DEF Requested
        <5> QED  BY <5>1, RefuseIs DEF Requested, Refused, GenerateKeyPair
      <4>2. KeyLen[arg.curve] \in Nat
        BY <4>1 DEF KeyLen
      <4>3. LEN_APDUHEADER + LEN_TAG_ENCODING + Size(arg.curve)
              + (IF arg.export THEN LEN_TAG_ENCODING + KeyLen[arg.curve] + 2 ELSE 0) \in Int
        BY <4>2 DEF LEN_APDUHEADER, LEN_TAG_ENCODING, Size
      <4> QED  BY <1>2, <1>4, <1>11, <3>7, <4>3, DeviceIs
    <3> QED  BY <1>11, <3>1, <3>2, <3>3, <3>4, <3>5, <3>6, <3>7 DEF Plain, Crypted, Objects
  <2> QED  BY <2>1, AnswerIs
<1> QED
  BY <1>1, <1>5, <1>6, <1>7, <1>8, <1>9, <1>10, <1>11 DEF Objects
-----------------------------------------------------------------------------
(* One buffer *)

\* The device finds the pieces it is to find when all the others lie outside.
LEMMA PayloadIs ==
  ASSUME NEW ps, NEW r, NEW b, Whole(ps, r), ps \subseteq b,
         \A p \in b : \/ p \in ps \/ p.at >= r.base + LEN_APDUHEADER + r.payload
                      \/ p.at + p.len <= r.base + LEN_APDUHEADER,
         \A p \in b : p.at \in Int /\ p.len \in Nat
  PROVE  Payload(b, r.base, r.payload) = ps
<1> DEFINE first == r.base + LEN_APDUHEADER
           end == r.base + LEN_APDUHEADER + r.payload
<1>1. first \in Nat /\ end \in Nat /\ first + r.payload = end
  BY DEF Whole, LEN_APDUHEADER
<1>2. \A p \in ps : p.at \in Nat /\ p.len \in Nat /\ p.at >= first /\ p.len > 0 /\ p.at + p.len <= end
  BY DEF Whole, Row, Lined
<1>3. Payload(b, r.base, r.payload) = {p \in b : p.at < end /\ p.at + p.len > first}
  BY <1>1 DEF Payload
<1> HIDE DEF first, end
<1>4. \A p \in ps : p.at < end /\ p.at + p.len > first
  BY <1>1, <1>2
<1>5. \A p \in b : p.at < end /\ p.at + p.len > first => p \in ps
  <2>1. \A p \in b : p \in ps \/ p.at >= end \/ p.at + p.len <= first
    BY DEF first, end
  <2> QED  BY <1>1, <2>1
<1> QED
  BY <1>3, <1>4, <1>5

\* A buffer with nothing but the request.
LEMMA PayloadAll ==
  ASSUME NEW ps, NEW r, Whole(ps, r)
  PROVE  Payload(ps, r.base, r.payload) = ps
<1>1. \A p \in ps : p.at \in Int /\ p.len \in Nat
  BY DEF Whole, Row
<1> QED
  BY <1>1, PayloadIs

\* The loop of EncDecHelper goes from one cut to the next.
LEMMA CutAfter ==
  ASSUME NEW len \in Nat, NEW max \in Nat, max >= 300, NEW from \in Cuts(len, max), NEW done \in Cuts(len, max),
         from > done
  PROVE  from >= done + wMaxPlainText(max)
<1> DEFINE m == wMaxPlainText(max)
<1>1. m \in Nat
  BY DEF wMaxPlainText, OVERHEAD_UPDOWNLINK
<1>2. PICK i \in 0..len : from = i * m
  BY DEF Cuts
<1>3. PICK j \in 0..len : done = j * m
  BY DEF Cuts
<1> HIDE DEF m
<1>4. i \in Nat /\ j \in Nat
  OBVIOUS
<1>5. i > j
  <2>1. ASSUME i <= j PROVE i * m <= j * m
    BY <1>1, <1>4, <2>1
  <2> QED  BY <1>1, <1>2, <1>3, <1>4, <2>1
<1>6. i * m >= (j + 1) * m
  <2>1. i >= j + 1
    BY <1>4, <1>5
  <2> QED  BY <1>1, <1>4, <2>1
<1>7. (j + 1) * m = j * m + m
  BY <1>1, <1>4
<1>8. j * m \in Nat
  BY <1>1, <1>4
<1> QED
  BY <1>1, <1>2, <1>3, <1>6, <1>7, <1>8 DEF m

\* The next one is inside the data, if there is more.
LEMMA CutNext ==
  ASSUME NEW len \in Nat, NEW max \in Nat, max >= 300, NEW done \in Cuts(len, max),
         done + wMaxPlainText(max) < len
  PROVE  done + wMaxPlainText(max) \in Cuts(len, max)
<1> DEFINE m == wMaxPlainText(max)
<1>1. m \in Nat /\ m >= 1
  BY DEF wMaxPlainText, OVERHEAD_UPDOWNLINK
<1>2. PICK j \in 0..len : done = j * m
  BY DEF Cuts
<1>3. Cuts(len, max) = {from \in {i * m : i \in 0..len} : from < len}
  BY DEF Cuts
<1>4. j \in Nat /\ done + m < len
  OBVIOUS
<1> HIDE DEF m
<1>5. (j + 1) * m = j * m + m /\ j * m \in Nat
  BY <1>1, <1>4
<1>6. j + 1 <= (j + 1) * m
  BY <1>1, <1>4
<1>7. j + 1 \in 0..len
  BY <1>1, <1>2, <1>4, <1>5, <1>6
<1>8. (j + 1) * m \in {i * m : i \in 0..len} /\ (j + 1) * m < len
  BY <1>1, <1>2, <1>4, <1>5, <1>7
<1> QED
  BY <1>2, <1>3, <1>5, <1>8 DEF m

\* What is cut has its place, its length and its data.
LEMMA FragmentIs ==
  ASSUME NEW len \in Nat, NEW max \in Nat, max >= 300, NEW from \in Cuts(len, max)
  PROVE  LET p == Fragment(from, len, max) IN
         /\ from \in Nat /\ from < len
         /\ p.at = 19 + from /\ p.len = Smaller(wMaxPlainText(max), len - from)
         /\ p.len \in Nat \ {0} /\ p.len <= wMaxPlainText(max) /\ p.at + p.len <= 19 + from + wMaxPlainText(max)
         /\ p.what[1] = "data" /\ p.what[2] = from
<1> DEFINE m == wMaxPlainText(max)
           p == Fragment(from, len, max)
<1>1. m \in Nat /\ m >= 1
  BY DEF wMaxPlainText, OVERHEAD_UPDOWNLINK
<1>2. PICK j \in 0..len : from = j * m
  BY DEF Cuts
<1>3. from < len
  BY DEF Cuts
<1>4. p.at = 19 + from /\ p.len = Smaller(m, len - from) /\ p.what[1] = "data" /\ p.what[2] = from
  BY PieceIs DEF Fragment, OVERHEAD_UPDOWNLINK
<1> HIDE DEF m, p
<1>5. from \in Nat
  BY <1>1, <1>2
<1>6. Smaller(m, len - from) \in Nat \ {0} /\ Smaller(m, len - from) <= m
  BY <1>1, <1>3, <1>5 DEF Smaller
<1>7. p.at + p.len <= 19 + from + m
  BY <1>1, <1>4, <1>5, <1>6
<1> QED
  BY <1>1, <1>3, <1>4, <1>5, <1>6, <1>7 DEF m, p

\* A header is written over what was sent before, never over what is still to be sent, and
\* the device finds the fragment behind it.
LEMMA LoadedCrypto ==
  ASSUME Types, Runner, InBounds, Requested, arg.cmd \in Crypted,
         NEW b, AheadIn(b), buffer = Write(b, req.writes)
  PROVE  Sent = Parcel /\ AheadIn(buffer)
<1> DEFINE max == wMaxCommsBuffer
           m == wMaxPlainText(max)
           len == arg.len
           done == k.done
           cuts == Cuts(len, max)
<1>1. /\ max \in Nat /\ max >= 300 /\ done \in Nat /\ k.total \in Nat
  BY MaxIs DEF Types
<1>2. Sized(arg) /\ len \in Nat
  <2>1. Sized(arg)
    BY ArgIs DEF Crypted
  <2> QED  BY <2>1 DEF Sized, Crypted
<1>3. /\ Whole(Parcel, req) /\ req.base = 10 + done /\ req.payload = 5 + Smaller(len - done, m)
      /\ done \in cuts
      /\ \A p \in req.writes :
           \/ p.at = 10 + done /\ p.len = 4
           \/ p.at = 14 + done /\ p.len = 2
           \/ p.at = 16 + done /\ p.len = 3
  BY <1>1, <1>2, WholeCrypto DEF ADDITIONALBYTES_ENCDEC
<1>4. PICK h \in req.writes, q \in req.writes, r \in req.writes :
        /\ h.at = 10 + done /\ h.len = 4 /\ q.at = 14 + done /\ q.len = 2
        /\ r.at = 16 + done /\ r.len = 3 /\ h \notin Parcel
        /\ Parcel = {q, r, Fragment(done, len, max)}
        /\ req.writes = {h, q, r}
  BY <1>1, <1>2, WholeCrypto
<1>5. /\ m \in Nat /\ m >= 281
  BY <1>1 DEF wMaxPlainText, OVERHEAD_UPDOWNLINK
<1>6. Fragment(done, len, max).at = 19 + done
  BY <1>1, <1>2, <1>3, FragmentIs
<1>7. \A from \in cuts : from > done => from >= done + m
  BY <1>1, <1>2, <1>3, CutAfter
<1>8. /\ \A from \in cuts : from >= done => Fragment(from, len, max) \in b
      /\ \A p \in b : /\ p.at \in Int /\ p.len \in Nat \ {0}
                      /\ \/ p.at + p.len <= 19 + done
                         \/ \E from \in cuts : from >= done /\ p = Fragment(from, len, max)
  BY DEF AheadIn, OVERHEAD_UPDOWNLINK
<1>9. \A from \in cuts : /\ from \in Nat /\ Fragment(from, len, max).at = 19 + from
                         /\ Fragment(from, len, max).len \in Nat \ {0}
  BY <1>1, <1>2, FragmentIs
<1>10. \A from \in cuts : from >= done => Fragment(from, len, max) \in buffer
  <2> SUFFICES ASSUME NEW from \in cuts, from >= done
               PROVE  Fragment(from, len, max) \in buffer
    OBVIOUS
  <2> DEFINE p == Fragment(from, len, max)
  <2>1. p \in b /\ p.at = 19 + from /\ from \in Nat /\ p.len \in Nat
    BY <1>8, <1>9
  <2> HIDE DEF p
  <2>2. \A w \in req.writes : Apart(p, w)
    BY <1>1, <1>3, <2>1 DEF Apart
  <2>3. p \in buffer
    BY <2>1, <2>2 DEF Write
  <2> QED  BY <2>3 DEF p
<1>11. \A p \in buffer : /\ p.at \in Int /\ p.len \in Nat \ {0}
                         /\ \/ p \in {h, q, r} \/ (p \in b /\ \A w \in {h, q, r} : Apart(p, w))
  BY <1>1, <1>4, <1>8 DEF Write
<1>12. \A p \in buffer : \/ p.at + p.len <= 19 + done
                         \/ \E from \in cuts : from >= done /\ p = Fragment(from, len, max)
  <2>1. h.at + h.len <= 19 + done /\ q.at + q.len <= 19 + done /\ r.at + r.len <= 19 + done
    BY <1>1, <1>4
  <2> QED  BY <1>8, <1>11, <2>1
<1>13. AheadIn(buffer)
  BY <1>10, <1>11, <1>12 DEF AheadIn, OVERHEAD_UPDOWNLINK
<1> DEFINE end == req.base + LEN_APDUHEADER + req.payload
           first == req.base + LEN_APDUHEADER
<1>14. first = 14 + done /\ end = 19 + done + Smaller(len - done, m) /\ Smaller(len - done, m) <= m
       /\ Smaller(len - done, m) \in Int
  BY <1>1, <1>2, <1>3, <1>5 DEF LEN_APDUHEADER, Smaller
<1> HIDE DEF end, first, m, cuts
<1>15. \A p \in buffer : p \in Parcel \/ p.at >= end \/ p.at + p.len <= first
  <2> SUFFICES ASSUME NEW p \in buffer
               PROVE  p \in Parcel \/ p.at >= end \/ p.at + p.len <= first
    OBVIOUS
  <2>1. CASE p \in {h, q, r}
    <3>1. h.at + h.len <= first
      BY <1>1, <1>4, <1>14
    <3> QED  BY <1>4, <2>1, <3>1
  <2>2. CASE p \in b /\ \A w \in {h, q, r} : Apart(p, w)
    <3>1. p.at \in Int /\ p.len \in Nat \ {0}
      BY <1>8, <2>2
    <3>2. CASE p.at + p.len <= 19 + done
      <4>1. Apart(p, h) /\ Apart(p, q) /\ Apart(p, r)
        BY <2>2
      <4>2. p.at + p.len <= 14 + done
        BY <1>1, <1>4, <3>1, <3>2, <4>1 DEF Apart
      <4> QED  BY <1>14, <4>2
    <3>3. CASE \E from \in cuts : from >= done /\ p = Fragment(from, len, max)
      <4>1. PICK from \in cuts : from >= done /\ p = Fragment(from, len, max)
        BY <3>3
      <4>2. from \in Nat /\ p.at = 19 + from
        BY <1>9, <4>1
      <4>3. CASE from = done
        BY <1>4, <4>1, <4>3
      <4>4. CASE from > done
        <5>1. from >= done + m
          BY <1>7, <4>4
        <5> QED  BY <1>1, <1>5, <1>14, <4>2, <5>1
      <4> QED  BY <1>1, <4>1, <4>2, <4>3, <4>4
    <3> QED  BY <1>8, <2>2, <3>2, <3>3
  <2> QED  BY <1>11, <2>1, <2>2
<1>16. Parcel \subseteq buffer
  <2>1. q \in buffer /\ r \in buffer
    BY DEF Write
  <2>2. Fragment(done, len, max) \in buffer
    BY <1>1, <1>3, <1>10
  <2> QED  BY <1>4, <2>1, <2>2
<1>17. Payload(buffer, req.base, req.payload) = Parcel
  <2>1. \A p \in buffer : p.at \in Int /\ p.len \in Nat
    BY <1>11
  <2> HIDE DEF len, done, max
  <2> QED  BY <1>3, <1>15, <1>16, <2>1, PayloadIs DEF end, first
<1> QED
  BY <1>13, <1>17 DEF Sent

\* A request written to its buffer is what the device finds.
LEMMA LoadedIs ==
  ASSUME Types, Runner, InBounds, Requested, NEW b, Ready(b), buffer = Write(b, req.writes)
  PROVE  Loaded
<1>1. Whole(Parcel, req)
  BY WholeAll
<1>2. \A p \in req.writes : p.at \in Nat /\ p.len \in Nat \ {0}
  BY <1>1 DEF Whole
<1>3. CASE arg.cmd \in Crypted
  <2>1. AheadIn(b)
    BY <1>3 DEF Ready
  <2>2. Sent = Parcel /\ AheadIn(buffer)
    BY <1>3, <2>1, LoadedCrypto
  <2> QED  BY <1>3, <2>2 DEF Loaded, Crypted
<1>4. CASE arg.cmd \notin Crypted /\ ~(arg.cmd = "GetSignature" /\ k.step = 2)
  <2>1. buffer = Parcel
    <3>1. Parcel = req.writes \cup Before
      BY <1>4 DEF Parcel
    <3>2. CASE arg.cmd \notin Several
      <4>1. b = Before
        BY <3>2 DEF Ready
      <4>2. \A p, q \in Parcel : p = q \/ Apart(p, q)
        BY <1>1 DEF Whole, Row, Lined
      <4>3. \A p \in Before : p \in req.writes \/ \A q \in req.writes : Apart(p, q)
        BY <3>1, <4>2
      <4> QED  BY <3>1, <4>1, <4>3 DEF Write
    <3>3. CASE arg.cmd = "GetSignature"
      <4>1. k.step < 2
        BY <1>4, <3>3 DEF Types
      <4>2. b = {}
        BY <3>3, <4>1 DEF Ready
      <4>3. Before = {}
        BY <3>3, ParcelIs DEF Crypted, Objects
      <4> QED  BY <3>1, <4>2, <4>3 DEF Write
    <3>4. CASE arg.cmd = "GetMessage"
      <4>1. Before = {}
        BY <3>4, ParcelIs DEF Crypted, Objects
      <4>2. \A p \in b : p \in req.writes
        BY <3>4, MessageIs DEF Ready
      <4>3. \A p \in b : ~Apart(p, p)
        BY <1>2, <4>2 DEF Apart
      <4>4. {p \in b : \A q \in req.writes : Apart(p, q)} = {}
        BY <4>2, <4>3
      <4> QED  BY <3>1, <4>1, <4>4 DEF Write
    <3> QED  BY <1>4, <3>2, <3>3, <3>4 DEF Several
  <2>2. Sent = Parcel
    BY <1>1, <2>1, PayloadAll DEF Sent
  <2>3. arg.cmd = "GetSignature" => Behind(buffer)
    <3> SUFFICES ASSUME arg.cmd = "GetSignature" PROVE Behind(buffer)
      OBVIOUS
    <3>1. /\ req.base + LEN_APDUHEADER >= LEN_APDUHEADER /\ req.base + LEN_APDUHEADER \in Nat
          /\ \A p \in Parcel : p.at \in Nat /\ p.len \in Nat /\ p.at >= req.base + LEN_APDUHEADER
      BY <1>1 DEF Whole, Row, Lined, LEN_APDUHEADER
    <3>2. \A p \in Parcel : p.at \in Nat /\ p.len \in Nat /\ p.at >= LEN_APDUHEADER
      BY <3>1 DEF LEN_APDUHEADER
    <3> QED  BY <2>1, <3>2 DEF Behind
  <2> QED  BY <1>4, <2>1, <2>2, <2>3 DEF Loaded
<1>5. CASE arg.cmd = "GetSignature" /\ k.step = 2
  <2>1. req.writes = {} /\ Parcel = {} /\ req.base = 0 /\ req.payload = 0
    <3>1. Made(req, 270, {}, 0, 0, 270) /\ req.writes = {}
      BY <1>5, SignatureIs, ApduIs, WholeSignature2
    <3>2. Parcel = {}
      BY <1>5, <3>1, ParcelIs DEF Crypted, Objects
    <3> QED  BY <3>1, <3>2 DEF Made
  <2>2. Behind(b) /\ buffer = b
    <3>1. ~(k.step < 2)
      BY <1>5
    <3>2. Behind(b)
      BY <1>5, <3>1 DEF Ready
    <3>3. buffer = Write(b, {})
      BY <2>1
    <3>4. Write(b, {}) = b
      BY DEF Write
    <3> QED  BY <3>2, <3>3, <3>4
  <2>3. Payload(buffer, 0, 0) = {}
    BY <2>2 DEF Payload, Behind, LEN_APDUHEADER
  <2>4. Sent = Parcel
    BY <2>1, <2>3 DEF Sent
  <2> QED  BY <1>5, <2>2, <2>4 DEF Loaded, Crypted
<1> QED
  BY <1>3, <1>4, <1>5

\* What the response leaves of it.
LEMMA OverwrittenIs ==
  ASSUME Types, Runner, InBounds, Requested, Loaded, NEW n \in Int, NEW b,
         arg.cmd = "SetDataObject" => n = 4, arg.cmd = "GetDataObject" => n > 4,
         b = IF arg.cmd \in Crypted THEN buffer ELSE {p \in buffer : Apart(p, [at |-> req.at, len |-> n])}
  PROVE  /\ arg.cmd \in Crypted => AheadIn(b)
         /\ arg.cmd = "GetSignature" => Behind(b)
         /\ arg.cmd \in Objects => b = {Oid(4, arg.oid)}
         /\ arg.cmd = "GetMessage" => \A p \in b : p \in req.writes
<1>1. b \subseteq buffer
  OBVIOUS
<1>2. arg.cmd \in Crypted => AheadIn(b)
  BY DEF Loaded
<1>3. arg.cmd = "GetSignature" => Behind(b)
  BY <1>1 DEF Loaded, Behind
<1>4. arg.cmd = "GetMessage" => \A p \in b : p \in req.writes
  BY <1>1, ParcelIs DEF Loaded, Crypted, Objects
<1>5. arg.cmd \in Objects => b = {Oid(4, arg.oid)}
  <2> SUFFICES ASSUME arg.cmd \in Objects
               PROVE  b = {Oid(4, arg.oid)}
    OBVIOUS
  <2> DEFINE o == Oid(4, arg.oid)
             z == [at |-> req.at, len |-> n]
  <2>1. /\ wMaxCommsBuffer \in Nat /\ wMaxCommsBuffer >= 300 /\ k.done \in Nat /\ Sized(arg)
        /\ buffer = Parcel /\ arg.cmd \notin Crypted
    BY MaxIs, ArgIs DEF Types, Objects, Loaded, Crypted
  <2>2. o.at = 4 /\ o.len = 2 /\ z.at = req.at /\ z.len = n
    BY PieceIs
  <2>3. CASE arg.cmd = "GetDataObject"
    <3>1. /\ req.at = 6 /\ o \in Parcel
          /\ \A p \in Parcel : p = o \/ (p.at \in {6, 8} /\ p.len = 2)
      BY <2>1, <2>3, WholeRead
    <3>2. n > 4
      BY <2>3
    <3> HIDE DEF o, z
    <3>3. Apart(o, z) /\ \A p \in Parcel : Apart(p, z) => p = o
      BY <2>2, <3>1, <3>2 DEF Apart
    <3>4. b = {p \in Parcel : Apart(p, z)}
      BY <2>1 DEF z
    <3>5. b = {o}
      BY <3>1, <3>3, <3>4
    <3> QED  BY <3>5 DEF o
  <2>4. CASE arg.cmd = "SetDataObject"
    <3>1. /\ req.at = 7 /\ o \in Parcel
          /\ \A p \in Parcel : p = o \/ (p.at \in {6, 8} /\ p.len > 0 /\ (p.at = 6 => p.len = 2))
          /\ \A p \in Parcel : p.len \in Nat
      <4>1. Whole(Parcel, req)
        BY WholeAll
      <4>2. \A p \in Parcel : p.len \in Nat
        BY <4>1 DEF Whole, Row
      <4> QED  BY <2>1, <2>4, <4>2, WholeWrite
    <3>2. n = 4
      BY <2>4
    <3> HIDE DEF o, z
    <3>3. Apart(o, z) /\ \A p \in Parcel : Apart(p, z) => p = o
      BY <2>2, <3>1, <3>2 DEF Apart
    <3>4. b = {p \in Parcel : Apart(p, z)}
      BY <2>1 DEF z
    <3>5. b = {o}
      BY <3>1, <3>3, <3>4
    <3> QED  BY <3>5 DEF o
  <2> QED  BY <2>3, <2>4 DEF Objects
<1> QED
  BY <1>2, <1>3, <1>4, <1>5
-----------------------------------------------------------------------------
(* Steps *)

\* A command starts at the beginning of what it was asked for, with the caller's data.
Starting ==
  Runner /\ wMaxCommsBuffer \in {Unknown, DeviceMax} /\ k = Start /\ buffer = InitialBuffer(arg, wMaxCommsBuffer)
Begun == InBounds /\ Ready(Prior)

\* Its first request is whole, whatever the call.
LEMMA StartIs == Starting => Begun
<1> SUFFICES ASSUME Runner, wMaxCommsBuffer \in {Unknown, DeviceMax}, k = Start,
                    buffer = InitialBuffer(arg, wMaxCommsBuffer)
             PROVE  InBounds /\ Ready(Prior)
  BY DEF Starting, Begun
<1>1. /\ k.done = 0 /\ k.step = 0
      /\ wMaxCommsBuffer \in Nat /\ wMaxCommsBuffer >= 300
  BY MaxIs DEF Start
<1>2. arg.cmd \in Crypted => arg.len \in Nat
  BY ArgIs DEF Sized, Crypted
<1>3. arg.cmd \in Crypted /\ arg.len # 0 => 0 \in Cuts(arg.len, wMaxCommsBuffer)
  <2> SUFFICES ASSUME arg.cmd \in Crypted, arg.len # 0
               PROVE  0 \in Cuts(arg.len, wMaxCommsBuffer)
    OBVIOUS
  <2> DEFINE m == wMaxPlainText(wMaxCommsBuffer)
  <2>1. m \in Nat
    BY <1>1 DEF wMaxPlainText, OVERHEAD_UPDOWNLINK
  <2>2. Cuts(arg.len, wMaxCommsBuffer) = {from \in {i * m : i \in 0..arg.len} : from < arg.len}
    BY DEF Cuts
  <2> HIDE DEF m
  <2>3. 0 \in 0..arg.len /\ 0 * m = 0 /\ 0 < arg.len
    BY <1>2, <2>1
  <2> QED  BY <2>2, <2>3
<1>4. InBounds
  BY <1>1, <1>3 DEF InBounds
<1>5. arg.cmd \in Crypted => AheadIn(Prior)
  <2> SUFFICES ASSUME arg.cmd \in Crypted
               PROVE  AheadIn(buffer)
    BY DEF Prior, Crypted
  <2>1. buffer = {Fragment(from, arg.len, wMaxCommsBuffer) : from \in Cuts(arg.len, wMaxCommsBuffer)}
    BY DEF InitialBuffer, Crypted
  <2>2. \A from \in Cuts(arg.len, wMaxCommsBuffer) :
           LET p == Fragment(from, arg.len, wMaxCommsBuffer)
           IN p.at \in Int /\ p.len \in Nat \ {0} /\ from >= k.done
    BY <1>1, <1>2, FragmentIs
  <2> QED  BY <2>1, <2>2 DEF AheadIn
<1>6. arg.cmd = "GetSignature" => IF k.step < 2 THEN Prior = {} ELSE Behind(Prior)
  BY <1>1 DEF Prior
<1>7. arg.cmd = "GetMessage" => \A p \in Prior : p \in GetMessage(arg, wMaxCommsBuffer).writes
  BY DEF Prior, InitialBuffer
<1>8. arg.cmd \notin Several => Prior = Before
  BY <1>1 DEF Prior, Before, InitialBuffer, Several, Crypted, Objects
<1> QED
  BY <1>4, <1>5, <1>6, <1>7, <1>8 DEF Ready

\* So it does after a step.
LEMMA StartNext == Starting' => Begun'
BY StartIs, PTL

\* A new command.
LEMMA RunIs ==
  ASSUME NEW a, Run(a), Runner', ChipOK(chip'), wMaxCommsBuffer \in {Unknown, DeviceMax}, UNCHANGED wMaxCommsBuffer,
         left' \in Nat, call'.api = "hash_update" => a.len <= left'
  PROVE  MemoryInv'
<1>1. /\ pc' = "issue" /\ arg' = a /\ k' = Start /\ buffer' = InitialBuffer(arg', wMaxCommsBuffer')
      /\ wMaxCommsBuffer' \in {Unknown, DeviceMax}
  BY DEF Run
<1>2. Starting'
  BY <1>1 DEF Starting
<1>3. Begun'
  BY <1>2, StartNext
<1>4. InBounds' /\ (Ready(Prior))'
  BY <1>3 DEF Begun
<1>5. Types'
  BY <1>1 DEF Types, Start
<1> QED
  BY <1>1, <1>4, <1>5 DEF MemoryInv

\* Nothing is said of the buffer of a command that is over.
LEMMA OverIs ==
  ASSUME pc' \in {"idle", "boot", "done"}, wMaxCommsBuffer' \in {Unknown, DeviceMax}, left' \in Nat, ChipOK(chip'),
         k' = k \/ k' = Start, k.step \in 0..2, k.done \in Nat, k.total \in Nat
  PROVE  MemoryInv'
<1>1. k'.step \in 0..2 /\ k'.done \in Nat /\ k'.total \in Nat
  BY DEF Start
<1>2. Types'
  BY <1>1 DEF Types, Working
<1> QED
  BY <1>2 DEF MemoryInv, Working

\* The chunks of optiga_crypt_hash_update.
LEMMA ChunkIs ==
  ASSUME wMaxCommsBuffer \in {Unknown, DeviceMax}, NEW size \in Nat
  PROVE  /\ NextChunk(size).len \in Nat /\ NextChunk(size).len <= size
         /\ NextChunk(size).action \in {"none", "export"}
         /\ FirstChunk(size).len \in Nat /\ FirstChunk(size).len <= size
         /\ FirstChunk(size).action \in {"import", "both"}
<1>1. wMaxCommsBuffer \in Nat /\ wMaxCommsBuffer >= 300
  BY MaxIs
<1> QED
  BY <1>1 DEF NextChunk, FirstChunk, Smaller, CALC_HASH_FIXED_OVERHEAD_SIZE, CALC_HASH_IMPORT_OR_EXPORT_OVERHEAD_SIZE,
              CALC_HASH_IMPORT_AND_EXPORT_OVERHEAD_SIZE, CALC_HASH_SHA256_CONTEXT_SIZE

\* The arguments of a part of a hash.
LEMMA HashArgIs ==
  ASSUME NEW sequence \in {"start", "continue", "final"}, NEW action \in {"import", "export", "both", "none"},
         NEW host, NEW len \in Nat, NEW from
  PROVE  LET a == HashArg(sequence, action, host, len, from)
         IN /\ HashSized(a) /\ a.cmd = "CalcHash" /\ a.len = len /\ a.sequence = sequence /\ a.action = action
            /\ a.host = host /\ a.from = from /\ a.state = context
BY DEF HashArg, HashSized

\* A command that is over is followed by the next one of its call, or ends it.
LEMMA EndIs ==
  ASSUME Types, Runner, Working, NEW status, End(status), UNCHANGED <<call, wMaxCommsBuffer>>, ChipOK(chip')
  PROVE  MemoryInv'
<1>1. /\ wMaxCommsBuffer \in {Unknown, DeviceMax} /\ left \in Nat
      /\ k.step \in 0..2 /\ k.done \in Nat /\ k.total \in Nat
      /\ call.api = "hash_update" => arg.len <= left
  BY DEF Types
<1>2. CASE status = "ok" /\ arg.cmd = "OpenApplication" /\ wMaxCommsBuffer = Unknown
  <2>1. Run(Asking) /\ left' = left
    BY <1>2 DEF End, Asking
  <2>2. call'.api = "open"
    BY <1>2, ArgIs
  <2>3. arg' = Asking
    BY <2>1 DEF Run
  <2>4. Runner'
    BY <2>2, <2>3 DEF Runner
  <2> QED  BY <1>1, <2>1, <2>2, <2>4, RunIs
<1>3. CASE ~(status = "ok" /\ arg.cmd = "OpenApplication" /\ wMaxCommsBuffer = Unknown)
           /\ status = "ok" /\ call.api = "hash_update" /\ chaining
  <2> DEFINE size == left - arg.len
             next == NextChunk(size)
             a == HashArg("continue", next.action, TRUE, next.len, arg.from + arg.len)
  <2>1. Run(a) /\ left' = size
    BY <1>3 DEF End
  <2>2. size \in Nat
    BY <1>1, <1>3, ArgIs DEF HashSized, Hashing
  <2>3. next.len \in Nat /\ next.len <= size /\ next.action \in {"none", "export"}
    BY <1>1, <2>2, ChunkIs
  <2> HIDE DEF next
  <2>4. HashSized(a) /\ a.len = next.len
    <3>1. next.action \in {"import", "export", "both", "none"} /\ "continue" \in {"start", "continue", "final"}
      BY <2>3
    <3> QED  BY <2>3, <3>1 DEF HashArg, HashSized
  <2>5. arg' = a
    BY <2>1 DEF Run
  <2> HIDE DEF a, size
  <2>6. Runner'
    BY <1>3, <2>4, <2>5 DEF Runner, Hashing
  <2>7. a.len <= left'
    BY <2>1, <2>3, <2>4
  <2> QED  BY <1>1, <2>1, <2>2, <2>6, <2>7, RunIs
<1>4. CASE ~(status = "ok" /\ arg.cmd = "OpenApplication" /\ wMaxCommsBuffer = Unknown)
           /\ ~(status = "ok" /\ call.api = "hash_update" /\ chaining)
  <2>1. pc' = "done" /\ k' = k /\ left' = 0
    BY <1>4 DEF End, Return
  <2> QED  BY <1>1, <2>1, OverIs
<1> QED
  BY <1>2, <1>3, <1>4

\* So is one that failed.
LEMMA FailIs ==
  ASSUME Types, Runner, Working, NEW status, NEW code, Fail(status, code), UNCHANGED <<call, wMaxCommsBuffer>>,
         ChipOK(chip')
  PROVE  MemoryInv'
<1>1. \E s : End(s)
  BY DEF Fail
<1> QED
  BY <1>1, EndIs

\* A command asks again.
LEMMA AgainIs ==
  ASSUME Types, Runner, Working, NEW done \in Nat, NEW total \in Nat, Again(done, total),
         UNCHANGED <<call, wMaxCommsBuffer, chip>>, Begun'
  PROVE  MemoryInv'
<1>1. /\ pc' = "issue" /\ arg' = arg /\ left' = left
      /\ k' = [step |-> Smaller(k.step + 1, 2), done |-> done, total |-> total]
  BY DEF Again
<1>2. k'.step \in 0..2 /\ k'.done \in Nat /\ k'.total \in Nat
  BY <1>1 DEF Types, Smaller
<1>3. Runner'
  BY <1>1 DEF Runner, Callable, Rejected
<1>4. Types'
  BY <1>1, <1>2, <1>3 DEF Types
<1> QED
  BY <1>1, <1>4 DEF MemoryInv, Begun

\* After a step, too, a request is loaded when it was written to a buffer that was ready.
LoadedBy ==
  \A b : Types /\ Runner /\ InBounds /\ Requested /\ Ready(b) /\ buffer = Write(b, req.writes) => Loaded

\* It is loaded now,
LEMMA LoadedByIs == LoadedBy
BY LoadedIs DEF LoadedBy

\* and after a step.
LEMMA LoadedByNext == LoadedBy'
BY LoadedByIs, PTL

\* A request is made, or refused.
LEMMA IssueKeeps ==
  ASSUME MemoryInv, Issue
  PROVE  MemoryInv'
<1>1. /\ pc = "issue" /\ Working /\ Types /\ Runner /\ InBounds /\ Ready(Prior)
      /\ UNCHANGED <<call, wMaxCommsBuffer>>
  BY DEF MemoryInv, Issue, Working, Types, Held
<1> DEFINE r == Request(arg, k, wMaxCommsBuffer)
<1>2. CASE r.status # "ok" \/ ~linked
  <2>1. (\E s : Fail(s, "none")) /\ chip' = chip
    BY <1>1, <1>2 DEF Issue
  <2>2. ChipOK(chip')
    BY <1>1, <2>1 DEF Types
  <2> QED  BY <1>1, <2>1, <2>2, FailIs
<1>3. CASE r.status = "ok" /\ linked
  <2>1. /\ pc' = "sent" /\ req' = r /\ arg' = arg /\ k' = k /\ left' = left /\ chip' = chip
        /\ buffer' = Write(Prior, r.writes)
    BY <1>3 DEF Issue, Prior
  <2>2. Requested'
    BY <1>1, <1>3, <2>1 DEF Requested
  <2>3. Runner' /\ InBounds'
    BY <1>1, <2>1 DEF Runner, Callable, Rejected, InBounds
  <2>4. Types'
    BY <1>1, <2>1, <2>3 DEF Types, Working
  <2>5. PICK b : b = Prior
    OBVIOUS
  <2>6. Ready(b)' /\ buffer' = Write(b, req'.writes)
    <3>1. Ready(b)
      BY <1>1, <2>5
    <3>2. Ready(b)'
      BY <1>1, <2>1, <3>1 DEF Ready, AheadIn, Before
    <3> QED  BY <2>1, <2>5, <3>2
  <2>7. Loaded'
    BY <2>2, <2>3, <2>4, <2>6, LoadedByNext DEF LoadedBy
  <2> QED  BY <2>1, <2>2, <2>3, <2>4, <2>7 DEF MemoryInv
<1> QED
  BY <1>2, <1>3

\* The device answers, and its answer is written over the request.
LEMMA DeviceAnswersKeeps ==
  ASSUME MemoryInv, DeviceAnswers
  PROVE  MemoryInv'
<1>1. /\ pc = "sent" /\ Types /\ Runner /\ InBounds /\ Requested /\ Loaded /\ Sent = Parcel
  BY DEF MemoryInv, DeviceAnswers, Types, Working, Loaded
<1>2. Answers(Device)
  BY <1>1, DeviceAll
<1>3. /\ call' = call /\ arg' = arg /\ k' = k /\ req' = req /\ wMaxCommsBuffer' = wMaxCommsBuffer /\ left' = left
      /\ chip' = Device.chip /\ ans' = Device.ans /\ Device.ans.len <= req.room
      /\ pc' = (IF Device.ans.code = "ok" THEN "answered" ELSE "failed")
      /\ buffer' = (IF arg.cmd \in Crypted THEN buffer
                    ELSE {p \in buffer : Apart(p, [at |-> req.at, len |-> Device.ans.len])})
  BY DEF DeviceAnswers, Api, Crypted
<1>4. Runner' /\ InBounds'
  BY <1>1, <1>3 DEF Runner, Callable, Rejected, InBounds
<1>5. Types'
  BY <1>1, <1>2, <1>3, <1>4 DEF Types, Working, Answers
<1>6. CASE Device.ans.code # "ok"
  BY <1>3, <1>4, <1>5, <1>6 DEF MemoryInv
<1>7. CASE Device.ans.code = "ok"
  <2>1. Requested'
    BY <1>1, <1>3 DEF Requested
  <2>2. Answered'
    BY <1>2, <1>3, <1>7 DEF Answered, Answers
  <2>3. AnswersFit'
    <3>1. req'.at + ans'.len <= (IF arg'.cmd \in {"Encrypt", "Decrypt"} THEN arg'.room ELSE req'.alloc)
      <4>1. /\ Whole(Parcel, req) /\ Receives
        BY <1>1, WholeAll
      <4>2. /\ req.at \in Nat /\ req.room \in Int /\ req.alloc \in Nat /\ Device.ans.len \in Int
        BY <1>2, <4>1 DEF Whole, Answers
      <4>3. CASE arg.cmd \in Crypted
        <5>1. Sized(arg)
          BY <1>1, <4>3, ArgIs DEF Crypted
        <5>2. arg.room \in Nat
          BY <4>3, <5>1 DEF Sized, Crypted
        <5> QED  BY <1>3, <4>1, <4>2, <4>3, <5>2 DEF Receives, Crypted
      <4>4. CASE arg.cmd \in {"SetDataObject", "VerifySign"}
        <5>1. Device.ans.len = 4
          BY <1>2, <4>4 DEF Answers
        <5> QED  BY <1>3, <4>1, <4>2, <4>4, <5>1 DEF Receives, Crypted
      <4>5. CASE arg.cmd \notin Crypted \cup {"SetDataObject", "VerifySign"}
        BY <1>3, <4>1, <4>2, <4>5 DEF Receives, Roomy, Crypted
      <4> QED  BY <4>3, <4>4, <4>5
    <3> QED  BY <3>1 DEF AnswersFit
  <2>4. Overwritten'
    <3>1. PICK n \in Int : n = Device.ans.len
      BY <1>2 DEF Answers
    <3>2. PICK b : b = IF arg.cmd \in Crypted THEN buffer ELSE {p \in buffer : Apart(p, [at |-> req.at, len |-> n])}
      OBVIOUS
    <3>3. buffer' = b
      BY <1>3, <3>1, <3>2
    <3>4. /\ arg.cmd = "SetDataObject" => n = 4
          /\ arg.cmd = "GetDataObject" => n > 4
      BY <1>2, <1>7, <3>1 DEF Answers
    <3>5. /\ arg.cmd \in Crypted => AheadIn(b)
          /\ arg.cmd = "GetSignature" => Behind(b)
          /\ arg.cmd \in Objects => b = {Oid(4, arg.oid)}
          /\ arg.cmd = "GetMessage" => \A p \in b : p \in req.writes
      BY <1>1, <3>2, <3>4, OverwrittenIs
    <3> QED  BY <1>3, <3>3, <3>5 DEF Overwritten, AheadIn, Behind
  <2> QED  BY <1>3, <1>4, <1>5, <1>7, <2>1, <2>2, <2>3, <2>4 DEF MemoryInv
<1> QED
  BY <1>6, <1>7

\* It answers with a tag that was not asked for.
LEMMA DeviceMistakesKeeps ==
  ASSUME MemoryInv, DeviceMistakes
  PROVE  MemoryInv'
<1>1. /\ pc = "sent" /\ Types /\ Runner /\ InBounds /\ Requested /\ Loaded /\ Sent = Parcel
  BY DEF MemoryInv, DeviceMistakes, Types, Working, Loaded
<1>2. Answers(Device)
  BY <1>1, DeviceAll
<1>3. /\ call' = call /\ arg' = arg /\ k' = k /\ req' = req /\ wMaxCommsBuffer' = wMaxCommsBuffer /\ left' = left
      /\ chip' = Device.chip /\ Device.ans.len <= req.room /\ Device.ans.code = "ok"
      /\ ans' = [Device.ans EXCEPT !.tag = "odd"] /\ pc' = "answered" /\ buffer' = buffer
      /\ arg.cmd \in Crypted \cup {"GetMessage"}
  BY DEF DeviceMistakes, Api, Crypted
<1>4. Runner' /\ InBounds'
  BY <1>1, <1>3 DEF Runner, Callable, Rejected, InBounds
<1>5. Types'
  BY <1>1, <1>2, <1>3, <1>4 DEF Types, Working, Answers
<1>6. Requested'
  BY <1>1, <1>3 DEF Requested
<1>7. ans'.len = Device.ans.len /\ (arg.cmd \in Crypted => ans'.n = Device.ans.n)
  BY <1>2, <1>3 DEF Answers
<1>8. Answered'
  BY <1>2, <1>3, <1>7 DEF Answered, Answers, Crypted
<1>9. AnswersFit'
  <2>1. req.at + ans'.len <= (IF arg.cmd \in {"Encrypt", "Decrypt"} THEN arg.room ELSE req.alloc)
    <3>1. /\ Whole(Parcel, req) /\ Receives
      BY <1>1, WholeAll
    <3>2. /\ req.at \in Nat /\ req.room \in Int /\ req.alloc \in Nat /\ ans'.len \in Int
      BY <1>2, <1>7, <3>1 DEF Whole, Answers
    <3>3. CASE arg.cmd \in Crypted
      <4>1. Sized(arg)
        BY <1>1, <3>3, ArgIs DEF Crypted
      <4>2. arg.room \in Nat
        BY <3>3, <4>1 DEF Sized, Crypted
      <4> QED  BY <1>3, <1>7, <3>1, <3>2, <3>3, <4>2 DEF Receives, Crypted
    <3>4. CASE arg.cmd = "GetMessage"
      BY <1>3, <1>7, <3>1, <3>2, <3>4 DEF Receives, Roomy, Crypted
    <3> QED  BY <1>3, <3>3, <3>4
  <2> QED  BY <1>3, <2>1 DEF AnswersFit
<1>10. Overwritten'
  <2>1. arg.cmd \in Crypted => AheadIn(buffer)
    BY <1>1 DEF Loaded
  <2>2. arg.cmd = "GetMessage" => \A p \in buffer : p \in req.writes
    BY <1>1, ParcelIs DEF Loaded, Crypted, Objects
  <2> QED  BY <1>3, <2>1, <2>2 DEF Overwritten, AheadIn, Crypted, Objects
<1> QED
  BY <1>3, <1>4, <1>5, <1>6, <1>8, <1>9, <1>10 DEF MemoryInv

\* The loops of CmdLib_GetDataObject and CmdLib_SetDataObject.
LEMMA TakeObjectKeeps ==
  ASSUME MemoryInv, pc = "answered", TakeData \/ TakeWritten, UNCHANGED chip, Held
  PROVE  MemoryInv'
<1>1. /\ Types /\ Working /\ Runner /\ InBounds /\ Overwritten /\ Answered /\ arg.cmd \in Objects
      /\ UNCHANGED <<call, wMaxCommsBuffer, chip>> /\ ChipOK(chip')
  BY DEF MemoryInv, Types, Working, Held, TakeData, TakeWritten, Objects
<1>2. /\ wMaxCommsBuffer \in Nat /\ wMaxCommsBuffer >= 300 /\ k.done \in Nat /\ k.step \in 0..2
      /\ Sized(arg) /\ arg.len \in Nat /\ arg.offset \in Nat
      /\ (k.done = 0 \/ k.done < arg.len)
      /\ buffer = {Oid(4, arg.oid)} /\ ans.len \in Int
  <2>1. Sized(arg)
    BY <1>1, ArgIs DEF Objects
  <2> QED  BY <1>1, <2>1, MaxIs DEF Types, Sized, Objects, InBounds, Overwritten, Answered
<1>3. ASSUME NEW done \in Nat, Again(done, 0), done > 0, done < arg.len
      PROVE  MemoryInv'
  <2>1. /\ arg' = arg /\ buffer' = buffer /\ k' = [step |-> Smaller(k.step + 1, 2), done |-> done, total |-> 0]
    BY <1>3 DEF Again
  <2>2. k'.done = done
    BY <2>1
  <2>3. InBounds'
    BY <1>1, <1>3, <2>1, <2>2 DEF InBounds, Objects, Crypted
  <2>4. Prior' = {Oid(4, arg.oid)} /\ Before' = {Oid(4, arg.oid)}
    BY <1>1, <1>2, <1>3, <2>1, <2>2 DEF Prior, Before, Objects
  <2>5. (Ready(Prior))'
    BY <1>1, <2>1, <2>4 DEF Ready, Objects, Crypted, Several
  <2>6. Begun'
    BY <2>3, <2>5 DEF Begun
  <2> QED  BY <1>1, <1>3, <2>6, AgainIs
<1>4. CASE TakeData
  <2> DEFINE len == ans.len - LEN_APDUHEADER
             total == k.done + len
             wReadLen == IF arg.meta THEN 0 ELSE Smaller(wMaxCommsBuffer - LEN_APDUHEADER, arg.len - k.done)
  <2>1. \/ \E s, c : Fail(s, c)
        \/ \E s : End(s)
        \/ Again(total, 0) /\ total # arg.len /\ wReadLen = len
    BY <1>4 DEF TakeData
  <2>2. CASE Again(total, 0) /\ total # arg.len /\ wReadLen = len
    <3>1. len > 0 /\ len \in Int
      <4>1. ans.len > 4
        BY <1>1, <1>4 DEF Answered, TakeData
      <4> QED  BY <1>2, <4>1 DEF LEN_APDUHEADER
    <3>2. ~arg.meta /\ len = Smaller(wMaxCommsBuffer - LEN_APDUHEADER, arg.len - k.done)
      BY <2>2, <3>1
    <3>3. len <= arg.len - k.done
      BY <1>2, <3>2 DEF Smaller, LEN_APDUHEADER
    <3> HIDE DEF len
    <3>4. total \in Nat /\ total > 0 /\ total < arg.len
      BY <1>2, <2>2, <3>1, <3>3
    <3> QED  BY <1>3, <2>2, <3>4
  <2> QED  BY <1>1, <2>1, <2>2, EndIs, FailIs
<1>5. CASE TakeWritten
  <2> DEFINE n == Smaller(wMaxCommsBuffer - 8, arg.len - k.done)
             done == k.done + n
  <2>1. (\E s : End(s)) \/ (Again(done, 0) /\ done # arg.len)
    BY <1>5 DEF TakeWritten
  <2>2. CASE Again(done, 0) /\ done # arg.len
    <3>1. n \in Int /\ n <= arg.len - k.done /\ (arg.len - k.done > 0 => n > 0)
      BY <1>2 DEF Smaller
    <3> HIDE DEF n
    <3>2. done \in Nat /\ done > 0 /\ done < arg.len
      <4>1. arg.len = 0 /\ k.done = 0 => n = 0
        BY <1>2 DEF n, Smaller
      <4>2. arg.len - k.done > 0
        BY <1>2, <2>2, <3>1, <4>1
      <4> QED  BY <1>2, <2>2, <3>1, <4>2
    <3> QED  BY <1>3, <2>2, <3>2
  <2> QED  BY <1>1, <2>1, <2>2, EndIs
<1> QED
  BY <1>4, <1>5

\* The second and the third request of CmdLib_GetSignature, and of a message the device forms.
LEMMA TakeStepKeeps ==
  ASSUME MemoryInv, pc = "answered", TakeSignature \/ TakeMessage, UNCHANGED chip, Held
  PROVE  MemoryInv'
<1>1. /\ Types /\ Working /\ Runner /\ InBounds /\ Overwritten /\ Requested
      /\ arg.cmd \in {"GetSignature", "GetMessage"}
      /\ UNCHANGED <<call, wMaxCommsBuffer, chip>> /\ ChipOK(chip')
  BY DEF MemoryInv, Types, Working, Held, TakeSignature, TakeMessage
<1>2. (\E s : End(s)) \/ Again(0, 0)
  BY DEF TakeSignature, TakeMessage
<1>3. CASE Again(0, 0)
  <2>1. /\ arg' = arg /\ buffer' = buffer
    BY <1>3 DEF Again
  <2>2. InBounds'
    BY <1>1, <2>1 DEF InBounds, Objects, Crypted
  <2>3. (Ready(Prior))'
    <3>1. CASE arg.cmd = "GetSignature"
      <4>1. Behind(buffer)
        BY <3>1, <1>1 DEF Overwritten
      <4> QED  BY <2>1, <3>1, <4>1 DEF Ready, Prior, Crypted, Several, Behind
    <3>2. CASE arg.cmd = "GetMessage"
      <4>1. \A p \in buffer : p \in GetMessage(arg, wMaxCommsBuffer).writes
        BY <1>1, <3>2, MessageIs DEF Overwritten
      <4>2. Prior' = buffer
        BY <2>1, <3>2 DEF Prior
      <4> QED  BY <1>1, <2>1, <3>2, <4>1, <4>2 DEF Ready, Crypted, Several
    <3> QED  BY <1>1, <3>1, <3>2
  <2>4. Begun'
    BY <2>2, <2>3 DEF Begun
  <2> QED  BY <1>1, <1>3, <2>4, AgainIs
<1> QED
  BY <1>1, <1>2, <1>3, EndIs

\* The loop of EncDecHelper goes to the next cut, or ends.
LEMMA TakeCryptoKeeps ==
  ASSUME MemoryInv, pc = "answered", TakeCrypto, UNCHANGED chip, Held
  PROVE  MemoryInv'
<1>1. /\ Types /\ Working /\ Runner /\ InBounds /\ Overwritten /\ Requested /\ Answered
      /\ arg.cmd \in Crypted
      /\ UNCHANGED <<call, wMaxCommsBuffer, chip>> /\ ChipOK(chip')
  BY DEF MemoryInv, Types, Working, Held, TakeCrypto, Crypted
<1> DEFINE max == wMaxCommsBuffer
           m == wMaxPlainText(max)
           len == arg.len
           n == Smaller(len - k.done, m)
           done == k.done + n
           total == k.total + ans.n
<1>2. /\ max \in Nat /\ max >= 300 /\ k.done \in Nat /\ k.total \in Nat /\ Sized(arg) /\ len \in Nat
      /\ AheadIn(buffer) /\ ans.n \in Nat
  <2>1. Sized(arg)
    BY <1>1, ArgIs DEF Crypted
  <2>2. len \in Nat
    BY <1>1, <2>1 DEF Sized, Crypted
  <2> QED  BY <1>1, <2>1, <2>2, MaxIs DEF Types, Overwritten, Answered
<1>3. k.done \in Cuts(len, max) /\ len # 0
  BY <1>1, <1>2, WholeCrypto
<1>4. (\E s : End(s)) \/ (Again(done, total) /\ done # len)
  BY DEF TakeCrypto
<1>5. CASE Again(done, total) /\ done # len
  <2>1. m \in Nat /\ m >= 1
    BY <1>2 DEF wMaxPlainText, OVERHEAD_UPDOWNLINK
  <2>2. k.done < len
    BY <1>2, <1>3, FragmentIs
  <2>3. done = k.done + m /\ done < len
    <3> HIDE DEF m, len, max
    <3> QED  BY <1>2, <1>5, <2>1, <2>2 DEF Smaller
  <2>4. done \in Cuts(len, max)
    <3>1. k.done + wMaxPlainText(max) < len
      BY <2>3
    <3>2. k.done + wMaxPlainText(max) \in Cuts(len, max)
      BY <1>2, <1>3, <3>1, CutNext
    <3> QED  BY <2>3, <3>2
  <2>5. \A from \in Cuts(len, max) : from > k.done => from >= k.done + m
    BY <1>2, <1>3, CutAfter
  <2>6. \A from \in Cuts(len, max) :
          LET p == Fragment(from, len, max) IN from \in Nat /\ p.at + p.len <= 19 + from + m
    BY <1>2, FragmentIs
  <2>7. /\ arg' = arg /\ buffer' = buffer /\ k' = [step |-> Smaller(k.step + 1, 2), done |-> done, total |-> total]
        /\ max' = max
    BY <1>1, <1>5 DEF Again
  <2> HIDE DEF m, n, done, total
  <2>8. k'.done = done
    BY <2>7
  <2>9. InBounds'
    BY <1>1, <2>4, <2>7, <2>8 DEF InBounds, Objects, Crypted
  <2>10. /\ \A from \in Cuts(len, max) : from >= k.done => Fragment(from, len, max) \in buffer
         /\ \A p \in buffer :
              /\ p.at \in Int /\ p.len \in Nat \ {0}
              /\ \/ p.at + p.len <= 19 + k.done
                 \/ \E from \in Cuts(len, max) : from >= k.done /\ p = Fragment(from, len, max)
    BY <1>2 DEF AheadIn, OVERHEAD_UPDOWNLINK
  <2>11. /\ \A from \in Cuts(len, max) : from >= done => Fragment(from, len, max) \in buffer
         /\ \A p \in buffer :
              /\ p.at \in Int /\ p.len \in Nat \ {0}
              /\ \/ p.at + p.len <= 19 + done
                 \/ \E from \in Cuts(len, max) : from >= done /\ p = Fragment(from, len, max)
    <3>1. \A from \in Cuts(len, max) : from >= done => Fragment(from, len, max) \in buffer
      BY <1>2, <2>1, <2>3, <2>6, <2>10
    <3>2. ASSUME NEW p \in buffer
          PROVE  /\ p.at \in Int /\ p.len \in Nat \ {0}
                 /\ \/ p.at + p.len <= 19 + done
                    \/ \E from \in Cuts(len, max) : from >= done /\ p = Fragment(from, len, max)
      <4>1. p.at \in Int /\ p.len \in Nat \ {0}
        BY <2>10, <3>2
      <4>2. CASE p.at + p.len <= 19 + k.done
        BY <1>2, <2>1, <2>3, <4>1, <4>2
      <4>3. CASE \E from \in Cuts(len, max) : from >= k.done /\ p = Fragment(from, len, max)
        <5>1. PICK from \in Cuts(len, max) : from >= k.done /\ p = Fragment(from, len, max)
          BY <4>3
        <5>2. from \in Nat /\ p.at + p.len <= 19 + from + m
          BY <2>6, <5>1
        <5>3. CASE from = k.done
          BY <1>2, <2>1, <2>3, <4>1, <5>2, <5>3
        <5>4. CASE from > k.done
          <6>1. from >= done
            BY <2>3, <2>5, <5>1, <5>4
          <6> QED  BY <4>1, <5>1, <6>1
        <5> QED  BY <1>2, <5>1, <5>2, <5>3, <5>4
      <4> QED  BY <2>10, <4>1, <4>2, <4>3
    <3> QED  BY <3>1, <3>2
  <2>12. AheadIn(buffer)'
    BY <2>7, <2>8, <2>11 DEF AheadIn, OVERHEAD_UPDOWNLINK
  <2>13. (Ready(Prior))'
    BY <1>1, <2>7, <2>12 DEF Ready, Prior, Crypted, Several, AheadIn
  <2>14. Begun'
    BY <2>9, <2>13 DEF Begun
  <2>15. done \in Nat /\ total \in Nat
    BY <1>2, <2>1, <2>3 DEF total
  <2> QED  BY <1>1, <1>5, <2>14, <2>15, AgainIs
<1> QED
  BY <1>1, <1>4, <1>5, EndIs

\* A response that ends its command, or sends it on.
LEMMA TakeKeeps ==
  ASSUME MemoryInv, Take
  PROVE  MemoryInv'
<1>1. pc = "answered" /\ UNCHANGED chip /\ Held
  BY DEF Take
<1>2. Types /\ Working /\ Runner /\ UNCHANGED <<call, wMaxCommsBuffer>> /\ ChipOK(chip')
  BY <1>1 DEF MemoryInv, Types, Working, Held
<1>3. CASE TakeData \/ TakeWritten
  BY <1>1, <1>3, TakeObjectKeeps
<1>4. CASE TakeSignature \/ TakeMessage
  BY <1>1, <1>4, TakeStepKeeps
<1>5. CASE TakeCrypto
  BY <1>1, <1>5, TakeCryptoKeeps
<1>6. CASE TakeHash \/ TakeKeys \/ TakeValue \/ TakeNothing
  <2>1. \E s : End(s)
    BY <1>6 DEF TakeHash, TakeKeys, TakeValue, TakeNothing
  <2> QED  BY <1>2, <2>1, EndIs
<1> QED
  BY <1>3, <1>4, <1>5, <1>6 DEF Take

\* The library learns the device's limit.
LEMMA TakeLimitKeeps ==
  ASSUME MemoryInv, TakeLimit
  PROVE  MemoryInv'
<1>1. /\ left \in Nat /\ ChipOK(chip) /\ k.step \in 0..2 /\ k.done \in Nat /\ k.total \in Nat
  BY DEF MemoryInv, Types
<1>2. pc' = "done" /\ wMaxCommsBuffer' = DeviceMax /\ k' = k /\ left' = left /\ chip' = chip
  BY DEF TakeLimit, Return
<1> QED
  BY <1>1, <1>2, OverIs

\* A command that has no memory for its buffer, or that the device refused.
LEMMA FailuresKeep ==
  ASSUME MemoryInv, AllocFails \/ GetError
  PROVE  MemoryInv'
<1>1. pc \in {"issue", "failed"} /\ chip' = chip /\ Held
  BY DEF AllocFails, GetError
<1>2. Types /\ Working /\ Runner /\ UNCHANGED <<call, wMaxCommsBuffer>> /\ ChipOK(chip')
  BY <1>1 DEF MemoryInv, Types, Working, Held
<1>3. (\E s : End(s)) \/ (\E s, c : Fail(s, c))
  BY DEF AllocFails, GetError
<1> QED
  BY <1>2, <1>3, EndIs, FailIs

\* The device refuses a request.
LEMMA DeviceRefusesKeeps ==
  ASSUME MemoryInv, DeviceRefuses
  PROVE  MemoryInv'
<1>1. /\ pc = "sent" /\ Types /\ Runner /\ InBounds
  BY DEF MemoryInv, DeviceRefuses, Types, Working
<1>2. /\ call' = call /\ arg' = arg /\ k' = k /\ wMaxCommsBuffer' = wMaxCommsBuffer /\ left' = left
      /\ chip' = chip /\ pc' = "failed"
  BY DEF DeviceRefuses, Api
<1>3. Runner' /\ InBounds'
  BY <1>1, <1>2 DEF Runner, Callable, Rejected, InBounds
<1>4. Types'
  BY <1>1, <1>2, <1>3 DEF Types, Working
<1> QED
  BY <1>2, <1>3, <1>4 DEF MemoryInv

\* The request or its answer is lost.
LEMMA CommsFailsKeeps ==
  ASSUME MemoryInv, CommsFails
  PROVE  MemoryInv'
<1>1. /\ pc = "sent" /\ Working /\ Types /\ Runner /\ InBounds /\ Requested /\ Sent = Parcel
  BY DEF MemoryInv, CommsFails, Types, Working, Loaded
<1>2. chip' \in {chip, Device.chip} /\ Fail("exec", "none") /\ UNCHANGED <<call, wMaxCommsBuffer>>
  BY DEF CommsFails, Held
<1>3. Answers(Device)
  BY <1>1, DeviceAll
<1>4. ChipOK(chip')
  BY <1>1, <1>2, <1>3 DEF Types, Answers
<1> QED
  BY <1>1, <1>2, <1>4, FailIs

\* A call begins.
LEMMA BeginKeeps ==
  ASSUME MemoryInv, Begin
  PROVE  MemoryInv'
<1>1. /\ wMaxCommsBuffer \in {Unknown, DeviceMax} /\ left \in Nat /\ ChipOK(chip)
      /\ k.step \in 0..2 /\ k.done \in Nat /\ k.total \in Nat
  BY DEF MemoryInv, Types
<1>2. UNCHANGED wMaxCommsBuffer /\ left' = left
  BY DEF Begin, Api
<1>3. PICK c \in Calls \cup Meanwhile :
        /\ call' = c
        /\ IF Rejected(c) THEN Return("error") /\ chip' = chip
           ELSE /\ Run(c.arg) /\ \E x : chip' = Unwritten(chip, x)
  BY DEF Begin
<1>4. CASE Rejected(c)
  BY <1>1, <1>2, <1>3, <1>4, OverIs DEF Return
<1>5. CASE ~Rejected(c)
  <2>1. Run(c.arg) /\ ChipOK(chip')
    BY <1>1, <1>3, <1>5, ChipKeeps
  <2>2. Callable(c)
    BY OptigaAssumption
  <2>3. c.api # "hash_update"
    BY <2>2, CallableIs DEF Hashing
  <2>4. arg' = c.arg /\ call' = c
    BY <1>3, <2>1 DEF Run
  <2>5. Runner'
    BY <1>5, <2>2, <2>4 DEF Runner, Callable, Rejected
  <2> QED  BY <1>1, <1>2, <2>1, <2>3, <2>4, <2>5, RunIs
<1> QED
  BY <1>4, <1>5

\* The application on the device is opened.
LEMMA OpenCommsKeeps ==
  ASSUME MemoryInv, OpenComms
  PROVE  MemoryInv'
<1>1. /\ wMaxCommsBuffer \in {Unknown, DeviceMax} /\ left \in Nat /\ ChipOK(chip)
      /\ k.step \in 0..2 /\ k.done \in Nat /\ k.total \in Nat
  BY DEF MemoryInv, Types
<1>2. UNCHANGED wMaxCommsBuffer /\ left' = left /\ call' = [api |-> "open"]
  BY DEF OpenComms
<1>3. CASE Return("error") /\ chip' = chip
  BY <1>1, <1>2, <1>3, OverIs DEF Return
<1>4. CASE /\ Run(Opening)
           /\ chip' = [Unwritten(chip, 0) EXCEPT !.open = FALSE, !.hash = NotHashing, !.auth = "none",
                                                 !.challenge = "none"]
  <2>1. ChipOK(chip')
    BY <1>1, <1>4, ChipKeeps
  <2>2. arg' = Opening
    BY <1>4 DEF Run
  <2>3. Runner'
    BY <1>2, <2>2 DEF Runner
  <2>4. call'.api # "hash_update"
    BY <1>2
  <2> QED  BY <1>1, <1>2, <1>4, <2>1, <2>3, <2>4, RunIs
<1> QED
  BY <1>3, <1>4 DEF OpenComms, Opening

\* A part of a hash begins.
LEMMA HashKeeps ==
  ASSUME MemoryInv, HashStart \/ HashUpdate \/ HashFinalize
  PROVE  MemoryInv'
<1>1. /\ wMaxCommsBuffer \in {Unknown, DeviceMax} /\ left \in Nat /\ ChipOK(chip)
  BY DEF MemoryInv, Types
<1>2. UNCHANGED wMaxCommsBuffer /\ chip' = Unwritten(chip, 0)
  BY DEF HashStart, HashUpdate, HashFinalize, Api
<1>3. ChipOK(chip')
  BY <1>1, <1>2, ChipKeeps
<1>4. ASSUME NEW a, Run(a), HashSized(a), call'.api \in Hashing, left' \in Nat,
             call'.api = "hash_update" => a.len <= left'
      PROVE  MemoryInv'
  <2>1. arg' = a
    BY <1>4 DEF Run
  <2>2. Runner'
    BY <1>4, <2>1 DEF Runner
  <2> QED  BY <1>1, <1>2, <1>3, <1>4, <2>2, RunIs
<1>5. CASE HashStart
  <2> DEFINE a == HashArg("start", "export", TRUE, 0, 0)
  <2>1. Run(a) /\ call' = [api |-> "hash_start"] /\ left' = left
    BY <1>5 DEF HashStart, Api
  <2>2. HashSized(a)
    BY DEF HashArg, HashSized
  <2> HIDE DEF a
  <2> QED  BY <1>1, <1>4, <2>1, <2>2 DEF Hashing
<1>6. CASE HashFinalize
  <2> DEFINE a == HashArg("final", "import", TRUE, 0, 0)
  <2>1. Run(a) /\ call' = [api |-> "hash_finalize"] /\ left' = left
    BY <1>6 DEF HashFinalize, Api
  <2>2. HashSized(a)
    BY DEF HashArg, HashSized
  <2> HIDE DEF a
  <2> QED  BY <1>1, <1>4, <2>1, <2>2 DEF Hashing
<1>7. CASE HashUpdate
  <2> DEFINE First(size, host) ==
               IF host THEN FirstChunk(size) ELSE [action |-> "both", len |-> size, chaining |-> FALSE]
             Arg(size, host) == HashArg("continue", First(size, host).action, host, First(size, host).len,
                                        IF host THEN fed ELSE 0)
  <2>1. PICK size \in Updates, host \in BOOLEAN :
          /\ call' = [api |-> "hash_update", size |-> size] /\ Run(Arg(size, host)) /\ left' = size
    BY <1>7 DEF HashUpdate
  <2> DEFINE first == First(size, host)
             a == Arg(size, host)
  <2>2. size \in Nat
    BY OptigaAssumption
  <2>3. first.len \in Nat /\ first.len <= size /\ first.action \in {"import", "both"}
    BY <1>1, <2>2, ChunkIs
  <2>4. HashSized(a) /\ a.len = first.len
    <3> HIDE DEF First
    <3>1. first.action \in {"import", "export", "both", "none"}
      BY <2>3
    <3> QED  BY <2>3, <3>1 DEF HashArg, HashSized
  <2> HIDE DEF first, First, a, Arg
  <2>5. Run(a)
    BY <2>1 DEF a
  <2> QED  BY <1>4, <2>1, <2>2, <2>3, <2>4, <2>5 DEF Hashing
<1> QED
  BY <1>5, <1>6, <1>7

\* TrustX sets the current limit, tries to open again, or resets the controller; the caller
\* goes on.
LEMMA ReturnsKeep ==
  ASSUME MemoryInv, SetLimit \/ RetryOpen \/ SystemReset \/ Finish
  PROVE  MemoryInv'
<1>1. /\ wMaxCommsBuffer \in {Unknown, DeviceMax} /\ left \in Nat /\ ChipOK(chip)
      /\ k.step \in 0..2 /\ k.done \in Nat /\ k.total \in Nat
  BY DEF MemoryInv, Types
<1>2. CASE SetLimit
  <2>1. /\ call' = [CurrentLimitation EXCEPT !.api = "limit"] /\ Run(CurrentLimitation.arg) /\ chip' = chip
        /\ wMaxCommsBuffer' = wMaxCommsBuffer /\ left' = left
    BY <1>2 DEF SetLimit, Api
  <2>2. call'.api = "limit"
    BY <2>1, LimitIs
  <2>3. arg' = CurrentLimitation.arg
    BY <2>1 DEF Run
  <2>4. Runner'
    BY <2>2, <2>3 DEF Runner, CurrentLimitation, WriteData, Call
  <2> QED  BY <1>1, <2>1, <2>2, <2>4, RunIs
<1>3. CASE RetryOpen \/ SystemReset \/ Finish
  <2>1. /\ pc' \in {"boot", "idle"} /\ k' = Start /\ left' \in Nat
        /\ wMaxCommsBuffer' \in {Unknown, DeviceMax}
    BY <1>1, <1>3 DEF RetryOpen, SystemReset, Finish, Forget, Api
  <2>2. \/ chip' = Unwritten(chip, 0)
        \/ chip' = [Unwritten(chip, 0) EXCEPT !.hash = NotHashing]
    BY <1>3 DEF RetryOpen, SystemReset, Finish, Fresh
  <2>3. ChipOK(chip')
    BY <1>1, <2>2, ChipKeeps
  <2> QED  BY <1>1, <2>1, <2>3, OverIs
<1> QED
  BY <1>2, <1>3
-----------------------------------------------------------------------------
(* Theorems *)

\* It holds from the start.
LEMMA MemoryInit == Init => MemoryInv
<1> SUFFICES ASSUME Init PROVE MemoryInv
  OBVIOUS
<1>1. /\ pc = "idle" /\ wMaxCommsBuffer = Unknown /\ left = 0 /\ k = Start
  BY DEF Init
<1>2. ChipOK(chip)
  BY OptigaAssumption DEF Init, ChipOK
<1> QED
  BY <1>1, <1>2 DEF MemoryInv, Types, Working, Start

\* Every step keeps it.
LEMMA MemoryNext == MemoryInv /\ [Next]_vars => MemoryInv'
<1> SUFFICES ASSUME MemoryInv, [Next]_vars PROVE MemoryInv'
  OBVIOUS
<1>1. CASE Caller
  BY <1>1, OpenCommsKeeps, BeginKeeps, HashKeeps DEF Caller
<1>2. CASE Command
  BY <1>2, IssueKeeps, FailuresKeep, TakeKeeps, TakeLimitKeeps, ReturnsKeep DEF Command
<1>3. CASE Chip
  BY <1>3, DeviceAnswersKeeps, DeviceRefusesKeeps, DeviceMistakesKeeps, CommsFailsKeeps DEF Chip
<1>4. CASE UNCHANGED vars
  BY <1>4 DEF vars, MemoryInv, Types, Working, Runner, Callable, Rejected, InBounds, Ready, Prior, Before, AheadIn,
              Behind, Requested, Loaded, Parcel, Sent, Overwritten, AnswersFit, Answered
<1> QED
  BY <1>1, <1>2, <1>3, <1>4 DEF Next

\* What the device finds of a request is what fills it.
LEMMA FilledIs ==
  ASSUME MemoryInv
  PROVE  MemoryHolds
<1>1. AnswersFit
  BY DEF MemoryInv, AnswersFit
<1>2. ASSUME pc = "sent"
      PROVE  /\ Fills(buffer, req.base, req.payload)
             /\ \A p \in req.writes : p.at + p.len <= req.alloc
             /\ req.base + LEN_APDUHEADER + req.payload <= req.alloc
  <2>1. Types /\ Runner /\ InBounds /\ Requested /\ Sent = Parcel
    BY <1>2 DEF MemoryInv, Types, Working, Loaded
  <2>2. Whole(Parcel, req)
    BY <2>1, WholeAll
  <2>3. Payload(buffer, req.base, req.payload) = Parcel
    BY <2>1 DEF Sent
  <2> QED  BY <2>2, <2>3 DEF Whole, Row, Fills
<1> QED
  BY <1>1, <1>2 DEF MemoryHolds, RequestsWellFormed

\* Whatever calls are made with arguments of the shapes the program makes, and whatever the
\* device answers, every request of the command library fills its payload and stays in its
\* memory, and every answer fits where it is written (MemoryHolds): the overlays of headers,
\* fragments and answers in one buffer never meet.
THEOREM MemoryAlwaysHolds == Spec => []MemoryHolds
<1>1. MemoryInv => MemoryHolds
  BY FilledIs
<1> QED
  BY <1>1, MemoryInit, MemoryNext, PTL DEF Spec
-----------------------------------------------------------------------------
(* What the pieces add up to *)

\* The loop of CmdLib_GetDataObject has read all up to k.done; a fragment is all there is of
\* what was asked for.
Reading ==
  Working /\ call.api = "read_data" =>
    /\ out.n = k.done /\ out.whole /\ k.done <= arg.room /\ k.done <= arg.len
    /\ k.done = 0 \/ arg.offset + k.done <= chip.used
    /\ pc = "answered" =>
         /\ ans.len = LEN_APDUHEADER + ans.n /\ ans.n > 0 /\ ans.from = arg.offset + k.done
         /\ ans.n = Smaller(Smaller(wMaxCommsBuffer - LEN_APDUHEADER, arg.len - k.done),
                            chip.used - (arg.offset + k.done))
    /\ pc = "failed" /\ ans.code = "bound" /\ k.done # 0 => chip.used <= arg.offset + k.done

\* The object holds the fragments sent.
Fragmented == Smaller(wMaxCommsBuffer - 8, arg.len - k.done)
Writing ==
  Working /\ call.api = "write_data" =>
    /\ chip.from = arg.offset
    /\ chip.to = arg.offset + k.done + IF pc = "answered" THEN Fragmented ELSE 0

\* The device has the key, then the challenge of this call.
Signing ==
  Working /\ call.api = "signature" =>
    /\ k.step > 0 \/ pc = "answered" => chip.auth = arg.key
    /\ k.step > 1 \/ (k.step > 0 /\ pc = "answered") => chip.challenge = arg.challenge
    /\ k.step > 1 /\ pc = "answered" => ans.of = <<arg.key, arg.challenge>>

\* The caller has what the device has sent of the message.
Forming ==
  Working /\ call.api = "message" /\ arg.cmd = "GetMessage" =>
    /\ pc \in {"issue", "sent"} => out.n = chip.sent /\ out.whole /\ (k.step = 0 => chip.sent = 0)
    /\ pc = "answered" /\ ans.tag # "odd" =>
         /\ out.whole /\ ans.from = out.n /\ (k.step = 0 => out.n = 0) /\ ans.n \in Int /\ out.n \in Nat
         /\ IF ans.tag = "final" THEN out.n + ans.n = MessageLen[arg.message]
            ELSE out.n + ans.n = chip.sent

\* The first fragment gains or loses the 8 bytes of the explicit nonce, the last one those of
\* the tag.
Gain == IF arg.cmd = "Encrypt" THEN 8 ELSE 0 - 8
Crypting ==
  Working /\ call.api = "crypto" =>
    /\ out.n = k.total /\ out.whole
    /\ k.total = k.done + IF k.done = 0 THEN 0 ELSE Gain
    /\ pc = "answered" /\ ans.tag # "odd" =>
         /\ ans.from = k.done
         /\ ans.n = Smaller(arg.len - k.done, wMaxPlainText(wMaxCommsBuffer))
                    + (IF k.done = 0 THEN Gain ELSE 0) + (IF ans.tag = "final" THEN Gain ELSE 0)

\* The chunks of one update: the first brings the context of all that was hashed before, the
\* device keeps it from one to the next, and the last one gives it back.
Chunk ==
  /\ arg.sequence = "continue" /\ call.size \in Nat /\ arg.from \in Int /\ chaining \in BOOLEAN
  /\ chaining <=> arg.action \in {"import", "none"}
  /\ ~chaining => arg.len = left
  /\ IF arg.host THEN arg.from + left = fed + call.size ELSE arg.action = "both" /\ left = call.size
  /\ arg.action \in {"import", "both"} => arg.state = fed /\ (arg.host => arg.from = fed)
  /\ arg.action \in {"export", "none"} /\ pc \in {"issue", "sent"} => arg.host /\ chip.hash = arg.from
  /\ pc = "answered" =>
       /\ "digest" \notin DOMAIN ans
       /\ IF chaining THEN arg.host /\ "context" \notin DOMAIN ans /\ chip.hash = arg.from + arg.len
          ELSE "context" \in DOMAIN ans /\ ans.context = fed + call.size
Summing ==
  Working =>
    /\ call.api = "hash_start" =>
         /\ arg.sequence = "start" /\ arg.action = "export" /\ arg.host /\ arg.len = 0
         /\ pc = "answered" => "digest" \notin DOMAIN ans /\ "context" \in DOMAIN ans /\ ans.context = 0
    /\ call.api = "hash_update" => Chunk
    /\ call.api = "hash_finalize" =>
         /\ arg.sequence = "final" /\ arg.action = "import" /\ arg.host /\ arg.len = 0 /\ arg.state = fed
         /\ pc = "answered" => "context" \notin DOMAIN ans /\ "digest" \in DOMAIN ans /\ ans.digest = fed

\* In every call that takes several commands.
Progress == Reading /\ Writing /\ Signing /\ Forming /\ Crypting /\ Summing
PiecesInv == context = fed /\ fed \in Int /\ Progress /\ PiecesAddUp

\* What a call runs, by its name.
LEMMA CalledIs ==
  ASSUME Runner
  PROVE  /\ call.api \in {"read_data", "write_data", "signature", "message", "crypto"} =>
              arg = call.arg /\ Sized(arg)
         /\ call.api = "read_data" => arg.cmd = "GetDataObject" /\ ~arg.meta
         /\ call.api = "write_data" => arg.cmd = "SetDataObject" /\ ~arg.meta
         /\ call.api = "signature" => arg.cmd = "GetSignature"
         /\ call.api = "message" => arg.cmd \in {"GetMessage", "PutMessage"}
         /\ call.api = "crypto" => arg.cmd \in Crypted
         /\ call.api \in Hashing <=> arg.cmd = "CalcHash"
<1>1. arg.cmd = "CalcHash" <=> call.api \in Hashing
  BY ArgIs
<1>2. ASSUME call.api \in {"read_data", "write_data", "signature", "message", "crypto"}
      PROVE  Callable(call) /\ arg = call.arg
  BY <1>2 DEF Runner, Hashing
<1>3. ASSUME Callable(call), arg = call.arg
      PROVE  /\ call.api = "read_data" => arg.cmd = "GetDataObject" /\ ~arg.meta
             /\ call.api = "write_data" => arg.cmd = "SetDataObject" /\ ~arg.meta
             /\ call.api = "signature" => arg.cmd = "GetSignature"
             /\ call.api = "message" => arg.cmd \in {"GetMessage", "PutMessage"}
             /\ call.api = "crypto" => arg.cmd \in Crypted
             /\ Sized(arg)
  <2>1. arg.cmd \in Runs[call.api] /\ Sized(arg) /\ (call.api \in {"read_data", "write_data"} => ~arg.meta)
    BY <1>3 DEF Callable
  <2>2. /\ Runs["read_data"] = {"GetDataObject"} /\ Runs["write_data"] = {"SetDataObject"}
        /\ Runs["signature"] = {"GetSignature"} /\ Runs["message"] = {"GetMessage", "PutMessage"}
        /\ Runs["crypto"] = {"Encrypt", "Decrypt"}
    BY DEF Runs
  <2> QED  BY <2>1, <2>2 DEF Crypted
<1> QED
  BY <1>1, <1>2, <1>3

\* Only a command that went well is a success for its caller.
LEMMA ResultIs ==
  /\ Result("ok") = "success"
  /\ \A s : s \notin {"ok", "success"} => Result(s) # "success"
BY DEF Result

\* No request is refused with that status.
Unlucky(r) == r.status # "success"

\* Neither a refusal nor a lack of memory has it.
LEMMA UnluckyIs ==
  /\ \A s : s # "success" => Unlucky(Refuse(s))
  /\ \A max, r : Unlucky(r) => Unlucky(Heap(max, r))
BY DEF Unlucky, Refuse, Heap

\* Nor is one made with it.
LEMMA UnluckyApdu ==
  ASSUME NEW param, NEW alloc, NEW writes, NEW payload, NEW at, NEW room
  PROVE  Unlucky(Apdu(param, alloc, writes, payload, at, room))
BY DEF Unlucky, Apdu

\* Whatever the command.
LEMMA UnluckyAll ==
  ASSUME Runner, k.step \in 0..2
  PROVE  Unlucky(Request(arg, k, wMaxCommsBuffer))
<1>1. arg.cmd \in Plain \cup {"OpenApplication", "GetMaxCommsBuffer", "CalcHash"}
  BY ArgIs
<1>2. CASE arg.cmd = "OpenApplication"
  <2>1. Request(arg, k, wMaxCommsBuffer) = OpenApplication
    BY <1>2, RequestIs
  <2>2. Unlucky(OpenApplication)
    BY UnluckyApdu DEF OpenApplication
  <2> QED  BY <2>1, <2>2
<1>3. CASE arg.cmd = "GetMaxCommsBuffer"
  <2>1. Request(arg, k, wMaxCommsBuffer) = GetMaxCommsBuffer
    BY <1>3, RequestIs
  <2>2. Unlucky(GetMaxCommsBuffer)
    BY UnluckyApdu DEF GetMaxCommsBuffer
  <2> QED  BY <2>1, <2>2
<1>4. CASE arg.cmd = "GetDataObject"
  <2>1. Request(arg, k, wMaxCommsBuffer) = GetDataObject(arg, k.done, wMaxCommsBuffer)
    BY <1>4, RequestIs
  <2>2. Unlucky(GetDataObject(arg, k.done, wMaxCommsBuffer))
    BY UnluckyIs, UnluckyApdu DEF GetDataObject
  <2> QED  BY <2>1, <2>2
<1>5. CASE arg.cmd = "SetDataObject"
  <2>1. Request(arg, k, wMaxCommsBuffer) = SetDataObject(arg, k.done, wMaxCommsBuffer)
    BY <1>5, RequestIs
  <2>2. Unlucky(SetDataObject(arg, k.done, wMaxCommsBuffer))
    BY UnluckyIs, UnluckyApdu DEF SetDataObject
  <2> QED  BY <2>1, <2>2
<1>6. CASE arg.cmd = "GetRandom"
  <2>1. Request(arg, k, wMaxCommsBuffer) = GetRandom(arg, wMaxCommsBuffer)
    BY <1>6, RequestIs
  <2>2. Unlucky(GetRandom(arg, wMaxCommsBuffer))
    BY UnluckyIs, UnluckyApdu DEF GetRandom
  <2> QED  BY <2>1, <2>2
<1>7. CASE arg.cmd = "SetAuthScheme"
  <2>1. Request(arg, k, wMaxCommsBuffer) = SetAuthScheme(arg)
    BY <1>7, RequestIs
  <2>2. Unlucky(SetAuthScheme(arg))
    BY UnluckyIs, UnluckyApdu DEF SetAuthScheme
  <2> QED  BY <2>1, <2>2
<1>8. CASE arg.cmd = "CalcHash"
  <2>1. Request(arg, k, wMaxCommsBuffer) = CalcHash(arg, wMaxCommsBuffer)
    BY <1>8, RequestIs
  <2>2. Unlucky(CalcHash(arg, wMaxCommsBuffer))
    BY UnluckyIs, UnluckyApdu DEF CalcHash
  <2> QED  BY <2>1, <2>2
<1>9. CASE arg.cmd = "VerifySign"
  <2>1. Request(arg, k, wMaxCommsBuffer) = VerifySign(arg, wMaxCommsBuffer)
    BY <1>9, RequestIs
  <2>2. Unlucky(VerifySign(arg, wMaxCommsBuffer))
    BY UnluckyIs, UnluckyApdu DEF VerifySign
  <2> QED  BY <2>1, <2>2
<1>10. CASE arg.cmd = "GenerateKeyPair"
  <2>1. Request(arg, k, wMaxCommsBuffer) = GenerateKeyPair(arg, wMaxCommsBuffer)
    BY <1>10, RequestIs
  <2>2. Unlucky(GenerateKeyPair(arg, wMaxCommsBuffer))
    BY UnluckyIs, UnluckyApdu DEF GenerateKeyPair
  <2> QED  BY <2>1, <2>2
<1>11. CASE arg.cmd = "CalculateSign"
  <2>1. Request(arg, k, wMaxCommsBuffer) = CalculateSign(arg, wMaxCommsBuffer)
    BY <1>11, RequestIs
  <2>2. Unlucky(CalculateSign(arg, wMaxCommsBuffer))
    BY UnluckyIs, UnluckyApdu DEF CalculateSign
  <2> QED  BY <2>1, <2>2
<1>12. CASE arg.cmd = "CalculateSharedSecret"
  <2>1. Request(arg, k, wMaxCommsBuffer) = CalculateSharedSecret(arg, wMaxCommsBuffer)
    BY <1>12, RequestIs
  <2>2. Unlucky(CalculateSharedSecret(arg, wMaxCommsBuffer))
    BY UnluckyIs, UnluckyApdu DEF CalculateSharedSecret
  <2> QED  BY <2>1, <2>2
<1>13. CASE arg.cmd = "DeriveKey"
  <2>1. Request(arg, k, wMaxCommsBuffer) = DeriveKey(arg, wMaxCommsBuffer)
    BY <1>13, RequestIs
  <2>2. Unlucky(DeriveKey(arg, wMaxCommsBuffer))
    BY UnluckyIs, UnluckyApdu DEF DeriveKey
  <2> QED  BY <2>1, <2>2
<1>14. CASE arg.cmd = "GetMessage"
  <2>1. Request(arg, k, wMaxCommsBuffer) = GetMessage(arg, wMaxCommsBuffer)
    BY <1>14, RequestIs
  <2>2. Unlucky(GetMessage(arg, wMaxCommsBuffer))
    BY UnluckyIs, UnluckyApdu DEF GetMessage
  <2> QED  BY <2>1, <2>2
<1>15. CASE arg.cmd = "PutMessage"
  <2>1. Request(arg, k, wMaxCommsBuffer) = PutMessage(arg, wMaxCommsBuffer)
    BY <1>15, RequestIs
  <2>2. Unlucky(PutMessage(arg, wMaxCommsBuffer))
    BY UnluckyIs, UnluckyApdu DEF PutMessage
  <2> QED  BY <2>1, <2>2
<1>16. CASE arg.cmd = "CloseSession"
  <2>1. Request(arg, k, wMaxCommsBuffer) = CloseSession(arg)
    BY <1>16, RequestIs
  <2>2. Unlucky(CloseSession(arg))
    BY UnluckyIs, UnluckyApdu DEF CloseSession
  <2> QED  BY <2>1, <2>2
<1>17. CASE arg.cmd = "GetSignature"
  <2>1. Request(arg, k, wMaxCommsBuffer) = GetSignature(arg, k.step, wMaxCommsBuffer)
    BY <1>17, RequestIs
  <2>2. Unlucky(SetAuthScheme([scheme |-> "ecdsa", key |-> arg.key]))
    BY UnluckyIs, UnluckyApdu DEF SetAuthScheme
  <2>3. Unlucky(GetSignature(arg, k.step, wMaxCommsBuffer))
    BY <2>2, UnluckyIs, UnluckyApdu DEF GetSignature
  <2> QED  BY <2>1, <2>3
<1>18. CASE arg.cmd \in Crypted
  <2>1. Request(arg, k, wMaxCommsBuffer) = EncDecHelper(arg, k.done, k.total, wMaxCommsBuffer)
    BY <1>18, RequestIs
  <2>2. \A base, a : Unlucky(a) => Unlucky([a EXCEPT !.base = base])
    BY DEF Unlucky
  <2>3. Unlucky(EncDecHelper(arg, k.done, k.total, wMaxCommsBuffer))
    BY <2>2, UnluckyIs, UnluckyApdu DEF EncDecHelper
  <2> QED  BY <2>1, <2>3
<1> QED
  BY <1>1, <1>2, <1>3, <1>4, <1>5, <1>6, <1>7, <1>8, <1>9, <1>10, <1>11, <1>12, <1>13, <1>14, <1>15,
     <1>16, <1>17, <1>18 DEF Plain, Crypted

\* A command that failed ends its call.
LEMMA FailedIs ==
  ASSUME NEW s, s \notin {"ok", "success"}, End(s)
  PROVE  pc' = "done" /\ ret' # "success" /\ fed' = fed
<1>1. pc' = "done" /\ ret' = Result(s) /\ fed' = fed
  BY DEF End, Return
<1> QED
  BY <1>1, ResultIs

\* One that went well does, when it is neither opening nor hashing.
LEMMA EndedIs ==
  ASSUME Runner, call.api \notin Hashing \cup {"open"}, End("ok")
  PROVE  pc' = "done" /\ ret' = "success" /\ fed' = fed
<1>1. arg.cmd # "OpenApplication" /\ call.api \notin {"open", "hash_start", "hash_update", "hash_finalize"}
  BY ArgIs DEF Hashing
<1>2. pc' = "done" /\ ret' = Result("ok") /\ fed' = fed
  BY <1>1 DEF End, Return
<1> QED
  BY <1>2, ResultIs

\* Nothing adds up to something when the call does not succeed.
LEMMA LostIs ==
  ASSUME pc' = "done", ret' # "success", context' = fed', fed' \in Int,
         call'.api = "read_data" => out'.n = 0,
         call'.api = "write_data" => chip'.to \in call'.arg.offset..(call'.arg.offset + call'.arg.len)
  PROVE  PiecesInv'
<1>1. ~Working'
  BY DEF Working
<1>2. Progress'
  BY <1>1 DEF Progress, Reading, Writing, Signing, Forming, Crypting, Summing
<1>3. PiecesAddUp'
  BY DEF PiecesAddUp, ReadDelivers, WrittenInOrder, DigestOfAllData, MessageInPieces, SignatureOfChallenge, Succeeded
<1> QED
  BY <1>2, <1>3 DEF PiecesInv

\* What the device answers about an object that is written.
LEMMA WrittenIs ==
  ASSUME Types, Runner, InBounds, Requested, Loaded, Writing, pc = "sent", call.api = "write_data"
  PROVE  \/ Device.ans.code # "ok" /\ Device.chip = chip
         \/ /\ Device.ans.code = "ok" /\ Device.chip.from = arg.offset
            /\ Device.chip.to = arg.offset + k.done + Fragmented
<1>1. /\ arg.cmd = "SetDataObject" /\ ~arg.meta /\ Sized(arg) /\ Sent = Parcel
      /\ wMaxCommsBuffer \in Nat /\ wMaxCommsBuffer >= 300 /\ k.done \in Nat /\ ChipOK(chip)
  BY CalledIs, MaxIs DEF Types, Loaded
<1>2. arg.offset \in Nat /\ arg.len \in Nat
  BY <1>1 DEF Sized
<1>3. chip.from = arg.offset /\ chip.to = arg.offset + k.done
  BY <1>2, <1>1 DEF Writing, Working
<1> DEFINE from == arg.offset + k.done
           to == from + Fragmented
           more == IF req.param = "erase" THEN to ELSE Larger(to, chip.used)
           new == IF from = chip.to /\ k.done = from - chip.from THEN to ELSE Scrambled
<1>4. Device = NoAnswer \/ Device = DeviceWrite
  BY <1>1, DeviceIs
<1>5. DeviceWrite = IF from > chip.used \/ to > ObjectSize THEN Done(chip, Error("bound"))
                    ELSE Done([chip EXCEPT !.used = more, !.to = new], Answer(LEN_APDUHEADER))
  <2>1. DOMAIN chip = {"open", "hash", "auth", "challenge", "used", "from", "to", "sent"}
    BY <1>1 DEF ChipOK
  <2> QED  BY <1>1, <2>1, WriteIs DEF Fragmented
<1>6. new = to
  BY <1>1, <1>2, <1>3
<1> HIDE DEF new, to, more, from
<1>7. CASE Device = NoAnswer \/ Device = Done(chip, Error("bound"))
  BY <1>7 DEF NoAnswer, Done, Error
<1>8. CASE Device = Done([chip EXCEPT !.used = more, !.to = new], Answer(LEN_APDUHEADER))
  <2>1. [chip EXCEPT !.used = more, !.to = new].from = chip.from /\ [chip EXCEPT !.used = more, !.to = new].to = new
    BY <1>1 DEF ChipOK
  <2>2. Device.ans.code = "ok" /\ Device.chip.from = chip.from /\ Device.chip.to = new
    BY <1>8, <2>1 DEF Done, Answer
  <2> QED  BY <1>3, <1>6, <2>2 DEF to, from
<1> QED
  BY <1>4, <1>5, <1>7, <1>8

\* A command that fails, or that reads to the end of the object.
Failing == (Issue /\ pc' # "sent") \/ AllocFails \/ GetError \/ CommsFails

\* It ends its call, and an object is given up but for one read to its end.
LEMMA FailingIs ==
  ASSUME MemoryInv, Failing
  PROVE  /\ Working /\ call' = call /\ context' = context
         /\ chip' = chip \/ (pc = "sent" /\ chip' = Device.chip)
         /\ \/ \E s : /\ s \notin {"ok", "success"} /\ End(s)
                      /\ arg.cmd = "GetDataObject" => out' = NoOut \/ (k = Start /\ out' = out)
            \/ /\ End("ok") /\ out' = out /\ arg.cmd = "GetDataObject" /\ k.done # 0 /\ chip' = chip
               /\ pc = "failed" /\ ans.code = "bound"
<1>1. ASSUME NEW status, NEW code, Fail(status, code), status \notin {"ok", "success"},
             code = "bound" => pc = "failed" /\ ans.code = "bound" /\ chip' = chip
      PROVE  \/ \E s : /\ s \notin {"ok", "success"} /\ End(s)
                       /\ arg.cmd = "GetDataObject" => out' = NoOut \/ (k = Start /\ out' = out)
             \/ /\ End("ok") /\ out' = out /\ arg.cmd = "GetDataObject" /\ k.done # 0 /\ chip' = chip
                /\ pc = "failed" /\ ans.code = "bound"
  <2>1. CASE arg.cmd = "GetDataObject" /\ k.done # 0 /\ code = "bound"
    BY <1>1, <2>1 DEF Fail
  <2>2. CASE ~(arg.cmd = "GetDataObject" /\ k.done # 0 /\ code = "bound")
    <3> DEFINE s == IF arg.cmd = "Decrypt" THEN "decrypt" ELSE status
    <3>1. End(s) /\ out' = IF arg.cmd = "GetDataObject" THEN NoOut ELSE out
      BY <1>1, <2>2 DEF Fail
    <3>2. s \notin {"ok", "success"}
      BY <1>1
    <3> QED  BY <3>1, <3>2
  <2> QED  BY <2>1, <2>2
<1>2. CASE Issue /\ pc' # "sent"
  <2> DEFINE r == Request(arg, k, wMaxCommsBuffer)
  <2>1. pc = "issue" /\ call' = call
    BY <1>2 DEF Issue, Held
  <2>2. Unlucky(r)
    BY <2>1, UnluckyAll DEF MemoryInv, Types, Working
  <2>3. /\ context' = context /\ chip' = chip
        /\ (r.status # "ok" /\ Fail(r.status, "none")) \/ Fail("null", "none")
    BY <1>2 DEF Issue
  <2> HIDE DEF r
  <2>4. CASE Fail("null", "none")
    BY <1>1, <2>1, <2>3, <2>4 DEF Working
  <2>5. CASE r.status # "ok" /\ Fail(r.status, "none")
    <3>1. r.status \notin {"ok", "success"}
      BY <2>2, <2>5 DEF Unlucky
    <3> QED  BY <1>1, <2>1, <2>3, <2>5, <3>1 DEF Working
  <2> QED  BY <2>3, <2>4, <2>5
<1>3. CASE AllocFails
  <2>1. /\ pc = "issue" /\ call' = call /\ context' = context /\ chip' = chip /\ k = Start
        /\ End("memory") /\ out' = out
    BY <1>3 DEF AllocFails, Held
  <2> QED  BY <2>1 DEF Working
<1>4. CASE GetError
  <2>1. /\ pc = "failed" /\ call' = call /\ context' = context /\ chip' = chip
        /\ Fail("device", ans.code) \/ Fail("exec", "none")
    BY <1>4 DEF GetError, Held
  <2> QED  BY <1>1, <2>1 DEF Working
<1>5. CASE CommsFails
  <2>1. /\ pc = "sent" /\ call' = call /\ context' = context /\ chip' \in {chip, Device.chip}
        /\ Fail("exec", "none")
    BY <1>5 DEF CommsFails, Held
  <2> QED  BY <1>1, <2>1 DEF Working
<1> QED
  BY <1>2, <1>3, <1>4, <1>5 DEF Failing

\* A failure leaves nothing half done that the caller would take for the whole.
LEMMA FailingAddsUp ==
  ASSUME MemoryInv, PiecesInv, Failing
  PROVE  PiecesInv'
<1>1. /\ Working /\ Types /\ Runner /\ InBounds /\ call' = call /\ context' = context
      /\ context = fed /\ fed \in Int /\ Reading /\ Writing
      /\ chip' = chip \/ (pc = "sent" /\ chip' = Device.chip)
  BY FailingIs DEF MemoryInv, Types, PiecesInv, Progress
<1>2. wMaxCommsBuffer \in Nat /\ wMaxCommsBuffer >= 300 /\ k.done \in Nat
  BY <1>1, MaxIs DEF Types
<1>3. ASSUME NEW s, s \notin {"ok", "success"}, End(s),
             arg.cmd = "GetDataObject" => out' = NoOut \/ (k = Start /\ out' = out)
      PROVE  PiecesInv'
  <2>1. pc' = "done" /\ ret' # "success" /\ fed' = fed
    BY <1>3, FailedIs
  <2>2. call.api = "read_data" => out'.n = 0
    <3> SUFFICES ASSUME call.api = "read_data" PROVE out'.n = 0
      OBVIOUS
    <3>1. arg.cmd = "GetDataObject" /\ out.n = k.done
      BY <1>1, CalledIs DEF Reading
    <3> QED  BY <1>3, <3>1 DEF NoOut, Start
  <2>3. call.api = "write_data" => chip'.to \in call.arg.offset..(call.arg.offset + call.arg.len)
    <3> SUFFICES ASSUME call.api = "write_data"
                 PROVE  chip'.to \in call.arg.offset..(call.arg.offset + call.arg.len)
      OBVIOUS
    <3>1. arg = call.arg /\ arg.cmd = "SetDataObject" /\ arg.offset \in Nat /\ arg.len \in Nat
      BY <1>1, CalledIs DEF Sized
    <3>2. /\ k.done <= arg.len /\ Fragmented \in Int /\ Fragmented <= arg.len - k.done /\ 0 <= Fragmented
      BY <1>1, <1>2, <3>1 DEF InBounds, Objects, Fragmented, Smaller
    <3>3. \/ chip.to = arg.offset + k.done
          \/ chip.to = arg.offset + k.done + Fragmented
      BY <1>1, <1>2, <3>1 DEF Writing
    <3>4. pc = "sent" => \/ Device.chip = chip
                         \/ Device.chip.to = arg.offset + k.done + Fragmented
      BY <1>1, WrittenIs DEF MemoryInv
    <3>5. \/ chip'.to = arg.offset + k.done
          \/ chip'.to = arg.offset + k.done + Fragmented
      BY <1>1, <3>3, <3>4
    <3> QED  BY <1>2, <3>1, <3>2, <3>5
  <2> QED  BY <1>1, <2>1, <2>2, <2>3, LostIs
<1>4. CASE /\ End("ok") /\ out' = out /\ arg.cmd = "GetDataObject" /\ k.done # 0 /\ chip' = chip
           /\ pc = "failed" /\ ans.code = "bound"
  <2>1. call.api \notin Hashing \cup {"open"}
    <3>1. call.api \notin Hashing
      BY <1>1, <1>4, CalledIs
    <3>2. ASSUME call.api = "open" PROVE arg \in {Opening, Asking}
      BY <1>1, <3>2, CallableIs DEF Runner, Hashing
    <3> QED  BY <1>4, <3>1, <3>2 DEF Opening, Asking
  <2>2. pc' = "done" /\ ret' = "success" /\ fed' = fed
    BY <1>1, <1>4, <2>1, EndedIs
  <2>3. call.api \notin {"write_data", "message", "crypto", "signature"}
    BY <1>1, <1>4, CalledIs DEF Crypted
  <2>4. ReadDelivers'
    <3> SUFFICES ASSUME call.api = "read_data"
                 PROVE  /\ out.whole /\ out.n = Smaller(arg.len, chip.used - arg.offset) /\ out.n <= arg.room
                        /\ arg = call.arg
      BY <1>1, <1>4, <2>2 DEF ReadDelivers
    <3>1. arg = call.arg /\ arg.offset \in Nat /\ arg.len \in Nat /\ chip.used \in Nat
      BY <1>1, <1>4, CalledIs DEF Sized, Types, ChipOK
    <3>2. /\ out.n = k.done /\ out.whole /\ k.done <= arg.room /\ k.done <= arg.len
          /\ arg.offset + k.done <= chip.used /\ chip.used <= arg.offset + k.done
      BY <1>1, <1>4 DEF Reading
    <3> QED  BY <1>2, <3>1, <3>2 DEF Smaller
  <2>5. PiecesAddUp'
    BY <1>1, <2>1, <2>3, <2>4 DEF PiecesAddUp, WrittenInOrder, DigestOfAllData, MessageInPieces, SignatureOfChallenge,
                                   Succeeded, Hashing
  <2>6. ~Working'
    BY <2>2 DEF Working
  <2>7. Progress'
    BY <2>6 DEF Progress, Reading, Writing, Signing, Forming, Crypting, Summing
  <2> QED  BY <1>1, <2>2, <2>5, <2>7 DEF PiecesInv
<1> QED
  BY <1>3, <1>4, FailingIs

\* A request is made; nothing is delivered yet.
LEMMA IssuedAddsUp ==
  ASSUME PiecesInv, Issue, pc' = "sent"
  PROVE  PiecesInv'
<1>1. /\ pc = "issue" /\ pc' = "sent"
      /\ call' = call /\ arg' = arg /\ k' = k /\ ans' = ans /\ context' = context /\ left' = left
      /\ chaining' = chaining /\ out' = out /\ ret' = ret /\ chip' = chip /\ fed' = fed
      /\ wMaxCommsBuffer' = wMaxCommsBuffer
  <2> DEFINE r == Request(arg, k, wMaxCommsBuffer)
  <2>1. ASSUME NEW s, NEW c, Fail(s, c) PROVE FALSE
    BY <2>1 DEF Fail, End, Return, Run
  <2> QED  BY <2>1 DEF Issue, Held
<1>2. Progress'
  <2>1. Reading'
    BY <1>1 DEF PiecesInv, Progress, Reading, Working
  <2>2. Writing'
    BY <1>1 DEF PiecesInv, Progress, Writing, Working, Fragmented
  <2>3. Signing'
    BY <1>1 DEF PiecesInv, Progress, Signing, Working
  <2>4. Forming'
    BY <1>1 DEF PiecesInv, Progress, Forming, Working
  <2>5. Crypting'
    BY <1>1 DEF PiecesInv, Progress, Crypting, Working, Gain
  <2>6. Summing'
    BY <1>1 DEF PiecesInv, Progress, Summing, Working, Chunk
  <2> QED  BY <2>1, <2>2, <2>3, <2>4, <2>5, <2>6 DEF Progress
<1>3. PiecesAddUp'
  BY <1>1 DEF PiecesAddUp, ReadDelivers, WrittenInOrder, DigestOfAllData, MessageInPieces, SignatureOfChallenge, Succeeded
<1> QED
  BY <1>1, <1>2, <1>3 DEF PiecesInv
-----------------------------------------------------------------------------
(* The device's answers *)

\* While a request is under way.
Asked == MemoryInv /\ pc = "sent"

\* All that is known of the request then.
LEMMA AskedIs ==
  ASSUME Asked
  PROVE  /\ Working /\ Types /\ Runner /\ InBounds /\ Requested /\ Loaded /\ Sent = Parcel /\ ChipOK(chip)
         /\ wMaxCommsBuffer \in Nat /\ wMaxCommsBuffer >= 300 /\ k.done \in Nat /\ k.total \in Nat /\ k.step \in 0..2
         /\ chip.used \in Nat /\ chip.sent \in Nat
<1>1. Working /\ Types /\ Runner /\ InBounds /\ Requested /\ Loaded /\ Sent = Parcel
  BY DEF Asked, MemoryInv, Types, Working, Loaded
<1> QED
  BY <1>1, MaxIs DEF Types, ChipOK

\* What an answer says: the command is not done, or done.
Answering(d) ==
  /\ chip' = d.chip
  /\ call' = call /\ arg' = arg /\ k' = k /\ left' = left /\ chaining' = chaining /\ out' = out
  /\ wMaxCommsBuffer' = wMaxCommsBuffer /\ context' = context /\ fed' = fed
  /\ \/ pc' = "answered" /\ ans' = d.ans /\ d.ans.code = "ok"
     \/ pc' = "failed" /\ ans' = d.ans /\ d.ans.code # "ok"
     \/ pc' = "answered" /\ ans' = [d.ans EXCEPT !.tag = "odd"] /\ arg.cmd \in Crypted \cup {"GetMessage"}
        /\ d.ans.code = "ok"

\* The device may also refuse without saying why.
LEMMA AnsweringIs ==
  ASSUME MemoryInv, DeviceAnswers \/ DeviceMistakes \/ DeviceRefuses
  PROVE  Asked /\ (Answering(Device) \/ Answering(NoAnswer))
<1>1. CASE DeviceAnswers
  BY <1>1 DEF DeviceAnswers, Asked, Answering, Api
<1>2. CASE DeviceMistakes
  BY <1>2 DEF DeviceMistakes, Asked, Answering, Api, Crypted
<1>3. CASE DeviceRefuses
  BY <1>3 DEF DeviceRefuses, Asked, Answering, Api, NoAnswer, Error
<1> QED
  BY <1>1, <1>2, <1>3

\* When it cannot, it changes nothing, and everything is as it was.
LEMMA UnansweredAddsUp ==
  ASSUME Asked, Progress, NEW d, d.chip = chip, d.ans.code # "ok", Answering(d),
         call.api = "read_data" /\ d.ans.code = "bound" /\ k.done # 0 => chip.used <= arg.offset + k.done
  PROVE  Progress'
<1>1. /\ pc = "sent" /\ pc' = "failed" /\ ans' = d.ans
      /\ call' = call /\ arg' = arg /\ k' = k /\ left' = left
      /\ chaining' = chaining /\ out' = out /\ chip' = chip /\ fed' = fed
      /\ wMaxCommsBuffer' = wMaxCommsBuffer
  BY DEF Answering, Asked
<1>2. Working /\ Runner
  BY AskedIs
<1>3. Reading'
  BY <1>1, <1>2 DEF Progress, Reading, Working
<1>4. Writing'
  BY <1>1, <1>2 DEF Progress, Writing, Working, Fragmented
<1>5. Signing'
  BY <1>1, <1>2 DEF Progress, Signing, Working
<1>6. Forming'
  BY <1>1, <1>2 DEF Progress, Forming, Working
<1>7. Crypting'
  BY <1>1, <1>2 DEF Progress, Crypting, Working, Gain
<1>8. Summing'
  BY <1>1, <1>2 DEF Progress, Summing, Working, Chunk
<1> QED
  BY <1>3, <1>4, <1>5, <1>6, <1>7, <1>8 DEF Progress

\* Other calls have nothing to add up.
LEMMA OthersAddUp ==
  ASSUME call'.api = call.api, arg'.cmd = arg.cmd
  PROVE  /\ call.api # "read_data" => Reading'
         /\ call.api # "write_data" => Writing'
         /\ call.api # "signature" => Signing'
         /\ ~(call.api = "message" /\ arg.cmd = "GetMessage") => Forming'
         /\ call.api # "crypto" => Crypting'
         /\ call.api \notin Hashing => Summing'
BY DEF Reading, Writing, Signing, Forming, Crypting, Summing, Hashing

\* A fragment of the object, as much as there is of it.
LEMMA ReadAnswer ==
  ASSUME Asked, Progress, call.api = "read_data", Answering(Device)
  PROVE  Progress'
<1> DEFINE n == Smaller(Smaller(wMaxCommsBuffer - LEN_APDUHEADER, arg.len - k.done), chip.used - (arg.offset + k.done))
           a == [code |-> "ok", len |-> LEN_APDUHEADER + n, from |-> arg.offset + k.done, n |-> n]
<1>1. /\ Runner /\ Working /\ InBounds /\ Requested /\ Sent = Parcel /\ ChipOK(chip) /\ chip.used \in Nat
      /\ wMaxCommsBuffer \in Nat /\ wMaxCommsBuffer >= 300 /\ k.done \in Nat
      /\ arg.cmd = "GetDataObject" /\ ~arg.meta /\ Sized(arg) /\ arg.len \in Nat /\ arg.offset \in Nat
  BY AskedIs, CalledIs DEF Sized
<1>2. k.done # 0 => k.done < arg.len
  BY <1>1 DEF InBounds, Objects
<1>3. n \in Int /\ (k.done # 0 /\ n <= 0 => chip.used <= arg.offset + k.done)
  BY <1>1, <1>2 DEF Smaller, LEN_APDUHEADER
<1>4. Device = NoAnswer \/ Device = IF n <= 0 THEN Done(chip, Error("bound")) ELSE Done(chip, a)
  BY <1>1, DeviceIs, ReadIs
<1> HIDE DEF n
<1>5. CASE Device = NoAnswer \/ (Device = Done(chip, Error("bound")) /\ n <= 0)
  <2>1. /\ Device.chip = chip /\ Device.ans.code # "ok"
        /\ Device.ans.code = "bound" => n <= 0
    BY <1>5 DEF NoAnswer, Done, Error
  <2> QED  BY <1>3, <2>1, UnansweredAddsUp
<1>6. CASE Device = Done(chip, a) /\ n > 0
  <2>1. /\ Device.chip = chip /\ Device.ans = a /\ Device.ans.code = "ok"
    BY <1>6 DEF Done
  <2>2. pc' = "answered" /\ ans' = a
    BY <1>1, <2>1 DEF Answering, Crypted
  <2>3. ans'.len = LEN_APDUHEADER + n /\ ans'.from = arg.offset + k.done /\ ans'.n = n
    BY <2>2
  <2>4. /\ call' = call /\ arg' = arg /\ k' = k /\ out' = out /\ chip' = chip /\ wMaxCommsBuffer' = wMaxCommsBuffer
    BY <2>1 DEF Answering
  <2>5. Reading'
    BY <1>1, <1>6, <2>2, <2>3, <2>4 DEF Progress, Reading, Working, n
  <2> QED  BY <2>4, <2>5, OthersAddUp DEF Progress, Hashing
<1> QED
  BY <1>3, <1>4, <1>5, <1>6

\* A fragment in its place.
LEMMA WriteAnswer ==
  ASSUME Asked, Progress, call.api = "write_data", Answering(Device)
  PROVE  Progress'
<1>1. /\ Types /\ Runner /\ Working /\ InBounds /\ Requested /\ Loaded
      /\ arg.cmd = "SetDataObject"
  BY AskedIs, CalledIs
<1>2. \/ Device.ans.code # "ok" /\ Device.chip = chip
      \/ /\ Device.ans.code = "ok" /\ Device.chip.from = arg.offset
         /\ Device.chip.to = arg.offset + k.done + Fragmented
  BY <1>1, WrittenIs DEF Progress, Asked
<1>3. CASE Device.ans.code # "ok" /\ Device.chip = chip
  BY <1>3, UnansweredAddsUp
<1>4. CASE /\ Device.ans.code = "ok" /\ Device.chip.from = arg.offset
           /\ Device.chip.to = arg.offset + k.done + Fragmented
  <2>1. /\ call' = call /\ arg' = arg /\ k' = k /\ chip' = Device.chip /\ wMaxCommsBuffer' = wMaxCommsBuffer
        /\ pc' = "answered"
    BY <1>1, <1>4 DEF Answering, Crypted
  <2>2. Writing'
    BY <1>4, <2>1 DEF Writing, Working, Fragmented
  <2> QED  BY <2>1, <2>2, OthersAddUp DEF Progress, Hashing
<1> QED
  BY <1>2, <1>3, <1>4

\* The scheme and the challenge are with the device, or the signature is of them.
LEMMA SignAnswer ==
  ASSUME Asked, Progress, call.api = "signature", Answering(Device)
  PROVE  Progress'
<1>1. /\ Runner /\ Working /\ Requested /\ Sent = Parcel /\ ChipOK(chip) /\ k.step \in 0..2
      /\ arg.cmd = "GetSignature" /\ Sized(arg) /\ pc = "sent"
  BY AskedIs, CalledIs DEF Asked
<1>2. /\ k.step > 0 => chip.auth = arg.key
      /\ k.step > 1 => chip.challenge = arg.challenge
  BY <1>1 DEF Progress, Signing
<1> DEFINE z == [code |-> "ok", len |-> LEN_APDUHEADER + 70, of |-> <<chip.auth, chip.challenge>>]
<1>3. \/ Device = NoAnswer
      \/ k.step = 0 /\ Device = Done([chip EXCEPT !.auth = arg.key], Answer(LEN_APDUHEADER))
      \/ k.step = 1 /\ Device = Done([chip EXCEPT !.challenge = arg.challenge], Answer(LEN_APDUHEADER))
      \/ k.step = 2 /\ Device = Done(chip, z)
  BY <1>1, DeviceIs, SigningIs
<1>4. CASE Device = NoAnswer
  <2>1. Device.chip = chip /\ Device.ans.code # "ok"
    BY <1>4 DEF NoAnswer, Error
  <2> QED  BY <2>1, UnansweredAddsUp
<1>5. CASE Device # NoAnswer
  <2>1. /\ Device.ans.code = "ok"
        /\ Device.chip.auth = arg.key
        /\ k.step > 0 => Device.chip.challenge = arg.challenge
        /\ k.step > 1 => Device.ans.of = <<arg.key, arg.challenge>>
    BY <1>1, <1>2, <1>3, <1>5 DEF ChipOK, Done, Answer
  <2>2. /\ call' = call /\ arg' = arg /\ k' = k /\ chip' = Device.chip /\ pc' = "answered" /\ ans' = Device.ans
    BY <1>1, <2>1 DEF Answering, Crypted
  <2>3. Signing'
    BY <1>1, <2>1, <2>2 DEF Signing, Working
  <2> QED  BY <2>2, <2>3, OthersAddUp DEF Progress, Hashing
<1> QED
  BY <1>4, <1>5

\* The next part of a message, which is the last one when it is complete.
LEMMA FormAnswer ==
  ASSUME Asked, Progress, call.api = "message", Answering(Device)
  PROVE  Progress'
<1>1. /\ Runner /\ Working /\ Requested /\ Sent = Parcel /\ ChipOK(chip) /\ k.step \in 0..2 /\ chip.sent \in Nat
      /\ arg.cmd \in {"GetMessage", "PutMessage"} /\ Sized(arg) /\ pc = "sent"
      /\ call' = call /\ arg' = arg
  BY AskedIs, CalledIs DEF Asked, Answering
<1>2. CASE arg.cmd = "PutMessage"
  BY <1>1, <1>2, OthersAddUp DEF Progress, Hashing
<1>3. CASE arg.cmd = "GetMessage" /\ Device = NoAnswer
  <2>1. Device.chip = chip /\ Device.ans.code # "ok"
    BY <1>3 DEF NoAnswer, Error
  <2> QED  BY <1>1, <2>1, UnansweredAddsUp
<1>4. CASE arg.cmd = "GetMessage" /\ Device # NoAnswer
  <2> DEFINE all == MessageLen[arg.message]
             n == Smaller(all - chip.sent, DeviceMax - OVERHEAD_ENCDEC_RESPONSE - 12)
             last == chip.sent + n = all
             tag == IF last THEN "final" ELSE IF chip.sent = 0 THEN "start" ELSE "continue"
             sent == IF last THEN 0 ELSE chip.sent + n
             a == [code |-> "ok", len |-> OVERHEAD_ENCDEC_RESPONSE + 12 + n, tag |-> tag, n |-> n, from |-> chip.sent]
  <2>1. Device = DeviceMessage /\ req.param = arg.message
    BY <1>1, <1>4, DeviceIs, MessageIs
  <2>2. Device.ans = a /\ Device.chip = [chip EXCEPT !.sent = IF last THEN 0 ELSE @ + n]
    BY <2>1 DEF DeviceMessage, Done
  <2>3. Device.chip.sent = sent
    BY <1>1, <2>2 DEF ChipOK
  <2>4. n \in Int
    BY <1>1, <1>4, OptigaAssumption DEF Sized, Smaller, OVERHEAD_ENCDEC_RESPONSE
  <2>5. (tag = "final" <=> last) /\ tag # "odd"
    OBVIOUS
  <2> HIDE DEF n, tag, sent, last
  <2>6. /\ Device.ans.code = "ok" /\ Device.ans.n = n /\ Device.ans.from = chip.sent /\ Device.ans.tag = tag
    BY <2>2
  <2>7. out.n = chip.sent /\ out.whole /\ (k.step = 0 => chip.sent = 0)
    BY <1>1, <1>4 DEF Progress, Forming
  <2>8. /\ k' = k /\ out' = out /\ chip'.sent = sent /\ pc' = "answered"
    BY <1>1, <2>3, <2>6 DEF Answering
  <2>9. \/ ans' = Device.ans
        \/ ans' = [Device.ans EXCEPT !.tag = "odd"]
    BY <2>6 DEF Answering
  <2>10. ans'.tag # "odd" => ans'.n = n /\ ans'.from = chip.sent /\ ans'.tag = tag
    <3>1. ans' = [Device.ans EXCEPT !.tag = "odd"] => ans'.tag = "odd"
      BY <2>2
    <3> QED  BY <2>6, <2>9, <3>1
  <2>11. IF tag = "final" THEN chip.sent + n = all ELSE chip.sent + n = sent
    BY <2>5 DEF last, sent
  <2> HIDE DEF all
  <2>12. Forming'
    <3>1. all = MessageLen[arg.message]
      BY DEF all
    <3> QED  BY <1>1, <1>4, <2>4, <2>7, <2>8, <2>10, <2>11, <3>1 DEF Forming, Working
  <2> QED  BY <1>1, <2>12, OthersAddUp DEF Progress, Hashing
<1> QED
  BY <1>1, <1>2, <1>3, <1>4

\* Encrypted or decrypted, a fragment has gained or lost what its place makes it.
LEMMA CryptoAnswer ==
  ASSUME Asked, Progress, call.api = "crypto", Answering(Device)
  PROVE  Progress'
<1>1. /\ Runner /\ Working /\ Requested /\ InBounds /\ Sent = Parcel /\ k.done \in Nat /\ k.total \in Nat
      /\ wMaxCommsBuffer \in Nat /\ wMaxCommsBuffer >= 300
      /\ arg.cmd \in Crypted /\ Sized(arg) /\ pc = "sent" /\ arg.len \in Nat
      /\ call' = call /\ arg' = arg /\ k' = k /\ out' = out /\ wMaxCommsBuffer' = wMaxCommsBuffer
  BY AskedIs, CalledIs DEF Asked, Answering, Sized, Crypted
<1> DEFINE tag == FragSeq(arg.len, k.done, wMaxCommsBuffer)
           n == Smaller(arg.len - k.done, wMaxPlainText(wMaxCommsBuffer))
           extra == (IF k.done = 0 THEN 8 ELSE 0) + (IF tag = "final" THEN 8 ELSE 0)
           m == IF req.param = "Encrypt" THEN n + extra ELSE n - extra
           a == [code |-> "ok", len |-> OVERHEAD_ENCDEC_RESPONSE + m, tag |-> tag, n |-> m, from |-> k.done]
<1>2. req.param = arg.cmd
  <2>1. req = EncDecHelper(arg, k.done, k.total, wMaxCommsBuffer)
    BY <1>1, RequestIs DEF Requested
  <2> QED  BY <1>1, <2>1, RefuseIs DEF Requested, EncDecHelper, Refused, Apdu
<1>3. Device = NoAnswer \/ Device = Done(chip, a)
  <2>1. DeviceCrypto = IF m <= 0 THEN NoAnswer ELSE Done(chip, a)
    BY <1>1, CryptoIs
  <2> QED  BY <1>1, <2>1, DeviceIs
<1>4. CASE Device = NoAnswer
  <2>1. Device.chip = chip /\ Device.ans.code # "ok"
    BY <1>4 DEF NoAnswer, Error
  <2> QED  BY <1>1, <2>1, UnansweredAddsUp
<1>5. CASE Device = Done(chip, a)
  <2>1. m = n + (IF k.done = 0 THEN Gain ELSE 0) + (IF tag = "final" THEN Gain ELSE 0)
    <3>1. n \in Int
      BY <1>1 DEF Smaller, wMaxPlainText, OVERHEAD_UPDOWNLINK
    <3> HIDE DEF n, tag
    <3> QED  BY <1>1, <1>2, <3>1 DEF Gain, Crypted
  <2> HIDE DEF n, tag, m
  <2>2. Device.ans = a /\ Device.ans.code = "ok" /\ Device.ans.from = k.done /\ Device.ans.n = m /\ Device.ans.tag = tag
    BY <1>5 DEF Done
  <2>3. pc' = "answered"
    BY <2>2 DEF Answering
  <2>4. \/ ans' = Device.ans
        \/ ans' = [Device.ans EXCEPT !.tag = "odd"]
    BY <2>2 DEF Answering
  <2>5. ans'.tag # "odd" => ans'.n = m /\ ans'.from = k.done /\ ans'.tag = tag
    <3>1. ans' = [Device.ans EXCEPT !.tag = "odd"] => ans'.tag = "odd"
      BY <2>2
    <3> QED  BY <2>2, <2>4, <3>1
  <2>6. Gain' = Gain
    BY <1>1 DEF Gain
  <2>7. Crypting'
    BY <1>1, <2>1, <2>3, <2>5, <2>6 DEF Progress, Crypting, Working, n
  <2> QED  BY <1>1, <2>7, OthersAddUp DEF Progress, Hashing
<1> QED
  BY <1>3, <1>4, <1>5

\* What the device hashes: from the context it is brought, or the one it has kept, on.
Bringing == IF arg.sequence = "start" THEN 0
            ELSE IF arg.action \in {"import", "both"} THEN arg.state ELSE chip.hash
Summed == IF arg.host
          THEN IF arg.len = 0 THEN Bringing
               ELSE IF arg.from = Bringing THEN Bringing + arg.len ELSE Scrambled
          ELSE Bringing + arg.len

\* Its answer is of that.
LEMMA HashIs ==
  ASSUME Runner, arg.cmd = "CalcHash", Requested, Sent = Parcel
  PROVE  DeviceHash =
           IF Bringing = NotHashing THEN NoAnswer
           ELSE IF arg.sequence = "final"
           THEN Done([chip EXCEPT !.hash = NotHashing],
                     [code |-> "ok", len |-> LEN_APDUHEADER + LEN_TAG_ENCODING + HASH_LEN, digest |-> Summed])
           ELSE Done([chip EXCEPT !.hash = Summed],
                     IF arg.action \in {"export", "both"}
                     THEN [code |-> "ok", len |-> LEN_APDUHEADER + LEN_TAG_ENCODING + CALC_HASH_SHA256_CONTEXT_SIZE,
                           context |-> Summed]
                     ELSE Answer(LEN_APDUHEADER))
<1>1. HashSized(arg)
  BY ArgIs
<1> DEFINE import == arg.action \in {"import", "both"}
           export == arg.action \in {"export", "both"}
<1>2. Value("sequence") = arg.sequence
  BY <1>1, WholeHash, ToldIs
<1>3. /\ import => Says("import") /\ Value("import") = arg.state
      /\ ~import => ~Says("import")
  <2>1. IF import THEN Tells(Parcel, "import", arg.state, 133) ELSE Silent(Parcel, "import")
    BY <1>1, WholeHash
  <2> QED  BY <2>1, ToldIs DEF Silent, Says
<1>4. /\ export => Says("export")
      /\ ~export => ~Says("export")
  <2>1. IF export THEN Tells(Parcel, "export", 0, 3) ELSE Silent(Parcel, "export")
    BY <1>1, WholeHash
  <2> QED  BY <2>1, ToldIs DEF Silent, Says
<1>5. /\ arg.host => ~Says("oid") /\ (Says("data") <=> arg.len # 0)
      /\ arg.host /\ arg.len # 0 => Value("data") = arg.from /\ Value("inlength") = arg.len
      /\ ~arg.host => ~Says("data") /\ Says("oid") /\ Value("length") = arg.len
  <2>1. IF arg.host
        THEN /\ Silent(Parcel, "oid")
             /\ IF arg.len = 0 THEN Silent(Parcel, "data")
                ELSE Tells(Parcel, "data", arg.from, arg.len) /\ Tells(Parcel, "inlength", arg.len, 2)
        ELSE Silent(Parcel, "data") /\ Tells(Parcel, "oid", arg.oid, 2) /\ Tells(Parcel, "length", arg.len, 2)
    BY <1>1, WholeHash
  <2> QED  BY <2>1, ToldIs DEF Silent, Says
<1> DEFINE before == IF Value("sequence") = "start" THEN 0 ELSE IF Says("import") THEN Value("import") ELSE chip.hash
           after == IF Says("data") THEN IF Value("data") = before THEN before + Value("inlength") ELSE Scrambled
                    ELSE IF Says("oid") THEN before + Value("length") ELSE before
<1>6. before = Bringing
  BY <1>2, <1>3 DEF Bringing
<1>7. after = Summed
  <2> HIDE DEF before
  <2> QED  BY <1>5, <1>6 DEF Summed
<1>8. DeviceHash = IF before = NotHashing THEN NoAnswer
                   ELSE IF Value("sequence") = "final"
                   THEN Done([chip EXCEPT !.hash = NotHashing],
                             [code |-> "ok", len |-> LEN_APDUHEADER + LEN_TAG_ENCODING + HASH_LEN, digest |-> after])
                   ELSE Done([chip EXCEPT !.hash = after],
                             IF Says("export")
                             THEN [code |-> "ok",
                                   len |-> LEN_APDUHEADER + LEN_TAG_ENCODING + CALC_HASH_SHA256_CONTEXT_SIZE,
                                   context |-> after]
                             ELSE Answer(LEN_APDUHEADER))
  BY DEF DeviceHash
<1> HIDE DEF before, after
<1> QED
  BY <1>2, <1>4, <1>6, <1>7, <1>8

\* The digest is of all the data, and so is a context that is given back.
LEMMA HashAnswer ==
  ASSUME Asked, Progress, fed \in Int, call.api \in Hashing, Answering(Device)
  PROVE  Progress'
<1>1. /\ Runner /\ Working /\ Requested /\ Sent = Parcel /\ ChipOK(chip) /\ pc = "sent"
      /\ arg.cmd = "CalcHash" /\ HashSized(arg)
      /\ call' = call /\ arg' = arg /\ left' = left /\ chaining' = chaining /\ fed' = fed /\ out' = out
  BY AskedIs, CalledIs, ArgIs DEF Asked, Answering
<1>2. Device = NoAnswer \/ Device = DeviceHash
  BY <1>1, DeviceIs
<1>3. CASE Device = NoAnswer
  <2>1. Device.chip = chip /\ Device.ans.code # "ok"
    BY <1>3 DEF NoAnswer, Error
  <2>2. call.api # "read_data"
    BY DEF Hashing
  <2> QED  BY <1>1, <2>1, <2>2, UnansweredAddsUp
<1>4. CASE Device # NoAnswer
  <2>1. /\ Device.ans.code = "ok"
        /\ arg.sequence = "final" => /\ "context" \notin DOMAIN Device.ans
                                     /\ "digest" \in DOMAIN Device.ans /\ Device.ans.digest = Summed
        /\ arg.sequence # "final" =>
             /\ "digest" \notin DOMAIN Device.ans /\ Device.chip.hash = Summed
             /\ IF arg.action \in {"export", "both"}
                THEN "context" \in DOMAIN Device.ans /\ Device.ans.context = Summed
                ELSE "context" \notin DOMAIN Device.ans
    <3> DEFINE s == Summed
               c == [chip EXCEPT !.hash = s]
               a == [code |-> "ok", len |-> LEN_APDUHEADER + LEN_TAG_ENCODING + HASH_LEN, digest |-> s]
               b == [code |-> "ok", len |-> LEN_APDUHEADER + LEN_TAG_ENCODING + CALC_HASH_SHA256_CONTEXT_SIZE,
                     context |-> s]
    <3>1. Device = IF arg.sequence = "final" THEN Done([chip EXCEPT !.hash = NotHashing], a)
                   ELSE Done(c, IF arg.action \in {"export", "both"} THEN b ELSE Answer(LEN_APDUHEADER))
      BY <1>1, <1>2, <1>4, HashIs
    <3>2. c.hash = s
      BY <1>1 DEF ChipOK
    <3>3. /\ a.code = "ok" /\ "context" \notin DOMAIN a /\ "digest" \in DOMAIN a /\ a.digest = s
          /\ b.code = "ok" /\ "digest" \notin DOMAIN b /\ "context" \in DOMAIN b /\ b.context = s
          /\ Answer(LEN_APDUHEADER).code = "ok" /\ DOMAIN Answer(LEN_APDUHEADER) = {"code", "len"}
      BY DEF Answer
    <3> HIDE DEF a, b, c, s
    <3> QED  BY <3>1, <3>2, <3>3 DEF Done, s
  <2>2. pc' = "answered" /\ ans' = Device.ans /\ chip' = Device.chip
    BY <1>1, <2>1 DEF Answering, Crypted
  <2>3. Summing
    BY DEF Progress
  <2>4. call.api = "hash_start" => Summed = 0
    BY <1>1, <2>3 DEF Summing, Summed, Bringing
  <2>5. call.api = "hash_finalize" => Summed = fed
    BY <1>1, <2>3 DEF Summing, Summed, Bringing
  <2>6. ASSUME call.api = "hash_update" PROVE Chunk'
    <3>1. Chunk /\ arg.len \in Nat
      BY <1>1, <2>3, <2>6 DEF Summing, HashSized
    <3>2. IF chaining THEN arg.host /\ Summed = arg.from + arg.len ELSE Summed = fed + call.size
      <4>1. /\ left \in Nat /\ arg.from \in Int /\ call.size \in Nat /\ arg.len \in Nat
            /\ arg.action \in {"import", "export", "both", "none"}
        BY <1>1, <3>1, AskedIs DEF Types, Chunk, HashSized
      <4>2. Bringing = IF arg.host THEN arg.from ELSE fed
        BY <1>1, <3>1, <4>1 DEF Chunk, Bringing
      <4>3. Summed = IF arg.host THEN arg.from + arg.len ELSE fed + arg.len
        BY <4>1, <4>2 DEF Summed
      <4>4. chaining => arg.host
        BY <3>1, <4>1 DEF Chunk
      <4>5. ~chaining => arg.len = left
        BY <3>1 DEF Chunk
      <4>6. IF arg.host THEN arg.from + left = fed + call.size ELSE left = call.size
        BY <3>1 DEF Chunk
      <4> QED  BY <4>1, <4>3, <4>4, <4>5, <4>6
    <3>3. arg.sequence # "final" /\ (chaining <=> arg.action \notin {"export", "both"})
      BY <1>1, <3>1 DEF Chunk, HashSized
    <3> QED  BY <1>1, <2>1, <2>2, <3>1, <3>2, <3>3 DEF Chunk
  <2>7. Summing'
    BY <1>1, <2>1, <2>2, <2>3, <2>4, <2>5, <2>6 DEF Summing, Working
  <2> QED  BY <1>1, <2>7, OthersAddUp DEF Progress, Hashing
<1> QED
  BY <1>3, <1>4

\* Whatever the device answers.
LEMMA AnsweredAddsUp ==
  ASSUME MemoryInv, PiecesInv, DeviceAnswers \/ DeviceMistakes \/ DeviceRefuses
  PROVE  PiecesInv'
<1>1. Asked /\ (Answering(Device) \/ Answering(NoAnswer)) /\ Progress /\ fed \in Int
  BY AnsweringIs DEF PiecesInv
<1>2. /\ pc' # "done" /\ context' = context /\ fed' = fed /\ call' = call /\ arg' = arg
  BY <1>1 DEF Answering
<1>3. Progress'
  <2>1. CASE Answering(NoAnswer)
    <3>1. NoAnswer.chip = chip /\ NoAnswer.ans.code = "other"
      BY DEF NoAnswer, Error
    <3> QED  BY <1>1, <2>1, <3>1, UnansweredAddsUp
  <2>2. CASE Answering(Device) /\ call.api = "read_data"
    BY <1>1, <2>2, ReadAnswer
  <2>3. CASE Answering(Device) /\ call.api = "write_data"
    BY <1>1, <2>3, WriteAnswer
  <2>4. CASE Answering(Device) /\ call.api = "signature"
    BY <1>1, <2>4, SignAnswer
  <2>5. CASE Answering(Device) /\ call.api = "message"
    BY <1>1, <2>5, FormAnswer
  <2>6. CASE Answering(Device) /\ call.api = "crypto"
    BY <1>1, <2>6, CryptoAnswer
  <2>7. CASE Answering(Device) /\ call.api \in Hashing
    BY <1>1, <2>7, HashAnswer
  <2>8. CASE call.api \notin Hashing \cup {"read_data", "write_data", "signature", "message", "crypto"}
    BY <1>2, <2>8, OthersAddUp DEF Progress
  <2> QED  BY <1>1, <2>1, <2>2, <2>3, <2>4, <2>5, <2>6, <2>7, <2>8
<1>4. PiecesAddUp'
  BY <1>2 DEF PiecesAddUp, ReadDelivers, WrittenInOrder, DigestOfAllData, MessageInPieces, SignatureOfChallenge, Succeeded
<1> QED
  BY <1>1, <1>2, <1>3, <1>4 DEF PiecesInv
-----------------------------------------------------------------------------
(* What the command library makes of the answers *)

\* A call is over with all it was asked for.
LEMMA WonIs ==
  ASSUME pc' = "done", context' = fed', fed' \in Int,
         call'.api = "read_data" => ReadDelivers', call'.api = "write_data" => WrittenInOrder',
         call'.api = "hash_finalize" => DigestOfAllData', call'.api \in {"message", "crypto"} => MessageInPieces',
         call'.api = "signature" => SignatureOfChallenge'
  PROVE  PiecesInv'
<1>1. ~Working'
  BY DEF Working
<1>2. Progress'
  BY <1>1 DEF Progress, Reading, Writing, Signing, Forming, Crypting, Summing
<1>3. PiecesAddUp'
  BY DEF PiecesAddUp, ReadDelivers, WrittenInOrder, DigestOfAllData, MessageInPieces, SignatureOfChallenge, Succeeded
<1> QED
  BY <1>2, <1>3 DEF PiecesInv

\* A call goes on.
LEMMA OnIs ==
  ASSUME pc' = "issue", context' = fed', fed' \in Int, Progress'
  PROVE  PiecesInv'
BY DEF PiecesInv, PiecesAddUp, ReadDelivers, WrittenInOrder, DigestOfAllData, MessageInPieces, SignatureOfChallenge,
       Succeeded

\* While an answer is there to be taken.
Taking == MemoryInv /\ PiecesInv /\ pc = "answered" /\ Held /\ UNCHANGED chip

\* All that is known of the answer then.
LEMMA TakingIs ==
  ASSUME Taking
  PROVE  /\ Working /\ Types /\ Runner /\ InBounds /\ Answered /\ ChipOK(chip) /\ pc = "answered"
         /\ wMaxCommsBuffer \in Nat /\ wMaxCommsBuffer >= 300 /\ k.done \in Nat /\ k.total \in Nat /\ k.step \in 0..2
         /\ chip.used \in Nat /\ chip.sent \in Nat
         /\ call' = call /\ wMaxCommsBuffer' = wMaxCommsBuffer /\ chip' = chip
         /\ context = fed /\ fed \in Int /\ Progress
<1>1. Working /\ Types /\ Runner /\ InBounds /\ Answered /\ pc = "answered"
  BY DEF Taking, MemoryInv, Types, Working
<1> QED
  BY <1>1, MaxIs DEF Types, ChipOK, Taking, Held, PiecesInv

\* A fragment of an object is appended.
LEMMA ReadTaken ==
  ASSUME Taking, call.api = "read_data", TakeData
  PROVE  PiecesInv'
<1> DEFINE len == ans.len - LEN_APDUHEADER
           total == k.done + len
           wReadLen == IF arg.meta THEN 0 ELSE Smaller(wMaxCommsBuffer - LEN_APDUHEADER, arg.len - k.done)
<1>1. /\ Working /\ Runner /\ InBounds /\ pc = "answered"
      /\ wMaxCommsBuffer \in Nat /\ wMaxCommsBuffer >= 300 /\ k.done \in Nat /\ chip.used \in Nat
      /\ call' = call /\ chip' = chip /\ wMaxCommsBuffer' = wMaxCommsBuffer
      /\ context = fed /\ fed \in Int /\ context' = context
      /\ arg = call.arg /\ arg.cmd = "GetDataObject" /\ ~arg.meta
      /\ arg.len \in Nat /\ arg.offset \in Nat /\ arg.room \in Nat
  BY TakingIs, CalledIs DEF Sized, TakeData, Simply
<1>2. /\ out.n = k.done /\ out.whole /\ k.done <= arg.room /\ k.done <= arg.len
      /\ ans.from = arg.offset + k.done /\ ans.len = LEN_APDUHEADER + ans.n /\ ans.n > 0
      /\ ans.n = Smaller(wReadLen, chip.used - (arg.offset + k.done))
  BY <1>1, TakingIs DEF Progress, Reading
<1>3. /\ wReadLen \in Int /\ wReadLen <= arg.len - k.done
  BY <1>1 DEF Smaller, LEN_APDUHEADER
<1> HIDE DEF wReadLen
<1>4. /\ len = ans.n /\ len \in Int /\ len > 0 /\ len <= arg.len - k.done /\ arg.offset + total <= chip.used
      /\ wReadLen # len => arg.offset + total = chip.used
  BY <1>1, <1>2, <1>3 DEF Smaller, LEN_APDUHEADER
<1>5. \/ arg.room - k.done < len /\ Fail("memory", "none")
      \/ ~(arg.room - k.done < len) /\ out' = Appended(len, ans.from - arg.offset) /\ total # arg.len /\ wReadLen = len
         /\ Again(total, 0)
      \/ ~(arg.room - k.done < len) /\ out' = Appended(len, ans.from - arg.offset)
         /\ ~(total # arg.len /\ wReadLen = len) /\ End("ok")
  BY <1>1 DEF TakeData, wReadLen
<1> HIDE DEF len
<1>6. CASE Fail("memory", "none")
  <2>1. End("memory") /\ out' = NoOut
    BY <1>1, <1>6 DEF Fail
  <2>2. pc' = "done" /\ ret' # "success" /\ fed' = fed
    BY <2>1, FailedIs
  <2> QED  BY <1>1, <2>1, <2>2, LostIs DEF NoOut
<1>7. CASE ~(arg.room - k.done < len) /\ out' = Appended(len, ans.from - arg.offset)
  <2>1. total \in Nat /\ total > 0 /\ total <= arg.room /\ total <= arg.len
    BY <1>1, <1>4, <1>7
  <2>2. out'.n = total /\ out'.whole
    <3>1. ans.from - arg.offset = out.n
      BY <1>1, <1>2
    <3> QED  BY <1>2, <1>7, <3>1 DEF Appended
  <2> HIDE DEF total
  <2>3. CASE Again(total, 0)
    <3>1. /\ pc' = "issue" /\ k' = [step |-> Smaller(k.step + 1, 2), done |-> total, total |-> 0] /\ arg' = arg
          /\ fed' = fed
      BY <2>3 DEF Again
    <3>2. k'.done = total
      BY <3>1
    <3>3. Reading'
      BY <1>1, <1>4, <2>1, <2>2, <3>1, <3>2 DEF Reading, Working
    <3>4. Progress'
      BY <1>1, <3>1, <3>3, OthersAddUp DEF Progress, Hashing
    <3> QED  BY <1>1, <3>1, <3>4, OnIs
  <2>4. CASE ~(total # arg.len /\ wReadLen = len) /\ End("ok")
    <3>1. pc' = "done" /\ ret' = "success" /\ fed' = fed
      BY <1>1, <2>4, EndedIs DEF Hashing
    <3>2. total = Smaller(arg.len, chip.used - arg.offset)
      BY <1>1, <1>4, <2>1, <2>4 DEF Smaller
    <3>3. ReadDelivers'
      BY <1>1, <2>1, <2>2, <3>1, <3>2 DEF ReadDelivers
    <3> QED  BY <1>1, <3>1, <3>3, WonIs
  <2> QED  BY <1>5, <1>6, <1>7, <2>3, <2>4
<1> QED
  BY <1>5, <1>6, <1>7

\* A fragment is in its place.
LEMMA WriteTaken ==
  ASSUME Taking, call.api = "write_data", TakeWritten
  PROVE  PiecesInv'
<1> DEFINE done == k.done + Fragmented
<1>1. /\ Working /\ Runner /\ InBounds /\ pc = "answered"
      /\ wMaxCommsBuffer \in Nat /\ wMaxCommsBuffer >= 300 /\ k.done \in Nat
      /\ call' = call /\ chip' = chip /\ wMaxCommsBuffer' = wMaxCommsBuffer
      /\ context = fed /\ fed \in Int /\ context' = context
      /\ arg = call.arg /\ arg.cmd = "SetDataObject" /\ arg.len \in Nat /\ arg.offset \in Nat
  BY TakingIs, CalledIs DEF Sized, TakeWritten, Simply
<1>2. chip.from = arg.offset /\ chip.to = arg.offset + k.done + Fragmented
  BY <1>1, TakingIs DEF Progress, Writing
<1>3. Fragmented \in Int /\ (k.done = 0 => Fragmented >= 0) /\ (k.done < arg.len => Fragmented > 0)
  BY <1>1 DEF Fragmented, Smaller
<1>4. done \in Nat
  BY <1>1, <1>3 DEF InBounds, Objects
<1>5. (Again(done, 0) /\ done # arg.len) \/ (End("ok") /\ done = arg.len)
  BY DEF TakeWritten, Fragmented
<1>6. CASE Again(done, 0) /\ done # arg.len
  <2>1. /\ pc' = "issue" /\ k' = [step |-> Smaller(k.step + 1, 2), done |-> done, total |-> 0] /\ arg' = arg
        /\ fed' = fed
    BY <1>6 DEF Again
  <2>2. chip.to = arg.offset + done
    BY <1>1, <1>2, <1>3
  <2> HIDE DEF done
  <2>3. k'.done = done
    BY <2>1
  <2>4. Writing'
    BY <1>1, <1>2, <1>4, <2>1, <2>2, <2>3 DEF Writing, Working
  <2>5. Progress'
    BY <1>1, <2>1, <2>4, OthersAddUp DEF Progress, Hashing
  <2> QED  BY <1>1, <2>1, <2>5, OnIs
<1>7. CASE End("ok") /\ done = arg.len
  <2>1. pc' = "done" /\ ret' = "success" /\ fed' = fed
    BY <1>1, <1>7, EndedIs DEF Hashing
  <2>2. chip.to = arg.offset + arg.len
    BY <1>1, <1>2, <1>3, <1>7
  <2>3. WrittenInOrder'
    BY <1>1, <2>1, <2>2 DEF WrittenInOrder
  <2> QED  BY <1>1, <2>1, <2>3, WonIs
<1> QED
  BY <1>5, <1>6, <1>7

\* The next of the three requests, or the signature.
LEMMA SignTaken ==
  ASSUME Taking, call.api = "signature", TakeSignature
  PROVE  PiecesInv'
<1> DEFINE len == ans.len - LEN_APDUHEADER
<1>1. /\ Working /\ Runner /\ pc = "answered" /\ k.step \in 0..2 /\ ans.len \in Int
      /\ call' = call /\ chip' = chip /\ context = fed /\ fed \in Int /\ context' = context
      /\ arg = call.arg /\ arg.cmd = "GetSignature" /\ arg.room \in Nat
  BY TakingIs, CalledIs DEF Sized, TakeSignature, Answered, Simply
<1>2. /\ chip.auth = arg.key
      /\ k.step > 0 => chip.challenge = arg.challenge
      /\ k.step > 1 => ans.of = <<arg.key, arg.challenge>>
  BY <1>1, TakingIs DEF Progress, Signing
<1>3. \/ k.step < 2 /\ Again(0, 0)
      \/ End("memory")
      \/ /\ ~(k.step < 2) /\ ~(arg.room < len) /\ End("ok")
         /\ out' = [n |-> len, whole |-> ans.of = <<arg.key, arg.challenge>>]
  BY DEF TakeSignature
<1>4. CASE k.step < 2 /\ Again(0, 0)
  <2>1. /\ pc' = "issue" /\ k' = [step |-> Smaller(k.step + 1, 2), done |-> 0, total |-> 0] /\ arg' = arg
        /\ fed' = fed
    BY <1>4 DEF Again
  <2>2. k'.step = k.step + 1
    BY <1>1, <1>4, <2>1 DEF Smaller
  <2>3. Signing'
    BY <1>1, <1>2, <2>1, <2>2 DEF Signing, Working
  <2>4. Progress'
    BY <1>1, <2>1, <2>3, OthersAddUp DEF Progress, Hashing
  <2> QED  BY <1>1, <2>1, <2>4, OnIs
<1>5. CASE End("memory")
  <2>1. pc' = "done" /\ ret' # "success" /\ fed' = fed
    BY <1>5, FailedIs
  <2> QED  BY <1>1, <2>1, LostIs
<1>6. CASE /\ ~(k.step < 2) /\ ~(arg.room < len) /\ End("ok")
           /\ out' = [n |-> len, whole |-> ans.of = <<arg.key, arg.challenge>>]
  <2>1. pc' = "done" /\ ret' = "success" /\ fed' = fed
    BY <1>1, <1>6, EndedIs DEF Hashing
  <2>2. out'.whole = (ans.of = <<arg.key, arg.challenge>>) /\ out'.n = len
    BY <1>6
  <2>3. ans.of = <<arg.key, arg.challenge>> /\ len <= arg.room
    BY <1>1, <1>2, <1>6 DEF LEN_APDUHEADER
  <2>4. SignatureOfChallenge'
    BY <1>1, <2>2, <2>3 DEF SignatureOfChallenge
  <2> QED  BY <1>1, <2>1, <2>4, WonIs
<1> QED
  BY <1>3, <1>4, <1>5, <1>6

\* A part of a message.
LEMMA FormTaken ==
  ASSUME Taking, call.api = "message", TakeMessage
  PROVE  PiecesInv'
<1>1. /\ Working /\ Runner /\ pc = "answered" /\ k.step \in 0..2
      /\ call' = call /\ chip' = chip /\ context = fed /\ fed \in Int /\ context' = context
      /\ arg = call.arg /\ arg.cmd = "GetMessage"
  BY TakingIs, CalledIs DEF TakeMessage, Simply
<1>2. \/ \E s : s \notin {"ok", "success"} /\ End(s)
      \/ /\ ans.tag # "odd" /\ out' = Appended(ans.n, IF k.step = 0 THEN 0 ELSE ans.from)
         /\ IF ans.tag = "final" THEN End("ok") ELSE Again(0, 0)
  BY DEF TakeMessage
<1>3. CASE \E s : s \notin {"ok", "success"} /\ End(s)
  <2>1. pc' = "done" /\ ret' # "success" /\ fed' = fed
    BY <1>3, FailedIs
  <2> QED  BY <1>1, <2>1, LostIs
<1>4. CASE /\ ans.tag # "odd" /\ out' = Appended(ans.n, IF k.step = 0 THEN 0 ELSE ans.from)
           /\ IF ans.tag = "final" THEN End("ok") ELSE Again(0, 0)
  <2>1. /\ out.whole /\ ans.from = out.n /\ (k.step = 0 => out.n = 0) /\ ans.n \in Int /\ out.n \in Nat
        /\ IF ans.tag = "final" THEN out.n + ans.n = MessageLen[arg.message]
           ELSE out.n + ans.n = chip.sent
    BY <1>1, <1>4, TakingIs DEF Progress, Forming
  <2>2. out'.n = out.n + ans.n /\ out'.whole
    BY <1>4, <2>1 DEF Appended
  <2>3. CASE ans.tag = "final"
    <3>1. pc' = "done" /\ ret' = "success" /\ fed' = fed
      BY <1>1, <1>4, <2>3, EndedIs DEF Hashing
    <3>2. MessageInPieces'
      BY <1>1, <2>1, <2>2, <2>3 DEF MessageInPieces, Succeeded
    <3> QED  BY <1>1, <3>1, <3>2, WonIs
  <2>4. CASE ans.tag # "final"
    <3>1. /\ pc' = "issue" /\ k' = [step |-> Smaller(k.step + 1, 2), done |-> 0, total |-> 0] /\ arg' = arg
          /\ fed' = fed
      BY <1>4, <2>4 DEF Again
    <3>2. k'.step # 0
      BY <1>1, <3>1 DEF Smaller
    <3>3. Forming'
      BY <1>1, <2>1, <2>2, <2>4, <3>1, <3>2 DEF Forming, Working
    <3>4. Progress'
      BY <1>1, <3>1, <3>3, OthersAddUp DEF Progress, Hashing
    <3> QED  BY <1>1, <3>1, <3>4, OnIs
  <2> QED  BY <2>3, <2>4
<1> QED
  BY <1>2, <1>3, <1>4

\* A fragment that was encrypted or decrypted.
LEMMA CryptoTaken ==
  ASSUME Taking, call.api = "crypto", TakeCrypto
  PROVE  PiecesInv'
<1> DEFINE m == wMaxPlainText(wMaxCommsBuffer)
           tag == FragSeq(arg.len, k.done, wMaxCommsBuffer)
           n == Smaller(arg.len - k.done, m)
           done == k.done + n
           total == k.total + ans.n
<1>1. /\ Working /\ Runner /\ InBounds /\ pc = "answered"
      /\ wMaxCommsBuffer \in Nat /\ wMaxCommsBuffer >= 300 /\ k.done \in Nat /\ k.total \in Nat
      /\ call' = call /\ chip' = chip /\ wMaxCommsBuffer' = wMaxCommsBuffer
      /\ context = fed /\ fed \in Int /\ context' = context
      /\ arg = call.arg /\ arg.cmd \in Crypted /\ arg.len \in Nat
  BY TakingIs, CalledIs DEF Sized, TakeCrypto, Simply, Crypted
<1>2. \/ End("tag")
      \/ ans.tag = tag /\ out' = [n |-> out.n + ans.n, whole |-> out.whole /\ ans.from = k.done]
         /\ done # arg.len /\ Again(done, total)
      \/ ans.tag = tag /\ out' = [n |-> out.n + ans.n, whole |-> out.whole /\ ans.from = k.done]
         /\ done = arg.len /\ End("ok")
  BY DEF TakeCrypto
<1>3. CASE End("tag")
  <2>1. pc' = "done" /\ ret' # "success" /\ fed' = fed
    BY <1>3, FailedIs
  <2> QED  BY <1>1, <2>1, LostIs
<1>4. CASE ans.tag = tag /\ out' = [n |-> out.n + ans.n, whole |-> out.whole /\ ans.from = k.done]
  <2>1. m \in Nat /\ m >= 1
    BY <1>1 DEF wMaxPlainText, OVERHEAD_UPDOWNLINK
  <2>2. tag # "odd" /\ (tag = "final" <=> arg.len - k.done <= m)
    BY DEF FragSeq
  <2>3. k.done = 0 \/ k.done < arg.len
    <3>1. Requested
      BY <1>1 DEF Taking, MemoryInv
    <3>2. k.done \in Cuts(arg.len, wMaxCommsBuffer)
      <4>1. Sized(arg)
        BY <1>1, CalledIs
      <4> QED  BY <1>1, <3>1, <4>1, WholeCrypto
    <3> QED  BY <1>1, <3>2, FragmentIs
  <2>4. /\ out.n = k.total /\ out.whole
        /\ k.total = k.done + (IF k.done = 0 THEN 0 ELSE Gain)
        /\ ans.from = k.done
        /\ ans.n = n + (IF k.done = 0 THEN Gain ELSE 0) + (IF tag = "final" THEN Gain ELSE 0)
    BY <1>1, <1>4, <2>2, TakingIs DEF Progress, Crypting
  <2>5. Gain \in Int /\ n \in Int
    BY <1>1, <2>1 DEF Gain, Smaller
  <2>6. total = k.done + n + Gain + (IF tag = "final" THEN Gain ELSE 0)
    <3> HIDE DEF n, tag
    <3> QED  BY <1>1, <2>4, <2>5
  <2>7. out'.n = total /\ out'.whole
    BY <1>4, <2>4
  <2>8. /\ n = IF tag = "final" THEN arg.len - k.done ELSE m
    <3> HIDE DEF tag, m
    <3> QED  BY <1>1, <2>1, <2>2 DEF Smaller
  <2> HIDE DEF n, tag, total
  <2>9. CASE done # arg.len /\ Again(done, total)
    <3>1. /\ pc' = "issue" /\ k' = [step |-> Smaller(k.step + 1, 2), done |-> done, total |-> total] /\ arg' = arg
          /\ fed' = fed
      BY <2>9 DEF Again
    <3>2. tag # "final"
      BY <1>1, <2>8, <2>9
    <3>3. done # 0 /\ total = done + Gain
      BY <1>1, <2>1, <2>5, <2>6, <2>8, <3>2
    <3> HIDE DEF done
    <3>4. k'.done = done /\ k'.total = total
      BY <3>1
    <3>5. Gain' = Gain
      BY <3>1 DEF Gain
    <3>6. Crypting'
      BY <1>1, <2>7, <3>1, <3>3, <3>4, <3>5 DEF Crypting, Working
    <3>7. Progress'
      BY <1>1, <3>1, <3>6, OthersAddUp DEF Progress, Hashing
    <3> QED  BY <1>1, <3>1, <3>7, OnIs
  <2>10. CASE done = arg.len /\ End("ok")
    <3>1. pc' = "done" /\ ret' = "success" /\ fed' = fed
      BY <1>1, <2>10, EndedIs DEF Hashing
    <3>2. tag = "final"
      BY <1>1, <2>1, <2>2, <2>8, <2>10
    <3>3. total = arg.len + Gain + Gain
      BY <1>1, <2>5, <2>6, <2>10, <3>2
    <3>4. Gain + Gain = IF arg.cmd = "Encrypt" THEN 16 ELSE 0 - 16
      BY DEF Gain
    <3>5. out'.n = arg.len + IF arg.cmd = "Encrypt" THEN 16 ELSE 0 - 16
      <4>1. total = arg.len + (Gain + Gain)
        BY <1>1, <2>5, <3>3
      <4> QED  BY <2>7, <3>4, <4>1
    <3>6. MessageInPieces'
      BY <1>1, <2>7, <3>5 DEF MessageInPieces, Succeeded
    <3> QED  BY <1>1, <3>1, <3>6, WonIs
  <2> QED  BY <1>2, <1>3, <1>4, <2>9, <2>10 DEF total
<1> QED
  BY <1>2, <1>3, <1>4

\* A chunk is hashed, or all of them are.
LEMMA HashTaken ==
  ASSUME Taking, call.api \in Hashing, TakeHash
  PROVE  PiecesInv'
<1>1. /\ Working /\ Types /\ Runner /\ pc = "answered" /\ wMaxCommsBuffer \in {Unknown, DeviceMax}
      /\ call' = call /\ chip' = chip /\ wMaxCommsBuffer' = wMaxCommsBuffer
      /\ context = fed /\ fed \in Int /\ left \in Nat
      /\ arg.cmd = "CalcHash" /\ HashSized(arg) /\ arg.len \in Nat /\ End("ok")
      /\ out' = (IF "digest" \in DOMAIN ans THEN [n |-> HASH_LEN, whole |-> ans.digest = fed] ELSE out)
      /\ context' = (IF "context" \in DOMAIN ans THEN ans.context ELSE context)
  BY TakingIs, CalledIs, ArgIs DEF Types, TakeHash, HashSized
<1>2. Summing
  BY TakingIs DEF Progress
<1>3. CASE call.api = "hash_update" /\ chaining
  <2> DEFINE size == left - arg.len
             next == NextChunk(size)
             a == HashArg("continue", next.action, TRUE, next.len, arg.from + arg.len)
  <2>1. /\ Chunk /\ arg.len <= left
    BY <1>1, <1>2, <1>3 DEF Summing, Types
  <2>2. Run(a) /\ left' = size /\ chaining' = next.chaining /\ fed' = fed
    BY <1>1, <1>3 DEF End
  <2>3. /\ arg.host /\ "context" \notin DOMAIN ans /\ chip.hash = arg.from + arg.len
        /\ call.size \in Nat /\ arg.from \in Int /\ arg.from + left = fed + call.size
    BY <1>1, <1>3, <2>1 DEF Chunk
  <2>4. size \in Nat
    BY <1>1, <2>1
  <2>5. next.len \in Nat /\ next.action \in {"none", "export"}
    BY <1>1, <2>4, ChunkIs
  <2>6. /\ next.chaining \in BOOLEAN /\ (next.chaining <=> next.action = "none") /\ (~next.chaining => next.len = size)
    BY DEF NextChunk
  <2> HIDE DEF next, size
  <2>7. /\ a.sequence = "continue" /\ a.action = next.action /\ a.host /\ a.len = next.len /\ a.cmd = "CalcHash"
        /\ a.from = arg.from + arg.len
    BY DEF HashArg
  <2> HIDE DEF a
  <2>8. pc' = "issue" /\ arg' = a
    BY <2>2 DEF Run
  <2>9. Chunk'
    <3>1. a.from \in Int /\ a.from + left' = fed + call.size
      BY <1>1, <2>2, <2>3, <2>7 DEF size
    <3> QED  BY <1>1, <2>2, <2>3, <2>5, <2>6, <2>7, <2>8, <3>1 DEF Chunk
  <2>10. Summing'
    BY <1>1, <1>3, <2>8, <2>9 DEF Summing
  <2>11. Progress'
    BY <1>1, <2>7, <2>8, <2>10, OthersAddUp DEF Progress, Hashing
  <2>12. context' = fed' /\ fed' \in Int
    BY <1>1, <2>2, <2>3
  <2> QED  BY <2>8, <2>11, <2>12, OnIs
<1>4. CASE ~(call.api = "hash_update" /\ chaining)
  <2>1. /\ pc' = "done"
        /\ fed' = CASE call.api = "hash_start" -> 0
                    [] call.api = "hash_update" -> fed + call.size
                    [] OTHER -> fed
    BY <1>1, <1>4 DEF End, Return
  <2>2. CASE call.api = "hash_start"
    <3>1. "digest" \notin DOMAIN ans /\ "context" \in DOMAIN ans /\ ans.context = 0
      BY <1>1, <1>2, <2>2 DEF Summing
    <3>2. fed' = 0 /\ context' = 0
      BY <1>1, <2>1, <2>2, <3>1
    <3> QED  BY <1>1, <2>1, <2>2, <3>2, WonIs
  <2>3. CASE call.api = "hash_update"
    <3>1. Chunk /\ ~chaining
      BY <1>1, <1>2, <1>4, <2>3 DEF Summing
    <3>2. "context" \in DOMAIN ans /\ ans.context = fed + call.size /\ call.size \in Nat
      BY <1>1, <3>1 DEF Chunk
    <3>3. fed' = fed + call.size
      BY <2>1, <2>3
    <3>4. context' = fed' /\ fed' \in Int
      BY <1>1, <3>2, <3>3
    <3> QED  BY <1>1, <2>1, <2>3, <3>4, WonIs
  <2>4. CASE call.api = "hash_finalize"
    <3>1. "context" \notin DOMAIN ans /\ "digest" \in DOMAIN ans /\ ans.digest = fed
      BY <1>1, <1>2, <2>4 DEF Summing
    <3>2. fed' = fed /\ context' = context
      BY <1>1, <2>1, <2>4, <3>1
    <3>3. out'.n = HASH_LEN /\ out'.whole
      BY <1>1, <3>1
    <3>4. DigestOfAllData'
      BY <3>3 DEF DigestOfAllData
    <3> QED  BY <1>1, <2>1, <2>4, <3>2, <3>4, WonIs
  <2> QED  BY <2>2, <2>3, <2>4 DEF Hashing
<1> QED
  BY <1>3, <1>4

\* The calls of which one command is the whole, and those that have nothing to add up.
LEMMA OtherTaken ==
  ASSUME Taking, Take, call.api \notin Hashing \cup {"read_data", "write_data", "signature", "crypto"},
         call.api = "message" => arg.cmd = "PutMessage"
  PROVE  PiecesInv'
<1>1. /\ Runner /\ call' = call /\ context = fed /\ fed \in Int /\ arg.cmd # "CalcHash"
  BY TakingIs, CalledIs
<1>2. context' = context
  BY <1>1 DEF Take, TakeData, TakeWritten, TakeSignature, TakeHash, TakeKeys, TakeValue, TakeMessage, TakeCrypto,
              TakeNothing, Simply
<1>3. ASSUME NEW s, End(s) PROVE fed' = fed
  BY <1>1, <1>3 DEF End, Hashing
<1>4. \/ \E s : End(s)
      \/ \E d, t : Again(d, t)
  BY DEF Take, TakeData, TakeWritten, TakeSignature, TakeHash, TakeKeys, TakeValue, TakeMessage, TakeCrypto,
         TakeNothing, Fail
<1>5. fed' = fed
  BY <1>3, <1>4 DEF Again
<1>6. CASE call.api = "message"
  <2>1. End("ok")
    BY <1>6 DEF Take, TakeData, TakeWritten, TakeSignature, TakeHash, TakeKeys, TakeValue, TakeMessage, TakeCrypto,
                TakeNothing
  <2>2. pc' = "done" /\ arg = call.arg
    BY <1>1, <1>6, <2>1, EndedIs, CalledIs DEF Hashing
  <2>3. MessageInPieces'
    BY <1>1, <1>6, <2>2 DEF MessageInPieces, Succeeded
  <2> QED  BY <1>1, <1>2, <1>5, <1>6, <2>2, <2>3, WonIs
<1>7. CASE call.api # "message"
  <2>1. Progress'
    BY <1>1, <1>7 DEF Progress, Reading, Writing, Signing, Forming, Crypting, Summing, Hashing
  <2>2. PiecesAddUp'
    BY <1>1, <1>7 DEF PiecesAddUp, ReadDelivers, WrittenInOrder, DigestOfAllData, MessageInPieces,
                      SignatureOfChallenge, Succeeded, Hashing
  <2> QED  BY <1>1, <1>2, <1>5, <2>1, <2>2 DEF PiecesInv
<1> QED
  BY <1>6, <1>7

\* Whatever the command.
LEMMA TakenAddsUp ==
  ASSUME MemoryInv, PiecesInv, Take
  PROVE  PiecesInv'
<1>1. Taking /\ Runner
  BY TakingIs DEF Take, Taking
<1>2. \/ TakeData \/ TakeWritten \/ TakeSignature \/ TakeHash \/ TakeKeys
      \/ TakeValue \/ TakeMessage \/ TakeCrypto \/ TakeNothing
  BY DEF Take
<1>3. CASE call.api = "read_data"
  <2>1. arg.cmd = "GetDataObject"
    BY <1>1, <1>3, CalledIs
  <2>2. TakeData
    BY <1>2, <2>1 DEF TakeWritten, TakeSignature, TakeHash, TakeKeys, TakeValue, TakeMessage, TakeCrypto, TakeNothing
  <2> QED  BY <1>1, <1>3, <2>2, ReadTaken
<1>4. CASE call.api = "write_data"
  <2>1. arg.cmd = "SetDataObject"
    BY <1>1, <1>4, CalledIs
  <2>2. TakeWritten
    BY <1>2, <2>1 DEF TakeData, TakeSignature, TakeHash, TakeKeys, TakeValue, TakeMessage, TakeCrypto, TakeNothing
  <2> QED  BY <1>1, <1>4, <2>2, WriteTaken
<1>5. CASE call.api = "signature"
  <2>1. arg.cmd = "GetSignature"
    BY <1>1, <1>5, CalledIs
  <2>2. TakeSignature
    BY <1>2, <2>1 DEF TakeData, TakeWritten, TakeHash, TakeKeys, TakeValue, TakeMessage, TakeCrypto, TakeNothing
  <2> QED  BY <1>1, <1>5, <2>2, SignTaken
<1>6. CASE call.api = "message" /\ arg.cmd = "GetMessage"
  <2>1. TakeMessage
    BY <1>2, <1>6 DEF TakeData, TakeWritten, TakeSignature, TakeHash, TakeKeys, TakeValue, TakeCrypto, TakeNothing
  <2> QED  BY <1>1, <1>6, <2>1, FormTaken
<1>7. CASE call.api = "crypto"
  <2>1. arg.cmd \in Crypted
    BY <1>1, <1>7, CalledIs
  <2>2. TakeCrypto
    BY <1>2, <2>1 DEF TakeData, TakeWritten, TakeSignature, TakeHash, TakeKeys, TakeValue, TakeMessage, TakeNothing,
                      Crypted
  <2> QED  BY <1>1, <1>7, <2>2, CryptoTaken
<1>8. CASE call.api \in Hashing
  <2>1. arg.cmd = "CalcHash"
    BY <1>1, <1>8, CalledIs
  <2>2. TakeHash
    BY <1>2, <2>1 DEF TakeData, TakeWritten, TakeSignature, TakeKeys, TakeValue, TakeMessage, TakeCrypto, TakeNothing
  <2> QED  BY <1>1, <1>8, <2>2, HashTaken
<1>9. CASE /\ call.api \notin Hashing \cup {"read_data", "write_data", "signature", "crypto"}
           /\ ~(call.api = "message" /\ arg.cmd = "GetMessage")
  <2>1. call.api = "message" => arg.cmd = "PutMessage"
    BY <1>1, <1>9, CalledIs
  <2> QED  BY <1>1, <1>9, <2>1, OtherTaken
<1> QED
  BY <1>3, <1>4, <1>5, <1>6, <1>7, <1>8, <1>9
-----------------------------------------------------------------------------
(* How calls begin and end *)

\* The device's limit, when the application is open.
LEMMA LimitAddsUp ==
  ASSUME MemoryInv, PiecesInv, TakeLimit
  PROVE  PiecesInv'
<1>1. /\ pc = "answered" /\ arg.cmd = "GetMaxCommsBuffer" /\ pc' = "done" /\ call' = call /\ context' = context
      /\ fed' = fed /\ context = fed /\ fed \in Int
  BY DEF TakeLimit, Return, PiecesInv
<1>2. call.api = "open"
  BY <1>1, ArgIs DEF MemoryInv, Types, Working
<1> QED
  BY <1>1, <1>2, WonIs

\* Nothing is read, written or formed when a call starts.
LEMMA StartAddsUp ==
  ASSUME NEW c, NEW a, Run(a), call' = c, out' = NoOut, context' = fed', fed' \in Int,
         c.api \notin Hashing,
         c.api = "read_data" => a.len \in Nat /\ a.room \in Nat,
         c.api = "write_data" => a.offset \in Nat /\ chip'.from = a.offset /\ chip'.to = a.offset,
         c.api = "message" => chip'.sent = 0
  PROVE  PiecesInv'
<1>1. pc' = "issue" /\ arg' = a /\ k' = Start
  BY DEF Run
<1>2. k'.step = 0 /\ k'.done = 0 /\ k'.total = 0 /\ out'.n = 0 /\ out'.whole
  BY <1>1 DEF Start, NoOut
<1>3. Reading' /\ Writing' /\ Signing'
  <2>1. Reading'
    BY <1>1, <1>2 DEF Reading
  <2>2. Writing'
    BY <1>1, <1>2 DEF Writing
  <2>3. Signing'
    BY <1>1, <1>2 DEF Signing
  <2> QED  BY <2>1, <2>2, <2>3
<1>4. Forming' /\ Crypting' /\ Summing'
  <2>1. Forming'
    BY <1>1, <1>2 DEF Forming
  <2>2. Crypting'
    BY <1>1, <1>2 DEF Crypting
  <2>3. Summing'
    BY DEF Summing, Hashing
  <2> QED  BY <2>1, <2>2, <2>3
<1> QED
  BY <1>1, <1>3, <1>4, OnIs DEF Progress

\* What the device was told of the object is forgotten.
LEMMA UnwrittenIs ==
  ASSUME ChipOK(chip), NEW x
  PROVE  Unwritten(chip, x).from = x /\ Unwritten(chip, x).to = x /\ Unwritten(chip, x).sent = 0
BY DEF ChipOK, Unwritten

\* A call is made, or refused at once.
LEMMA BeginAddsUp ==
  ASSUME MemoryInv, PiecesInv, Begin
  PROVE  PiecesInv'
<1>1. PICK c \in IF context = NotHashing THEN Calls ELSE Meanwhile :
        /\ call' = c
        /\ IF Rejected(c) THEN Return("error") /\ chip' = chip
           ELSE /\ Run(c.arg) /\ ret' = "none"
                /\ chip' = Unwritten(chip, IF c.arg.cmd = "SetDataObject" THEN c.arg.offset ELSE 0)
  BY DEF Begin
<1>2. out' = NoOut /\ context' = fed' /\ fed' \in Int
  BY DEF Begin, Api, PiecesInv
<1>3. Callable(c)
  BY OptigaAssumption
<1>4. Sized(c.arg) /\ c.api \notin Hashing
  BY <1>3, CallableIs
<1>5. CASE Rejected(c)
  <2>1. pc' = "done" /\ ret' = "error"
    BY <1>1, <1>5 DEF Return
  <2>2. ReadDelivers' /\ WrittenInOrder' /\ DigestOfAllData' /\ MessageInPieces' /\ SignatureOfChallenge'
    BY <1>2, <2>1 DEF ReadDelivers, WrittenInOrder, DigestOfAllData, MessageInPieces, SignatureOfChallenge, Succeeded,
                      NoOut
  <2> QED  BY <1>2, <2>1, <2>2, WonIs
<1>6. CASE ~Rejected(c)
  <2>1. Run(c.arg) /\ chip' = Unwritten(chip, IF c.arg.cmd = "SetDataObject" THEN c.arg.offset ELSE 0)
    BY <1>1, <1>6
  <2>2. ChipOK(chip)
    BY DEF MemoryInv, Types
  <2>3. /\ c.api = "read_data" => c.arg.cmd = "GetDataObject"
        /\ c.api = "write_data" => c.arg.cmd = "SetDataObject"
    BY <1>3 DEF Callable, Runs
  <2>4. c.api = "read_data" => c.arg.len \in Nat /\ c.arg.room \in Nat
    BY <1>4, <2>3 DEF Sized
  <2>5. c.api = "write_data" => c.arg.offset \in Nat /\ chip'.from = c.arg.offset /\ chip'.to = c.arg.offset
    BY <1>4, <2>1, <2>2, <2>3, UnwrittenIs DEF Sized
  <2>6. chip'.sent = 0
    BY <2>1, <2>2, UnwrittenIs
  <2> QED  BY <1>1, <1>2, <1>4, <2>1, <2>4, <2>5, <2>6, StartAddsUp
<1> QED
  BY <1>5, <1>6

\* The application is opened, and the limit set, by calls of their own.
LEMMA OpenAddsUp ==
  ASSUME PiecesInv, OpenComms \/ SetLimit
  PROVE  PiecesInv'
<1>1. call'.api \in {"open", "limit"} /\ context' = fed' /\ fed' \in Int
  BY LimitIs DEF OpenComms, SetLimit, Api, PiecesInv
<1>2. Progress'
  BY <1>1 DEF Progress, Reading, Writing, Signing, Forming, Crypting, Summing
<1>3. PiecesAddUp'
  BY <1>1 DEF PiecesAddUp, ReadDelivers, WrittenInOrder, DigestOfAllData, MessageInPieces, SignatureOfChallenge,
              Succeeded
<1> QED
  BY <1>1, <1>2, <1>3 DEF PiecesInv

\* Nothing is under way when the caller has its answer.
LEMMA IdleAddsUp ==
  ASSUME PiecesInv, RetryOpen \/ SystemReset \/ Finish
  PROVE  PiecesInv'
<1>1. pc' \in {"idle", "boot"}
  BY DEF RetryOpen, SystemReset, Finish
<1>2. context' = fed' /\ fed' \in Int
  BY DEF RetryOpen, SystemReset, Finish, Api, PiecesInv, NotHashing
<1>3. Progress'
  BY <1>1 DEF Progress, Working, Reading, Writing, Signing, Forming, Crypting, Summing
<1>4. PiecesAddUp'
  BY <1>1 DEF PiecesAddUp, ReadDelivers, WrittenInOrder, DigestOfAllData, MessageInPieces, SignatureOfChallenge,
              Succeeded
<1> QED
  BY <1>2, <1>3, <1>4 DEF PiecesInv

\* The first chunk of an update brings the context; when it is the last one too, it gives it back.
LEMMA FirstIs ==
  ASSUME NEW size
  PROVE  /\ FirstChunk(size).chaining \in BOOLEAN
         /\ FirstChunk(size).action \in {"import", "both"}
         /\ FirstChunk(size).chaining <=> FirstChunk(size).action = "import"
         /\ ~FirstChunk(size).chaining => FirstChunk(size).len = size
BY DEF FirstChunk

\* A hash starts from nothing, and goes on from all that was hashed.
LEMMA HashAddsUp ==
  ASSUME MemoryInv, PiecesInv, HashStart \/ HashUpdate \/ HashFinalize
  PROVE  PiecesInv'
<1>1. pc' = "issue" /\ context = fed /\ context' = fed' /\ fed' = fed /\ fed \in Int
  BY DEF HashStart, HashUpdate, HashFinalize, Run, Api, PiecesInv
<1>2. ASSUME call'.api \in Hashing, Summing'
      PROVE  PiecesInv'
  <2>1. Progress'
    BY <1>2 DEF Progress, Reading, Writing, Signing, Forming, Crypting, Hashing
  <2> QED  BY <1>1, <2>1, OnIs
<1>3. CASE HashStart
  <2> DEFINE a == HashArg("start", "export", TRUE, 0, 0)
  <2>1. arg' = a /\ call' = [api |-> "hash_start"]
    BY <1>3 DEF HashStart, Run
  <2>2. a.sequence = "start" /\ a.action = "export" /\ a.host /\ a.len = 0
    BY DEF HashArg
  <2> HIDE DEF a
  <2>3. Summing'
    BY <1>1, <2>1, <2>2 DEF Summing
  <2> QED  BY <1>2, <2>1, <2>3 DEF Hashing
<1>4. CASE HashFinalize
  <2> DEFINE a == HashArg("final", "import", TRUE, 0, 0)
  <2>1. arg' = a /\ call' = [api |-> "hash_finalize"]
    BY <1>4 DEF HashFinalize, Run
  <2>2. a.sequence = "final" /\ a.action = "import" /\ a.host /\ a.len = 0 /\ a.state = context
    BY DEF HashArg
  <2> HIDE DEF a
  <2>3. Summing'
    BY <1>1, <2>1, <2>2 DEF Summing
  <2> QED  BY <1>2, <2>1, <2>3 DEF Hashing
<1>5. CASE HashUpdate
  <2>1. PICK size \in Updates, host \in BOOLEAN :
          LET first == IF host THEN FirstChunk(size) ELSE [action |-> "both", len |-> size, chaining |-> FALSE] IN
          /\ fed + size <= MaxFed
          /\ call' = [api |-> "hash_update", size |-> size]
          /\ Run(HashArg("continue", first.action, host, first.len, IF host THEN fed ELSE 0))
          /\ left' = size /\ chaining' = first.chaining
    BY <1>5 DEF HashUpdate
  <2> DEFINE first == IF host THEN FirstChunk(size) ELSE [action |-> "both", len |-> size, chaining |-> FALSE]
             from == IF host THEN fed ELSE 0
             a == HashArg("continue", first.action, host, first.len, from)
  <2>2. size \in Nat
    BY OptigaAssumption
  <2>3. arg' = a /\ call' = [api |-> "hash_update", size |-> size] /\ left' = size /\ chaining' = first.chaining
    BY <2>1 DEF Run
  <2>4. /\ first.chaining \in BOOLEAN /\ first.action \in {"import", "both"}
        /\ first.chaining <=> first.action = "import"
        /\ ~first.chaining => first.len = size
        /\ ~host => first.action = "both"
    BY FirstIs
  <2>5. from \in Int /\ (host => from = fed)
    BY <1>1
  <2> HIDE DEF first, from
  <2>6. /\ a.sequence = "continue" /\ a.action = first.action /\ a.len = first.len /\ a.from = from
        /\ a.host = host /\ a.state = context
    BY DEF HashArg
  <2> HIDE DEF a
  <2>7. call'.size = size /\ call'.api = "hash_update"
    BY <2>3
  <2>8. Chunk'
    BY <1>1, <2>2, <2>3, <2>4, <2>5, <2>6, <2>7 DEF Chunk
  <2>9. Summing'
    BY <2>7, <2>8 DEF Summing
  <2> QED  BY <1>2, <2>7, <2>9 DEF Hashing
<1> QED
  BY <1>3, <1>4, <1>5

\* Nothing is delivered before the first call.
LEMMA PiecesInit == Init => PiecesInv
<1> SUFFICES ASSUME Init PROVE PiecesInv
  OBVIOUS
<1>1. pc = "idle" /\ context = fed /\ fed \in Int
  BY DEF Init, NotHashing
<1>2. Progress
  BY <1>1 DEF Progress, Working, Reading, Writing, Signing, Forming, Crypting, Summing
<1>3. PiecesAddUp
  BY <1>1 DEF PiecesAddUp, ReadDelivers, WrittenInOrder, DigestOfAllData, MessageInPieces, SignatureOfChallenge,
              Succeeded
<1> QED
  BY <1>1, <1>2, <1>3 DEF PiecesInv

\* Every step keeps the sum.
LEMMA PiecesNext == MemoryInv /\ PiecesInv /\ [Next]_vars => PiecesInv'
<1> SUFFICES ASSUME MemoryInv, PiecesInv, [Next]_vars PROVE PiecesInv'
  OBVIOUS
<1>1. CASE Caller
  BY <1>1, OpenAddsUp, BeginAddsUp, HashAddsUp DEF Caller
<1>2. CASE Command
  <2>1. CASE Issue /\ pc' = "sent"
    BY <2>1, IssuedAddsUp
  <2>2. CASE (Issue /\ pc' # "sent") \/ AllocFails \/ GetError
    BY <2>2, FailingAddsUp DEF Failing
  <2>3. CASE Take
    BY <2>3, TakenAddsUp
  <2>4. CASE TakeLimit \/ SetLimit \/ RetryOpen \/ SystemReset \/ Finish
    BY <2>4, LimitAddsUp, OpenAddsUp, IdleAddsUp
  <2> QED  BY <1>2, <2>1, <2>2, <2>3, <2>4 DEF Command
<1>3. CASE Chip
  BY <1>3, AnsweredAddsUp, FailingAddsUp DEF Chip, Failing
<1>4. CASE UNCHANGED vars
  <2>1. UNCHANGED <<pc, call, arg, k, ans, wMaxCommsBuffer, context, left, chaining, out, ret, chip, fed>>
    BY <1>4 DEF vars
  <2>2. Reading' /\ Writing' /\ Signing'
    BY <2>1 DEF PiecesInv, Progress, Reading, Writing, Signing, Working, Fragmented
  <2>3. Forming' /\ Crypting'
    BY <2>1 DEF PiecesInv, Progress, Forming, Crypting, Working, Gain
  <2>4. Summing'
    BY <2>1 DEF PiecesInv, Progress, Summing, Chunk, Working
  <2>5. PiecesAddUp'
    BY <2>1 DEF PiecesInv, PiecesAddUp, ReadDelivers, WrittenInOrder, DigestOfAllData, MessageInPieces,
                SignatureOfChallenge, Succeeded
  <2> QED  BY <2>1, <2>2, <2>3, <2>4, <2>5 DEF PiecesInv, Progress
<1> QED
  BY <1>1, <1>2, <1>3, <1>4 DEF Next

\* Whatever the device limits, refuses or loses in between, and wherever a command fails: what
\* read_data delivers is in order and all there is, write_data succeeds with every byte in its
\* place, a digest is that of all the updates, a message or a record is complete, and a
\* signature is of this call's challenge (PiecesAddUp).
THEOREM PiecesAlwaysAddUp == Spec => []PiecesAddUp
<1>1. PiecesInv => PiecesAddUp
  BY DEF PiecesInv
<1>2. Init => MemoryInv /\ PiecesInv
  BY MemoryInit, PiecesInit
<1>3. MemoryInv /\ PiecesInv /\ [Next]_vars => (MemoryInv /\ PiecesInv)'
  BY MemoryNext, PiecesNext
<1> QED
  BY <1>1, <1>2, <1>3, PTL DEF Spec
=============================================================================
