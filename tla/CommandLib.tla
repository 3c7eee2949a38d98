------------------------------ MODULE CommandLib ------------------------------
(* The requests of the OPTIGA command library: for every command what it     *)
(* refuses, how much memory it takes, what it writes where, how long it says *)
(* the payload is, and where the response may go.  A buffer is a set of      *)
(* pieces at positions; what a piece says is a tag with a value.             *)
EXTENDS Integers

LEN_APDUHEADER == 4
LEN_TAG_ENCODING == 3               \* a tag and the length of its value
Unknown == 65535                    \* INVALID_MAX_COMMS_BUFF_SIZE
HASH_LEN == 32
CALC_HASH_SHA256_CONTEXT_SIZE == 130
CALC_HASH_FIXED_OVERHEAD_SIZE == 7
CALC_HASH_IMPORT_OR_EXPORT_OVERHEAD_SIZE == 3
CALC_HASH_IMPORT_AND_EXPORT_OVERHEAD_SIZE == 6
MAX_APDU_BUFF_LEN == 1558
OVERHEAD_UPDOWNLINK == 19
ADDITIONALBYTES_ENCDEC == 10
OVERHEAD_ENCDEC_RESPONSE == 7
Sessions == 57600..57603            \* 0xE100 to 0xE103
KeyLen == [P256 |-> 32, P384 |-> 48]

Larger(m, n) == IF m > n THEN m ELSE n
Smaller(m, n) == IF m < n THEN m ELSE n

Piece(at, len, tag, value) == [at |-> at, len |-> len, what |-> <<tag, value>>]
Tlv(at, tag, len, value) == Piece(at, LEN_TAG_ENCODING + len, tag, value)
Oid(at, oid) == Piece(at, 2, "oid", oid)
Apart(p, q) == p.at + p.len <= q.at \/ q.at + q.len <= p.at

(* Of a piece that something is written over, nothing is left to rely on. *)
Write(buffer, pieces) == {p \in buffer : \A q \in pieces : Apart(p, q)} \cup pieces

(* The payload lies behind the header at `base`; it is sound when pieces     *)
(* fill it from the first byte to the last, each beginning where another     *)
(* ends.                                                                     *)
Payload(buffer, base, length) ==
    LET first == base + LEN_APDUHEADER
    IN {p \in buffer : p.at < first + length /\ p.at + p.len > first}
Lined(ps, first, end) ==
    /\ first = end \/ \E p \in ps : p.at = first
    /\ \A p \in ps : p.at >= first /\ p.len > 0 /\ p.at + p.len <= end
    /\ \A p \in ps : p.at + p.len = end \/ \E q \in ps : q.at = p.at + p.len
    /\ \A p, q \in ps : p = q \/ Apart(p, q)
Fills(buffer, base, length) ==
    LET first == base + LEN_APDUHEADER IN Lined(Payload(buffer, base, length), first, first + length)

-----------------------------------------------------------------------------
(* A request, or the status a command ends with before it makes one. *)
Refuse(status) == [status |-> status]
Apdu(param, alloc, writes, payload, at, room) ==
    [status |-> "ok", param |-> param, alloc |-> alloc, writes |-> {p \in writes : p.len > 0}, base |-> 0,
     payload |-> payload, at |-> at, room |-> room]
(* INIT_HEAP_APDUBUFFER before the application was opened. *)
Heap(max, request) == IF max = Unknown THEN Refuse("exec") ELSE request

OpenApplication == Apdu("init", 25, {Piece(4, 16, "application", "UID")}, 16, 0, 25)
GetMaxCommsBuffer == Apdu("data", 10, {Oid(4, "E0C6")}, 2, 0, 10)
GetDeviceError == Apdu("data", 6, {Oid(4, "F1C2")}, 2, 0, 6)

GetDataObjectInPlace(a, done, max) ==
    LET wReadLen == Smaller(max - LEN_APDUHEADER, a.len - done)
        oid == IF done = 0 THEN {Oid(4, a.oid)} ELSE {}
    IN Heap(max,
        IF a.missing THEN Refuse("null")
        ELSE IF a.room = 0 THEN Refuse("zero")
        ELSE IF a.meta THEN Apdu("metadata", max + 6, oid, 2, 0, max)
        ELSE Apdu("data", max + 6,
                  oid \cup {Piece(6, 2, "offset", a.offset + done), Piece(8, 2, "length", wReadLen)}, 6, 0, max))

GetDataObject(a, done, max) ==
    LET wReadLen == Smaller(max - LEN_APDUHEADER, a.len - done)
        oid == IF done = 0 THEN {Oid(4, a.oid)} ELSE {}
    IN Heap(max,
        IF a.missing THEN Refuse("null")
        ELSE IF a.room = 0 THEN Refuse("zero")
        ELSE IF a.meta THEN Apdu("metadata", max + 6, oid, 2, 6, max)
        ELSE Apdu("data", max + 6,
                  oid \cup {Piece(6, 2, "offset", a.offset + done), Piece(8, 2, "length", wReadLen)}, 6, 6, max))

SetDataObject(a, done, max) ==
    LET wWriteLen == Smaller(max - 8, a.len - done)
        param == IF a.meta THEN "metadata" ELSE IF a.erase /\ done = 0 THEN "erase" ELSE "data"
    IN Heap(max,
        IF a.missing THEN Refuse("null")
        ELSE IF a.len = 0 THEN Refuse("zero")
        ELSE IF a.meta /\ a.erase THEN Refuse("param")
        ELSE Apdu(param, max,
                  (IF done = 0 THEN {Oid(4, a.oid)} ELSE {})
                    \cup {Piece(6, 2, "offset", a.offset + done), Piece(8, wWriteLen, "data", done)},
                  4 + wWriteLen, 7, max))

GetRandom(a, max) ==
    IF a.room = 0 THEN Refuse("zero")
    ELSE IF max < LEN_APDUHEADER + a.n THEN Refuse("memory")
    ELSE Heap(max, Apdu("rng", LEN_APDUHEADER + 2 + a.n, {Piece(4, 2, "length", a.n)}, 2, 0, LEN_APDUHEADER + a.n))

SetAuthScheme(a) ==
    IF a.scheme = "dtls" /\ a.session \notin Sessions THEN Refuse("session")
    ELSE IF a.scheme = "dtls"
    THEN Apdu("dtls", 10, {Oid(4, a.key), Piece(6, 2, "session", a.session)}, 4, 0, 10)
    ELSE Apdu(a.scheme, 10, {Oid(4, a.key)}, 2, 0, 10)

(* Three APDUs: the scheme, from a buffer of its own, the challenge, and the *)
(* request for the signature.                                                *)
GetSignature(a, step, max) ==
    Heap(max,
    IF a.missing THEN Refuse("null")
    ELSE IF a.len \notin 8..256 THEN Refuse("length")
    ELSE CASE step = 0 -> SetAuthScheme([scheme |-> "ecdsa", key |-> a.key])
           [] step = 1 -> Apdu("challenge", 270, {Piece(4, a.len, "challenge", a.challenge)}, a.len, 0, 270)
           [] step = 2 -> Apdu("signature", 270, {}, 0, 0, 270))

CalcHash(a, max) ==
    LET wInDataLen == IF a.host THEN a.len ELSE 6
        import == a.action \in {"import", "both"}
        export == a.action \in {"export", "both"}
        wOptTagLen == (IF import THEN CALC_HASH_IMPORT_OR_EXPORT_OVERHEAD_SIZE + a.context ELSE 0)
                      + (IF export THEN CALC_HASH_IMPORT_OR_EXPORT_OVERHEAD_SIZE ELSE 0)
        wOptTagOffset == 7 + wInDataLen
        wMemoryAllocLen == CALC_HASH_FIXED_OVERHEAD_SIZE + wInDataLen + wOptTagLen
        wBufferLen == CALC_HASH_FIXED_OVERHEAD_SIZE + (IF a.sequence = "final" THEN HASH_LEN ELSE 0)
                      + (IF export THEN CALC_HASH_SHA256_CONTEXT_SIZE ELSE 0)
        alloc == Larger(wBufferLen, wMemoryAllocLen)
        input == IF a.host THEN {Piece(7, wInDataLen, "data", a.from)}
                 ELSE {Oid(7, a.oid), Piece(9, 2, "offset", a.from), Piece(11, 2, "length", a.len)}
        context == (IF import THEN {Tlv(wOptTagOffset, "import", a.context, a.state)} ELSE {})
                   \cup (IF export
                         THEN {Tlv(wOptTagOffset + wOptTagLen - LEN_TAG_ENCODING, "export", 0, 0)} ELSE {})
    IN IF a.missing THEN Refuse("null")
       ELSE IF wMemoryAllocLen > max THEN Refuse("memory")
       ELSE Heap(max, Apdu("sha256", alloc,
                {Piece(4, 1, "sequence", a.sequence), Piece(5, 2, "inlength", wInDataLen)} \cup input \cup context,
                3 + wInDataLen + wOptTagLen, 0, alloc))

VerifySign(a, max) ==
    LET fixed == IF a.host THEN 13 + a.publen ELSE 11
        wCalApduLen == LEN_APDUHEADER + fixed + a.digest + a.siglen
        position == 10 + a.digest + a.siglen
        key == IF a.host THEN {Tlv(position, "algorithm", 1, a.curve), Tlv(position + 4, "key", a.publen, a.key)}
               ELSE {Tlv(position, "keyoid", 2, a.key)}
    IN IF a.missing THEN Refuse("null")
       ELSE IF max < wCalApduLen THEN Refuse("memory")
       ELSE Heap(max, Apdu("verify", wCalApduLen,
                {Tlv(4, "digest", a.digest, a.digest), Tlv(7 + a.digest, "signature", a.siglen, a.siglen)} \cup key,
                fixed + a.digest + a.siglen, 0, max))

GenerateKeyPair(a, max) ==
    LET wAlgoLen == KeyLen[a.curve]
        wCalApduLen == LEN_APDUHEADER + (IF a.export THEN 10 + 3 * wAlgoLen ELSE 9 + 2 * wAlgoLen) + 2
    IN IF a.missing THEN Refuse("null")
       ELSE IF a.curve \notin DOMAIN KeyLen THEN Refuse("error")
       ELSE Heap(max,
            IF a.export THEN Apdu("keypair", wCalApduLen, {Tlv(4, "export", 0, 0)}, 3, 0, wCalApduLen)
            ELSE Apdu("keypair", wCalApduLen, {Tlv(4, "keyoid", 2, a.key), Tlv(9, "usage", 1, a.usage)},
                      9, 0, wCalApduLen))

CalculateSign(a, max) ==
    LET wCalApduLen == LEN_APDUHEADER + Larger(8 + a.digest, 119)
    IN IF a.missing THEN Refuse("null")
       ELSE IF max < wCalApduLen THEN Refuse("memory")
       ELSE Heap(max, Apdu("sign", wCalApduLen,
                {Tlv(4, "digest", a.digest, a.digest), Tlv(7 + a.digest, "keyoid", 2, a.key)},
                8 + a.digest, 0, wCalApduLen))

(* The last part of a request for a secret: give it out, or keep it there. *)
Destination(at, export, oid) == IF export THEN Tlv(at, "export", 0, 0) ELSE Tlv(at, "destination", 2, oid)

CalculateSharedSecret(a, max) ==
    LET wCalApduLen == LEN_APDUHEADER + 15 + a.publen + (IF a.export THEN 0 ELSE 2)
        last == Destination(16 + a.publen, a.export, a.oid)
    IN IF a.missing THEN Refuse("null")
       ELSE IF max < wCalApduLen THEN Refuse("memory")
       ELSE Heap(max, Apdu("ecdh", wCalApduLen,
                {Tlv(4, "keyoid", 2, a.key), Tlv(9, "algorithm", 1, a.curve), Tlv(13, "key", a.publen, "peer"), last},
                12 + a.publen + last.len, 0, wCalApduLen))

DeriveKey(a, max) ==
    LET wCalApduLen == LEN_APDUHEADER + 16 + Larger(a.seed, a.n) + (IF a.export THEN 0 ELSE 2)
        last == Destination(17 + a.seed, a.export, a.oid)
    IN IF a.missing THEN Refuse("null")
       ELSE IF max < wCalApduLen THEN Refuse("memory")
       ELSE Heap(max, Apdu("prf", wCalApduLen,
                {Tlv(4, "keyoid", 2, a.key), Tlv(9, "seed", a.seed, a.seed), Tlv(12 + a.seed, "length", 2, a.n), last},
                13 + a.seed + last.len, 0, wCalApduLen))

GetMessage(a, max) ==
    LET session == Piece(4, 2, "session", a.session)
        With(writes, payload) == Apdu(a.message, MAX_APDU_BUFF_LEN, writes, payload, 0, MAX_APDU_BUFF_LEN)
    IN Heap(max,
        IF a.session \notin Sessions THEN Refuse("session")
        ELSE CASE a.message = "ClientHello" /\ a.extra -> With({session, Tlv(6, "time", 4, 0)}, 9)
               [] a.message = "Certificate" /\ a.extra -> With({session, Tlv(6, "certificate", 2, 0)}, 7)
               [] OTHER -> With({session}, 2))

(* The message is in the buffer, behind the room for the header. *)
PutMessage(a, max) ==
    IF a.len = 0 THEN Refuse("zero")
    ELSE IF a.session \notin Sessions THEN Refuse("session")
    ELSE IF a.len > max THEN Refuse("memory")
    ELSE Apdu(a.message, a.len, {Piece(4, 2, "session", a.session), Piece(6, 3, "final", a.len - 9)},
              a.len - LEN_APDUHEADER, 0, a.len)

CloseSession(a) ==
    IF a.session \notin Sessions THEN Refuse("session")
    ELSE Apdu("close", 6, {Piece(4, 2, "session", a.session)}, 2, 0, 6)

(* Each fragment gets its header in front of it, over what was sent before;  *)
(* the responses are put together in the caller's other buffer.              *)
wMaxPlainText(max) == max - OVERHEAD_UPDOWNLINK
FragSeq(len, done, max) ==
    IF len - done <= wMaxPlainText(max) THEN "final" ELSE IF done = 0 THEN "start" ELSE "continue"
EncDecHelper(a, done, total, max) ==
    LET wMaxDataLen == Smaller(a.len - done, wMaxPlainText(max))
        base == ADDITIONALBYTES_ENCDEC + done
    IN IF a.session \notin Sessions THEN Refuse("session")
       ELSE IF a.len = 0 \/ a.stream < a.len + OVERHEAD_UPDOWNLINK THEN Refuse("length")
       ELSE IF a.len > a.room THEN Refuse("memory")
       ELSE [Apdu(a.cmd, a.stream,
                  {Piece(base, 4, "header", 0), Piece(base + 4, 2, "session", a.session),
                   Piece(base + 6, 3, FragSeq(a.len, done, max), wMaxDataLen)},
                  5 + wMaxDataLen, total, a.room - total)
             EXCEPT !.base = base]

(* What the caller's buffer holds before the first APDU of a command: the    *)
(* data to encrypt or decrypt, which is cut in fragments, or a message.      *)
Cuts(len, max) == {from \in {i * wMaxPlainText(max) : i \in 0..len} : from < len}
Fragment(from, len, max) ==
    Piece(OVERHEAD_UPDOWNLINK + from, Smaller(wMaxPlainText(max), len - from), "data", from)
InitialBuffer(a, max) ==
    CASE a.cmd \in {"Encrypt", "Decrypt"} -> {Fragment(from, a.len, max) : from \in Cuts(a.len, max)}
      [] a.cmd = "PutMessage" -> {Piece(9, a.len - 9, "message", a.len)}
      [] OTHER -> {}

Request(a, k, max) ==
    CASE a.cmd = "OpenApplication" -> OpenApplication
      [] a.cmd = "GetMaxCommsBuffer" -> GetMaxCommsBuffer
      [] a.cmd = "GetDataObject" -> GetDataObject(a, k.done, max)
      [] a.cmd = "SetDataObject" -> SetDataObject(a, k.done, max)
      [] a.cmd = "GetRandom" -> GetRandom(a, max)
      [] a.cmd = "SetAuthScheme" -> SetAuthScheme(a)
      [] a.cmd = "GetSignature" -> GetSignature(a, k.step, max)
      [] a.cmd = "CalcHash" -> CalcHash(a, max)
      [] a.cmd = "VerifySign" -> VerifySign(a, max)
      [] a.cmd = "GenerateKeyPair" -> GenerateKeyPair(a, max)
      [] a.cmd = "CalculateSign" -> CalculateSign(a, max)
      [] a.cmd = "CalculateSharedSecret" -> CalculateSharedSecret(a, max)
      [] a.cmd = "DeriveKey" -> DeriveKey(a, max)
      [] a.cmd = "GetMessage" -> GetMessage(a, max)
      [] a.cmd = "PutMessage" -> PutMessage(a, max)
      [] a.cmd = "CloseSession" -> CloseSession(a)
      [] a.cmd \in {"Encrypt", "Decrypt"} -> EncDecHelper(a, k.done, k.total, max)
=============================================================================
