------------------------------ MODULE OptigaCrypt ------------------------------
(* The command library at work: the calls of optiga_crypt, optiga_util and   *)
(* the message layer, the commands they run, one APDU after another, and the *)
(* loops that cut an object, a message or a stream to hash into fragments.   *)
(* One caller, so the lock around a command is always free.  The device,     *)
(* which is external, may refuse anything, and the link may lose a request   *)
(* or its answer.                                                            *)
EXTENDS CommandLib

CONSTANTS
    Calls,              \* the calls the program makes, of the shapes below
    Updates,            \* the sizes of data it hashes
    MaxFed,             \* bound: bytes hashed in one go of start, updates, finalize
    Meanwhile,          \* bound: the calls made between a start and its finalize
    DeviceMax,          \* the device's limit on an APDU
    ObjectSize,         \* bytes a data object has room for
    MessageLen,         \* length of each handshake message the device forms
    MaxTries            \* TrustX gives up opening the application

(* What the arguments of a command are: sizes, known curves and messages.  A *)
(* message that is put has a header of 9 bytes before it and is not empty.   *)
Sized(a) ==
    /\ a.cmd = "GetRandom" => a.n \in Nat /\ a.room \in Nat
    /\ a.cmd = "GenerateKeyPair" => a.room \in Nat
    /\ a.cmd = "CalculateSign" => a.digest \in Nat /\ a.room \in Nat
    /\ a.cmd = "VerifySign" => a.digest \in Nat /\ a.siglen \in Nat /\ a.publen \in Nat
    /\ a.cmd = "CalculateSharedSecret" => a.curve \in DOMAIN KeyLen /\ a.publen \in Nat /\ a.room \in Nat
    /\ a.cmd = "DeriveKey" => a.seed \in Nat /\ a.n \in Nat /\ a.room \in Nat
    /\ a.cmd \in {"GetDataObject", "SetDataObject"} => a.offset \in Nat /\ a.len \in Nat
    /\ a.cmd \in {"GetDataObject", "GetSignature"} => a.room \in Nat
    /\ a.cmd = "GetSignature" => a.len \in Nat
    /\ a.cmd = "SetAuthScheme" => a.scheme = "dtls"
    /\ a.cmd = "GetMessage" => a.message \in DOMAIN MessageLen
    /\ a.cmd = "PutMessage" => a.len \in Nat \ (1..9)
    /\ a.cmd \in {"Encrypt", "Decrypt"} => a.len \in Nat /\ a.stream \in Nat /\ a.room \in Nat

(* Which call runs which command. *)
Runs ==
    [random |-> {"GetRandom"}, keypair |-> {"GenerateKeyPair"}, sign |-> {"CalculateSign"},
     verify |-> {"VerifySign"}, ecdh |-> {"CalculateSharedSecret"}, tls_prf |-> {"DeriveKey"},
     read_data |-> {"GetDataObject"}, read_metadata |-> {"GetDataObject"}, write_data |-> {"SetDataObject"},
     write_metadata |-> {"SetDataObject"}, signature |-> {"GetSignature"}, scheme |-> {"SetAuthScheme"},
     message |-> {"GetMessage", "PutMessage"}, crypto |-> {"Encrypt", "Decrypt"}, close |-> {"CloseSession"}]
Callable(c) ==
    /\ c.api \in DOMAIN Runs /\ c.arg.cmd \in Runs[c.api] /\ Sized(c.arg)
    /\ c.api \in {"read_data", "write_data"} => ~c.arg.meta

ASSUME OptigaAssumption ==
    /\ DeviceMax \in 300..MAX_APDU_BUFF_LEN /\ ObjectSize \in Nat /\ MaxTries \in Nat \ {0}
    /\ MaxFed \in Nat /\ Updates \subseteq 1..MaxFed
    /\ \A m \in DOMAIN MessageLen : MessageLen[m] \in Nat
    /\ \A c \in Calls \cup Meanwhile : Callable(c)

VARIABLES
    pc,                 \* where the caller is
    call,               \* the API call under way
    arg,                \* the command it runs now
    k,                  \* progress of the command's loop
    buffer, req,        \* the APDU buffer and the request made of it
    ans,                \* the response in it
    wMaxCommsBuffer,
    linked,             \* p_optiga_comms is set
    context,            \* the hash context in the caller's memory: bytes hashed
    left, chaining,     \* the loop of optiga_crypt_hash_update
    out, ret,           \* what the caller has when the call returns
    tries, ready,       \* TrustX::TrustX
    chip,               \* the device
    fed                 \* history: bytes of the updates that returned success

vars == <<pc, call, arg, k, buffer, req, ans, wMaxCommsBuffer, linked, context, left, chaining, out, ret,
          tries, ready, chip, fed>>

None == [api |-> "none"]
NoArg == [cmd |-> "none"]
NoAns == [code |-> "none", len |-> 0]
NotHashing == 0 - 1
Scrambled == 0 - 2
Start == [step |-> 0, done |-> 0, total |-> 0]
NoOut == [n |-> 0, whole |-> TRUE]

-----------------------------------------------------------------------------
(* The calls.  Those of optiga_crypt end in OPTIGA_LIB_ERROR whatever the    *)
(* command said, but for hash_update, verify, ecdh and tls_prf.              *)
Call(api, a) == [api |-> api, arg |-> a]
CryptRandom(n) == Call("random", [cmd |-> "GetRandom", n |-> n, room |-> n])
GenKeyPair(curve, export, room, key, usage) ==
    Call("keypair", [cmd |-> "GenerateKeyPair", curve |-> curve, export |-> export, room |-> room, key |-> key,
                     usage |-> usage, missing |-> FALSE])
Sign(digest, key, room) ==
    Call("sign", [cmd |-> "CalculateSign", digest |-> digest, key |-> key, room |-> room, missing |-> FALSE])
Verify(digest, siglen, host, publen, curve) ==
    Call("verify", [cmd |-> "VerifySign", digest |-> digest, siglen |-> siglen, host |-> host, publen |-> publen,
                    curve |-> curve, key |-> "public", missing |-> FALSE])
Ecdh(key, curve, publen, export) ==
    Call("ecdh", [cmd |-> "CalculateSharedSecret", key |-> key, curve |-> curve, publen |-> publen,
                  export |-> export, oid |-> "E102", room |-> IF curve = "P256" THEN 32 ELSE 64, missing |-> FALSE])
TlsPrf(seed, length, export) ==
    LET n == Larger(length, 16)
    IN Call("tls_prf", [cmd |-> "DeriveKey", key |-> "E102", seed |-> seed, n |-> n, export |-> export,
                        oid |-> "E103", room |-> n, missing |-> FALSE])
ReadData(offset, size, null) ==
    Call("read_data", [cmd |-> "GetDataObject", oid |-> "F1E0", meta |-> FALSE, offset |-> offset, len |-> size,
                       room |-> size, missing |-> null])
ReadMetadata(size, null) ==
    Call("read_metadata", [cmd |-> "GetDataObject", oid |-> "F1E0", meta |-> TRUE, offset |-> 0, len |-> 28,
                           room |-> size, missing |-> null])
WriteData(type, offset, size, null) ==
    Call("write_data", [cmd |-> "SetDataObject", oid |-> "F1E0", meta |-> FALSE, erase |-> type = "erase",
                        type |-> type, offset |-> offset, len |-> size, missing |-> null])
WriteMetadata(size, null) ==
    Call("write_metadata", [cmd |-> "SetDataObject", oid |-> "F1E0", meta |-> TRUE, erase |-> FALSE,
                            type |-> "write", offset |-> 0, len |-> size, missing |-> null])
Authenticate(len, challenge, room, null) ==
    Call("signature", [cmd |-> "GetSignature", len |-> len, challenge |-> challenge, key |-> "E0F0", room |-> room,
                       missing |-> null])
SetScheme(session) == Call("scheme", [cmd |-> "SetAuthScheme", scheme |-> "dtls", key |-> "E0F0", session |-> session])
FormMessage(message, session, extra) ==
    Call("message", [cmd |-> "GetMessage", message |-> message, session |-> session, extra |-> extra])
ProcessMessage(message, session, len) ==
    Call("message", [cmd |-> "PutMessage", message |-> message, session |-> session, len |-> len])
Crypto(cmd, session, len, room) ==
    Call("crypto", [cmd |-> cmd, session |-> session, len |-> len, stream |-> len + OVERHEAD_UPDOWNLINK, room |-> room])
Close(session) == Call("close", [cmd |-> "CloseSession", session |-> session])

(* What the callbacks of mbedTLS make of theirs. *)
SignFuncWrap(hash_len) == Sign(Smaller(hash_len, 32), "E0F1", 141)
EcdsaSign(blen) == Sign(blen, "E100", 141)
EcdsaVerify(blen, siglen) == Verify(Smaller(blen, 32), siglen, TRUE, 68, "P256")
EcdsaGenkey == GenKeyPair("P256", FALSE, 133, "E100", "agree, authenticate")
EcdhGenPublic == GenKeyPair("P256", FALSE, 133, "E101", "agree, authenticate")
EcdhComputeShared == Ecdh("E101", "P256", 68, TRUE)
GenerateEccKeypair == GenKeyPair("P256", FALSE, 133, "E0F1", "authenticate, sign")
HardwarePoll(len) == CryptRandom(len)

CurrentLimitation == WriteData("write", 0, 1, FALSE)
HashArg(sequence, action, host, len, from) ==
    [cmd |-> "CalcHash", sequence |-> sequence, action |-> action, host |-> host, len |-> len, from |-> from,
     oid |-> "F1E0", context |-> CALC_HASH_SHA256_CONTEXT_SIZE, state |-> context, missing |-> FALSE]

(* optiga_crypt_hash_update: the first chunk brings the context, the last    *)
(* takes it back; when all fits, one chunk does both.                        *)
FirstChunk(size) ==
    LET both == CALC_HASH_FIXED_OVERHEAD_SIZE + CALC_HASH_IMPORT_AND_EXPORT_OVERHEAD_SIZE + CALC_HASH_SHA256_CONTEXT_SIZE
        import == CALC_HASH_FIXED_OVERHEAD_SIZE + CALC_HASH_IMPORT_OR_EXPORT_OVERHEAD_SIZE + CALC_HASH_SHA256_CONTEXT_SIZE
    IN IF wMaxCommsBuffer - both < size
       THEN [action |-> "import", len |-> Smaller(wMaxCommsBuffer - import, size), chaining |-> TRUE]
       ELSE [action |-> "both", len |-> size, chaining |-> FALSE]
NextChunkKept(size) ==
    LET export == CALC_HASH_FIXED_OVERHEAD_SIZE + CALC_HASH_IMPORT_OR_EXPORT_OVERHEAD_SIZE
    IN IF wMaxCommsBuffer - export < size
       THEN [action |-> "none", len |-> Smaller(wMaxCommsBuffer - CALC_HASH_FIXED_OVERHEAD_SIZE, size), chaining |-> TRUE]
       ELSE [action |-> "none", len |-> size, chaining |-> FALSE]

NextChunk(size) ==
    LET export == CALC_HASH_FIXED_OVERHEAD_SIZE + CALC_HASH_IMPORT_OR_EXPORT_OVERHEAD_SIZE
    IN IF wMaxCommsBuffer - export < size
       THEN [action |-> "none", len |-> Smaller(wMaxCommsBuffer - CALC_HASH_FIXED_OVERHEAD_SIZE, size), chaining |-> TRUE]
       ELSE [action |-> "export", len |-> size, chaining |-> FALSE]

-----------------------------------------------------------------------------
Init ==
    /\ pc = "idle" /\ call = None /\ arg = NoArg /\ k = Start /\ buffer = {} /\ req = Refuse("none") /\ ans = NoAns
    /\ wMaxCommsBuffer = Unknown /\ linked = FALSE /\ context = NotHashing /\ left = 0 /\ chaining = FALSE
    /\ out = NoOut /\ ret = "none" /\ tries = 0 /\ ready = FALSE /\ fed = NotHashing
    /\ chip \in {[open |-> FALSE, hash |-> NotHashing, auth |-> "none", challenge |-> "none", used |-> n,
                  from |-> 0, to |-> 0, sent |-> 0] : n \in {0, ObjectSize}}

Api == <<wMaxCommsBuffer, linked, context, left, chaining, tries, ready, fed>>

(* A command starts with its own buffer and from the beginning. *)
Run(a) ==
    /\ pc' = "issue" /\ arg' = a /\ k' = Start /\ buffer' = InitialBuffer(a, wMaxCommsBuffer)
    /\ req' = Refuse("none") /\ ans' = NoAns
Return(status) == pc' = "done" /\ ret' = status /\ UNCHANGED <<arg, k, buffer, req, ans>>

(* history: what the device is told of the object by this call *)
Unwritten(c, from) == [c EXCEPT !.from = from, !.to = from, !.sent = 0]

(* optiga_util refuses some calls itself. *)
Rejected(c) ==
    \/ c.api \in {"read_data", "read_metadata"} /\ (c.arg.missing \/ c.arg.room = 0)
    \/ c.api = "write_data" /\ (c.arg.missing \/ c.arg.len = 0 \/ c.arg.type \notin {"write", "erase"})

Begin ==
    /\ pc = "idle" /\ out' = NoOut
    /\ \E c \in IF context = NotHashing THEN Calls ELSE Meanwhile :
        /\ call' = c
        /\ IF Rejected(c) THEN Return("error") /\ chip' = chip
           ELSE /\ Run(c.arg) /\ ret' = "none"
                /\ chip' = Unwritten(chip, IF c.arg.cmd = "SetDataObject" THEN c.arg.offset ELSE 0)
    /\ UNCHANGED Api

OpenComms ==
    /\ (pc = "idle" /\ tries = 0) \/ pc = "boot"
    /\ call' = [api |-> "open"] /\ out' = NoOut
    /\ \/ Return("error") /\ UNCHANGED <<chip, linked>>
       \/ /\ Run([cmd |-> "OpenApplication"]) /\ ret' = "none" /\ linked' = TRUE
          /\ chip' = [Unwritten(chip, 0) EXCEPT !.open = FALSE, !.hash = NotHashing, !.auth = "none",
                                                !.challenge = "none"]
    /\ tries' = tries + 1
    /\ UNCHANGED <<wMaxCommsBuffer, context, left, chaining, ready, fed>>

(* Bound: what is hashed is independent of the object and the key, so it is  *)
(* explored on a device that has seen neither.                               *)
HashStart ==
    /\ pc = "idle" /\ chip.used = 0 /\ chip.auth = "none"
    /\ call' = [api |-> "hash_start"]
    /\ Run(HashArg("start", "export", TRUE, 0, 0)) /\ ret' = "none" /\ out' = NoOut
    /\ chip' = Unwritten(chip, 0) /\ UNCHANGED Api

HashUpdate ==
    /\ pc = "idle" /\ context # NotHashing
    /\ \E size \in Updates, host \in BOOLEAN :
        LET first == IF host THEN FirstChunk(size) ELSE [action |-> "both", len |-> size, chaining |-> FALSE] IN
        /\ fed + size <= MaxFed
        /\ call' = [api |-> "hash_update", size |-> size]
        /\ Run(HashArg("continue", first.action, host, first.len, IF host THEN fed ELSE 0))
        /\ left' = size /\ chaining' = first.chaining
    /\ ret' = "none" /\ out' = NoOut /\ chip' = Unwritten(chip, 0)
    /\ UNCHANGED <<wMaxCommsBuffer, linked, context, tries, ready, fed>>

HashFinalize ==
    /\ pc = "idle" /\ context # NotHashing /\ call' = [api |-> "hash_finalize"]
    /\ Run(HashArg("final", "import", TRUE, 0, 0)) /\ ret' = "none" /\ out' = NoOut
    /\ chip' = Unwritten(chip, 0) /\ UNCHANGED Api

-----------------------------------------------------------------------------
(* What a call returns for the status of its command. *)
Result(status) ==
    IF status = "ok" THEN "success"
    ELSE IF call.api \in {"random", "hash_start", "hash_finalize", "keypair", "sign"} THEN "error" ELSE status

(* A command is over.  hash_update goes on with the next chunk, opening the  *)
(* application with the question for the device's limit.                     *)
End(status) ==
    IF status = "ok" /\ arg.cmd = "OpenApplication" /\ wMaxCommsBuffer = Unknown
    THEN Run([cmd |-> "GetMaxCommsBuffer"]) /\ UNCHANGED <<ret, left, chaining, fed>>
    ELSE IF status = "ok" /\ call.api = "hash_update" /\ chaining
    THEN LET next == NextChunk(left - arg.len)
         IN /\ Run(HashArg("continue", next.action, TRUE, next.len, arg.from + arg.len))
            /\ left' = left - arg.len /\ chaining' = next.chaining /\ UNCHANGED <<ret, fed>>
    ELSE /\ Return(Result(status)) /\ left' = 0 /\ chaining' = FALSE
         /\ fed' = IF status # "ok" THEN fed
                   ELSE CASE call.api = "hash_start" -> 0
                          [] call.api = "hash_update" -> fed + call.size
                          [] OTHER -> fed
Held == UNCHANGED <<call, wMaxCommsBuffer, linked, tries, ready>>

(* A read that failed after some bytes, because there are no more, is a      *)
(* success; any other failure clears them.                                   *)
Fail(status, code) ==
    IF arg.cmd = "GetDataObject" /\ k.done # 0 /\ code = "bound" THEN End("ok") /\ out' = out
    ELSE /\ End(IF arg.cmd = "Decrypt" THEN "decrypt" ELSE status)
         /\ out' = IF arg.cmd = "GetDataObject" THEN NoOut ELSE out

Issue ==
    /\ pc = "issue"
    /\ LET r == Request(arg, k, wMaxCommsBuffer) IN
        IF r.status # "ok" THEN Fail(r.status, "none") /\ UNCHANGED <<context, chip>>
        ELSE IF ~linked THEN Fail("null", "none") /\ UNCHANGED <<context, chip>>
        ELSE /\ pc' = "sent" /\ req' = r
             /\ buffer' = Write(IF arg.cmd = "GetSignature" /\ k.step < 2 THEN {} ELSE buffer, r.writes)
             /\ UNCHANGED <<arg, k, ans, context, left, chaining, out, ret, chip, fed>>
    /\ Held

HeapCommands == {"GetDataObject", "SetDataObject", "GetSignature", "GetRandom", "CalcHash", "VerifySign",
                 "GenerateKeyPair", "CalculateSign", "CalculateSharedSecret", "DeriveKey", "GetMessage"}
AllocFails ==
    /\ pc = "issue" /\ arg.cmd \in HeapCommands /\ k = Start /\ wMaxCommsBuffer # Unknown
    /\ End("memory") /\ UNCHANGED <<context, chip, out>> /\ Held

-----------------------------------------------------------------------------
(* The device. *)
Sent == Payload(buffer, req.base, req.payload)
Says(tag) == \E p \in Sent : p.what[1] = tag
Value(tag) == (CHOOSE p \in Sent : p.what[1] = tag).what[2]
Length(tag) == (CHOOSE p \in Sent : p.what[1] = tag).len

Answer(len) == [code |-> "ok", len |-> len]
Error(code) == [code |-> code, len |-> LEN_APDUHEADER]
NoAnswer == [chip |-> chip, ans |-> Error("other")]
Done(c, a) == [chip |-> c, ans |-> a]

DeviceRead ==
    LET n == Smaller(Value("length"), chip.used - Value("offset"))
    IN IF req.param = "metadata" THEN Done(chip, Answer(LEN_APDUHEADER + 24))
       ELSE IF n <= 0 THEN Done(chip, Error("bound"))
       ELSE Done(chip, [code |-> "ok", len |-> LEN_APDUHEADER + n, from |-> Value("offset"), n |-> n])

DeviceWrite ==
    LET from == Value("offset")
        to == from + Length("data")
    IN IF req.param = "metadata" THEN Done(chip, Answer(LEN_APDUHEADER))
       ELSE IF from > chip.used \/ to > ObjectSize THEN Done(chip, Error("bound"))
       ELSE Done([chip EXCEPT !.used = IF req.param = "erase" THEN to ELSE Larger(to, @),
                              !.to = IF from = @ /\ Value("data") = from - chip.from THEN to ELSE Scrambled],
                 Answer(LEN_APDUHEADER))

DeviceHash ==
    LET sequence == Value("sequence")
        before == IF sequence = "start" THEN 0 ELSE IF Says("import") THEN Value("import") ELSE chip.hash
        after == IF Says("data") THEN IF Value("data") = before THEN before + Value("inlength") ELSE Scrambled
                 ELSE IF Says("oid") THEN before + Value("length") ELSE before
    IN IF before = NotHashing THEN NoAnswer
       ELSE IF sequence = "final"
       THEN Done([chip EXCEPT !.hash = NotHashing],
                 [code |-> "ok", len |-> LEN_APDUHEADER + LEN_TAG_ENCODING + HASH_LEN, digest |-> after])
       ELSE Done([chip EXCEPT !.hash = after],
                 IF Says("export")
                 THEN [code |-> "ok", len |-> LEN_APDUHEADER + LEN_TAG_ENCODING + CALC_HASH_SHA256_CONTEXT_SIZE,
                       context |-> after]
                 ELSE Answer(LEN_APDUHEADER))

DeviceSignature ==
    CASE req.param = "ecdsa" -> Done([chip EXCEPT !.auth = Value("oid")], Answer(LEN_APDUHEADER))
      [] req.param = "challenge" -> Done([chip EXCEPT !.challenge = Value("challenge")], Answer(LEN_APDUHEADER))
      [] req.param = "signature" ->
            IF "none" \in {chip.auth, chip.challenge} THEN NoAnswer
            ELSE Done(chip, [code |-> "ok", len |-> LEN_APDUHEADER + 70, of |-> <<chip.auth, chip.challenge>>])

(* A message leaves in fragments, each with the header of the message and    *)
(* its offset; what is encrypted or decrypted comes back as it was cut.      *)
DeviceMessage ==
    LET room == DeviceMax - OVERHEAD_ENCDEC_RESPONSE - 12
        n == Smaller(MessageLen[req.param] - chip.sent, room)
        last == chip.sent + n = MessageLen[req.param]
        tag == IF last THEN "final" ELSE IF chip.sent = 0 THEN "start" ELSE "continue"
    IN Done([chip EXCEPT !.sent = IF last THEN 0 ELSE @ + n],
            [code |-> "ok", len |-> OVERHEAD_ENCDEC_RESPONSE + 12 + n, tag |-> tag, n |-> n, from |-> chip.sent])

DeviceCrypto ==
    LET tag == CHOOSE t \in {"start", "continue", "final"} : Says(t)
        n == Value(tag)
        extra == (IF Value("data") = 0 THEN 8 ELSE 0) + (IF tag = "final" THEN 8 ELSE 0)
        m == IF req.param = "Encrypt" THEN n + extra ELSE n - extra
    IN IF m <= 0 THEN NoAnswer
       ELSE Done(chip, [code |-> "ok", len |-> OVERHEAD_ENCDEC_RESPONSE + m, tag |-> tag, n |-> m,
                        from |-> Value("data")])

Size(curve) == 2 * KeyLen[curve] + 4
Device ==
    IF ~Fills(buffer, req.base, req.payload) \/ (arg.cmd # "OpenApplication" /\ ~chip.open) THEN NoAnswer
    ELSE CASE arg.cmd = "OpenApplication" -> Done([chip EXCEPT !.open = TRUE], Answer(LEN_APDUHEADER))
           [] arg.cmd = "GetMaxCommsBuffer" -> Done(chip, Answer(LEN_APDUHEADER + 2))
           [] arg.cmd = "GetDataObject" -> DeviceRead
           [] arg.cmd = "SetDataObject" -> DeviceWrite
           [] arg.cmd = "GetRandom" -> Done(chip, Answer(LEN_APDUHEADER + Value("length")))
           [] arg.cmd = "CalcHash" -> DeviceHash
           [] arg.cmd = "GetSignature" -> DeviceSignature
           [] arg.cmd = "GenerateKeyPair" ->
                 Done(chip, Answer(LEN_APDUHEADER + LEN_TAG_ENCODING + Size(arg.curve)
                                   + IF arg.export THEN LEN_TAG_ENCODING + KeyLen[arg.curve] + 2 ELSE 0))
           [] arg.cmd = "CalculateSign" -> Done(chip, Answer(LEN_APDUHEADER + 72))
           [] arg.cmd = "CalculateSharedSecret" ->
                 Done(chip, Answer(LEN_APDUHEADER + IF arg.export THEN KeyLen[arg.curve] ELSE 0))
           [] arg.cmd = "DeriveKey" -> Done(chip, Answer(LEN_APDUHEADER + IF arg.export THEN Value("length") ELSE 0))
           [] arg.cmd = "GetMessage" -> DeviceMessage
           [] arg.cmd \in {"Encrypt", "Decrypt"} -> DeviceCrypto
           [] OTHER -> Done(chip, Answer(LEN_APDUHEADER))

(* A response longer than there is room for is an error of the link. *)
DeviceAnswers ==
    /\ pc = "sent" /\ Device.ans.len <= req.room
    /\ chip' = Device.chip /\ ans' = Device.ans
    /\ pc' = IF Device.ans.code = "ok" THEN "answered" ELSE "failed"
    /\ buffer' = IF arg.cmd \in {"Encrypt", "Decrypt"} THEN buffer
                 ELSE {p \in buffer : Apart(p, [at |-> req.at, len |-> Device.ans.len])}
    /\ UNCHANGED <<call, arg, k, req, out, ret>> /\ UNCHANGED Api

DeviceRefuses ==
    /\ pc = "sent" /\ ans' = Error("other") /\ pc' = "failed"
    /\ UNCHANGED <<call, arg, k, buffer, req, out, ret, chip>> /\ UNCHANGED Api

(* The tag of a fragment is not the one that was asked for. *)
DeviceMistakes ==
    /\ pc = "sent" /\ arg.cmd \in {"GetMessage", "Encrypt", "Decrypt"}
    /\ Device.ans.code = "ok" /\ Device.ans.len <= req.room
    /\ ans' = [Device.ans EXCEPT !.tag = "odd"] /\ pc' = "answered" /\ chip' = Device.chip
    /\ UNCHANGED <<call, arg, k, buffer, req, out, ret>> /\ UNCHANGED Api

(* The request is refused or lost, or its answer is: the device may or may   *)
(* not have done what it was asked to.                                       *)
CommsFails ==
    /\ pc = "sent" /\ chip' \in {chip, Device.chip}
    /\ Fail("exec", "none") /\ UNCHANGED context /\ Held

(* CmdLib_GetDeviceError asks for the code; Decrypt does not. *)
GetError ==
    /\ pc = "failed"
    /\ \/ Fail("device", ans.code)
       \/ arg.cmd \notin {"Decrypt", "OpenApplication"} /\ Fail("exec", "none")
    /\ UNCHANGED <<context, chip>> /\ Held

-----------------------------------------------------------------------------
(* What a command does with a response. *)
Again(done, total) ==
    /\ pc' = "issue" /\ k' = [step |-> Smaller(k.step + 1, 2), done |-> done, total |-> total] /\ ans' = NoAns
    /\ UNCHANGED <<arg, buffer, req, ret, left, chaining, fed>>
Appended(n, from) == [n |-> out.n + n, whole |-> out.whole /\ from = out.n]
Simply == UNCHANGED context

TakeData ==
    LET len == ans.len - LEN_APDUHEADER
        total == k.done + len
        wReadLen == IF arg.meta THEN 0 ELSE Smaller(wMaxCommsBuffer - LEN_APDUHEADER, arg.len - k.done)
    IN /\ arg.cmd = "GetDataObject" /\ Simply
       /\ IF arg.room - k.done < len THEN Fail("memory", "none")
          ELSE /\ out' = IF arg.meta THEN [n |-> len, whole |-> TRUE] ELSE Appended(len, ans.from - arg.offset)
               /\ IF total # arg.len /\ wReadLen = len THEN Again(total, 0) ELSE End("ok")

TakeWritten ==
    LET done == k.done + Smaller(wMaxCommsBuffer - 8, arg.len - k.done)
    IN /\ arg.cmd = "SetDataObject" /\ Simply /\ out' = out
       /\ IF done # arg.len THEN Again(done, 0) ELSE End("ok")

TakeSignatureOnceMore ==
    LET len == ans.len - LEN_APDUHEADER
    IN /\ arg.cmd = "GetSignature" /\ Simply
       /\ IF k.step <= 2 THEN Again(0, 0) /\ out' = out
          ELSE IF arg.room < len THEN End("memory") /\ out' = [out EXCEPT !.n = len]
          ELSE End("ok") /\ out' = [n |-> len, whole |-> ans.of = <<arg.key, arg.challenge>>]

TakeSignature ==
    LET len == ans.len - LEN_APDUHEADER
    IN /\ arg.cmd = "GetSignature" /\ Simply
       /\ IF k.step < 2 THEN Again(0, 0) /\ out' = out
          ELSE IF arg.room < len THEN End("memory") /\ out' = [out EXCEPT !.n = len]
          ELSE End("ok") /\ out' = [n |-> len, whole |-> ans.of = <<arg.key, arg.challenge>>]

TakeHash ==
    /\ arg.cmd = "CalcHash" /\ End("ok")
    /\ out' = IF "digest" \in DOMAIN ans THEN [n |-> HASH_LEN, whole |-> ans.digest = fed] ELSE out
    /\ context' = IF "context" \in DOMAIN ans THEN ans.context ELSE context

(* The public key, and the private one if it is given out, each behind its   *)
(* tag, in either order; the loop ends at the end of the response.           *)
TakeKeys ==
    /\ arg.cmd = "GenerateKeyPair" /\ Simply
    /\ IF Size(arg.curve) > arg.room THEN End("memory") /\ out' = out
       ELSE End("ok") /\ out' = [out EXCEPT !.n = Size(arg.curve)]

TakeValue ==
    LET len == ans.len - LEN_APDUHEADER
    IN /\ arg.cmd \in {"GetRandom", "CalculateSign", "CalculateSharedSecret", "DeriveKey"} /\ Simply
       /\ IF arg.cmd \in {"CalculateSharedSecret", "DeriveKey"} /\ ~arg.export THEN End("ok") /\ out' = out
          ELSE IF len > arg.room THEN End("memory") /\ out' = out
          ELSE End("ok") /\ out' = [out EXCEPT !.n = len]

(* Each fragment goes to CallBack_GetMessage, which allocates for the whole  *)
(* message at the first one and puts the others at their offset.             *)
TakeMessage ==
    /\ arg.cmd = "GetMessage" /\ Simply
    /\ IF ans.tag = "odd" THEN End("tag") /\ out' = out
       ELSE \/ /\ out' = Appended(ans.n, IF k.step = 0 THEN 0 ELSE ans.from)
               /\ IF ans.tag = "final" THEN End("ok") ELSE Again(0, 0)
            \/ k.step = 0 /\ End("error") /\ out' = out

TakeCrypto ==
    /\ arg.cmd \in {"Encrypt", "Decrypt"} /\ Simply
    /\ IF ans.tag # FragSeq(arg.len, k.done, wMaxCommsBuffer) THEN End("tag") /\ out' = out
       ELSE LET done == k.done + Smaller(arg.len - k.done, wMaxPlainText(wMaxCommsBuffer))
            IN /\ out' = [n |-> out.n + ans.n, whole |-> out.whole /\ ans.from = k.done]
               /\ IF done = arg.len THEN End("ok") ELSE Again(done, k.total + ans.n)

TakeNothing ==
    /\ arg.cmd \in {"OpenApplication", "SetAuthScheme", "VerifySign", "PutMessage", "CloseSession"}
    /\ End("ok") /\ out' = out /\ Simply

TakeLimit ==
    /\ pc = "answered" /\ arg.cmd = "GetMaxCommsBuffer" /\ wMaxCommsBuffer' = DeviceMax
    /\ Return("success") /\ UNCHANGED <<call, linked, context, left, chaining, out, tries, ready, chip, fed>>

Take ==
    /\ pc = "answered"
    /\ \/ TakeData \/ TakeWritten \/ TakeSignature \/ TakeHash \/ TakeKeys
       \/ TakeValue \/ TakeMessage \/ TakeCrypto \/ TakeNothing
    /\ UNCHANGED chip /\ Held

-----------------------------------------------------------------------------
(* The call returns.  TrustX opens the application, more than once if need   *)
(* be, or resets the controller; then it sets the current limit.             *)
Forget ==
    /\ call' = None /\ arg' = NoArg /\ k' = Start /\ buffer' = {} /\ req' = Refuse("none") /\ ans' = NoAns
    /\ out' = NoOut /\ ret' = "none"
Fresh == Unwritten(chip, 0)

SetLimit ==
    /\ pc = "done" /\ call.api = "open" /\ ret = "success"
    /\ call' = [CurrentLimitation EXCEPT !.api = "limit"] /\ Run(CurrentLimitation.arg) /\ ret' = "none"
    /\ UNCHANGED <<out, chip>> /\ UNCHANGED Api

RetryOpen ==
    /\ pc = "done" /\ call.api = "open" /\ ret # "success" /\ tries < MaxTries
    /\ pc' = "boot" /\ Forget /\ chip' = Fresh /\ UNCHANGED Api

SystemReset ==
    /\ pc = "done" /\ call.api = "open" /\ ret # "success" /\ tries = MaxTries
    /\ pc' = "idle" /\ Forget /\ chip' = [Fresh EXCEPT !.hash = NotHashing]
    /\ wMaxCommsBuffer' = Unknown /\ linked' = FALSE /\ context' = NotHashing /\ left' = 0 /\ chaining' = FALSE
    /\ tries' = 0 /\ ready' = FALSE /\ fed' = NotHashing

(* The caller drops a context it has finalized; a hash the device still      *)
(* holds is of no more use, as a start replaces it.                          *)
Finish ==
    /\ pc = "done" /\ call.api # "open" /\ pc' = "idle" /\ Forget
    /\ ready' = (ready \/ (call.api = "limit" /\ ret = "success"))
    /\ tries' = IF call.api = "limit" THEN 1 ELSE tries
    /\ LET over == call.api = "hash_finalize" \/ context = NotHashing
       IN IF over THEN context' = NotHashing /\ fed' = NotHashing /\ chip' = [Fresh EXCEPT !.hash = NotHashing]
          ELSE chip' = Fresh /\ UNCHANGED <<context, fed>>
    /\ UNCHANGED <<wMaxCommsBuffer, linked, left, chaining>>

-----------------------------------------------------------------------------
Caller == \/ OpenComms \/ Begin \/ HashStart \/ HashUpdate \/ HashFinalize
Command == \/ Issue \/ AllocFails \/ GetError \/ Take \/ TakeLimit
           \/ SetLimit \/ RetryOpen \/ SystemReset \/ Finish
Chip == \/ DeviceAnswers \/ DeviceRefuses \/ DeviceMistakes \/ CommsFails
Next == Caller \/ Command \/ Chip

(* A thread inside a call runs, the link gives every request an answer or an *)
(* error, and a failed attempt to open is followed by another one.           *)
Fairness == WF_vars(Command) /\ WF_vars(Chip) /\ WF_vars(pc = "boot" /\ OpenComms)
Spec == Init /\ [][Next]_vars /\ Fairness

-----------------------------------------------------------------------------
(* optiga_crypt, CommandLib, TrustX: every variable has its range. *)
TypeOK ==
    /\ pc \in {"idle", "boot", "issue", "sent", "answered", "failed", "done"}
    /\ wMaxCommsBuffer \in {Unknown, DeviceMax} /\ {linked, ready, chaining} \subseteq BOOLEAN
    /\ context \in Scrambled..MaxFed /\ fed \in NotHashing..MaxFed /\ left \in 0..MaxFed
    /\ tries \in 0..MaxTries /\ chip.used \in 0..ObjectSize /\ chip.hash \in Scrambled..MaxFed
    /\ k.done \in 0..65535 /\ k.step \in 0..2 /\ out.n \in Nat

(* Each request, and in the loops each of the requests that reuse the buffer *)
(* of the one before (GetDataObject, SetDataObject, EncDecHelper), is filled *)
(* by its parts from the first byte to the last, and stays in its memory.    *)
RequestsWellFormed ==
    pc = "sent" =>
        /\ Fills(buffer, req.base, req.payload)
        /\ \A p \in req.writes : p.at + p.len <= req.alloc
        /\ req.base + LEN_APDUHEADER + req.payload <= req.alloc

(* A response never runs over the end of the memory it is written to, though *)
(* some commands promise more room than they have.                           *)
AnswersFit ==
    pc = "answered" => req.at + ans.len <= IF arg.cmd \in {"Encrypt", "Decrypt"} THEN arg.room ELSE req.alloc

(* One buffer holds a request, then its response, then the next request.     *)
MemoryHolds == RequestsWellFormed /\ AnswersFit

Succeeded(apis) == pc = "done" /\ call.api \in apis /\ ret = "success"

(* optiga_util_read_data gives all there is of what was asked for, in order  *)
(* and no more than the caller has room for, or nothing.                     *)
ReadDelivers ==
    pc = "done" /\ call.api = "read_data" =>
        IF ret = "success"
        THEN out.whole /\ out.n = Smaller(call.arg.len, chip.used - call.arg.offset) /\ out.n <= call.arg.room
        ELSE out.n = 0

(* optiga_util_write_data: a success means every byte is in its place; after *)
(* an error the object holds the first of the fragments.                     *)
WrittenInOrder ==
    pc = "done" /\ call.api = "write_data" /\ ret # "error" =>
        /\ chip.to \in call.arg.offset..(call.arg.offset + call.arg.len)
        /\ ret = "success" => chip.to = call.arg.offset + call.arg.len

(* A digest is that of all the data of the updates that succeeded, whatever  *)
(* was hashed in between, failed, or had to be cut into chunks.              *)
DigestOfAllData == Succeeded({"hash_finalize"}) => out.n = HASH_LEN /\ out.whole

(* A handshake message, or a record encrypted or decrypted, is complete and  *)
(* in order when the call succeeds.                                          *)
MessageInPieces ==
    /\ Succeeded({"message"}) /\ call.arg.cmd = "GetMessage" =>
            out.whole /\ out.n = MessageLen[call.arg.message]
    /\ Succeeded({"crypto"}) =>
            out.whole /\ out.n = call.arg.len + IF call.arg.cmd = "Encrypt" THEN 16 ELSE 0 - 16

(* A signature that CmdLib_GetSignature delivers is of this call's challenge *)
(* and of the key this call named.                                           *)
SignatureOfChallenge == Succeeded({"signature"}) => out.whole /\ out.n <= call.arg.room

(* What a call that needs several commands delivers adds up to what it was   *)
(* asked for, whatever the device limits, refuses or does in between.        *)
PiecesAddUp == ReadDelivers /\ WrittenInOrder /\ DigestOfAllData /\ MessageInPieces /\ SignatureOfChallenge

(* Every call returns: no loop over fragments goes on for ever.              *)
CallsReturn == pc # "idle" ~> pc = "idle"
=============================================================================
