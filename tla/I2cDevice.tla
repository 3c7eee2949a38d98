------------------------------ MODULE I2cDevice ------------------------------
(* The OPTIGA Trust X at the far end of the I2C bus, as the protocol stack  *)
(* under src/lib/optiga/comms uses it.  The device is not part of the       *)
(* repository: this module gives the frames both sides exchange, a fault    *)
(* model for the wire and a device that follows the protocol.               *)
EXTENDS Integers, Sequences

CONSTANTS
    MaxRespFrags        \* fragments of the longest response

ASSUME ResponseAssumption == MaxRespFrags \in Nat

VARIABLES
    dev                 \* the device

Nr == 0..3                                  \* frame numbers
Succ(n) == (n + 1) % 4

(* The transport layer body of a frame: its chaining value and the call the *)
(* bytes belong to.  "crc" is a body whose first two bytes were overwritten *)
(* by the checksum of a control frame.                                      *)
Chaining == {"no", "first", "inter", "last", "error"}
Body(p, c) == [pctr |-> p, call |-> c]
NoBody == Body("none", 0)
CrcBody == Body("crc", 0)

(* The chaining value of fragment i of n. *)
Pctr(i, n) ==
    CASE n = 1 -> "no"
      [] n > 1 /\ i = 1 -> "first"
      [] n > 1 /\ i > 1 /\ i < n -> "inter"
      [] OTHER -> "last"

Frame(k, s, f, a, b) == [kind |-> k, seq |-> s, fr |-> f, ack |-> a, body |-> b, good |-> TRUE]
NoFrame == Frame("none", "ack", 0, 0, NoBody)

(* What a disturbed transfer may turn a frame into: too short, or with a    *)
(* checksum that does not match and any frame type.                         *)
Corrupt(f) ==
    {[f EXCEPT !.good = FALSE, !.kind = k] : k \in {"short", "data", "ctrl"}}
    \cup {[f EXCEPT !.good = FALSE, !.kind = "ctrl", !.seq = "resync"]}

DevInit ==
    dev = [rx |-> 3, tx |-> 3,              \* frame numbers
           out |-> <<>>,                    \* frames ready to be read
           sent |-> NoFrame,                \* last data frame, until acknowledged
           got |-> 0,                       \* fragments of the command so far
           job |-> FALSE,                   \* a command is complete and not answered
           resp |-> <<>>,                   \* fragments of the response still to send
           all |-> <<>>,                    \* the whole response
           call |-> 0,                      \* the call the response answers
           runs |-> 0,                      \* commands run in the current call
           garbled |-> FALSE]               \* took fragments out of order, or bytes nobody submitted

Ctrl(d, s) == Frame("ctrl", s, 0, IF s = "nack" THEN Succ(d.rx) ELSE d.rx, NoBody)

(* Offer the next response fragment, when there is one and none is pending. *)
Offer(d) ==
    IF d.resp = <<>> \/ d.sent # NoFrame THEN d
    ELSE LET f == Frame("data", "ack", Succ(d.tx), d.rx, Head(d.resp))
         IN  [d EXCEPT !.tx = Succ(d.tx), !.sent = f, !.resp = Tail(d.resp),
                       !.out = Append(d.out, f)]

Answer(d, r) == [d EXCEPT !.resp = r, !.all = r, !.got = 0]

ChainingError(d) == [Answer(d, <<Body("error", d.call)>>) EXCEPT !.garbled = TRUE]

(* The transport layer of the device: a fragment b accepted in call c.      *)
Complete(d, c, bad) ==
    [d EXCEPT !.got = 0, !.job = TRUE, !.call = c, !.resp = <<>>, !.all = <<>>,
              !.runs = IF bad \/ @ = 3 THEN @ ELSE @ + 1, !.garbled = @ \/ bad]
Deliver(d, b, c) ==
    CASE b.pctr = "crc"   -> {ChainingError(d), Complete(d, c, TRUE)}
      [] b.pctr = "error" -> {Answer(d, d.all)}
      [] b.pctr = "no"    -> {IF d.got = 0 THEN Complete(d, c, FALSE) ELSE ChainingError(d)}
      [] b.pctr = "first" -> {IF d.got = 0 THEN [d EXCEPT !.got = 1, !.resp = <<>>] ELSE ChainingError(d)}
      [] b.pctr = "inter" -> {IF d.got > 0 THEN d ELSE ChainingError(d)}
      [] OTHER            -> {IF d.got > 0 THEN Complete(d, c, FALSE) ELSE ChainingError(d)}

Acked(d, a) == IF d.sent # NoFrame /\ a = d.sent.fr THEN [d EXCEPT !.sent = NoFrame] ELSE d

(* Every state the device may be in after the frame f of call c.            *)
Receive(d, f, c) ==
    IF ~f.good THEN {[d EXCEPT !.out = <<Ctrl(d, "nack")>>]}
    ELSE IF f.seq = "resync" THEN
        {[d EXCEPT !.rx = 3, !.tx = 3, !.out = <<>>, !.sent = NoFrame, !.got = 0,
                   !.job = FALSE, !.resp = <<>>, !.garbled = FALSE]}
    ELSE IF f.kind = "ctrl" THEN
        CASE f.seq = "nack" ->
                {[d EXCEPT !.out = IF d.sent # NoFrame THEN <<[d.sent EXCEPT !.ack = d.rx]>> ELSE <<Ctrl(d, "ack")>>],
                 [d EXCEPT !.out = <<Ctrl(d, "nack")>>]}
          [] OTHER -> {Offer([Acked(d, f.ack) EXCEPT !.out = <<>>])}
    ELSE IF f.fr = Succ(d.rx) THEN
        LET e == [Acked(d, f.ack) EXCEPT !.rx = f.fr, !.out = <<>>]
        IN  UNION {LET ack == [x EXCEPT !.out = <<Ctrl(x, "ack")>>]
                   IN  IF x.job THEN {ack, x} ELSE {Offer(ack)} : x \in Deliver(e, f.body, c)}
    ELSE IF f.fr = d.rx THEN
        {[d EXCEPT !.out = IF d.sent # NoFrame THEN <<[d.sent EXCEPT !.ack = d.rx]>> ELSE <<Ctrl(d, "ack")>>]}
    ELSE {[d EXCEPT !.out = <<>>]}

(* The device finishes a command and offers its response.                   *)
DevRun ==
    /\ dev.job
    /\ \E n \in 1..MaxRespFrags :
          LET r == [i \in 1..n |-> Body(Pctr(i, n), dev.call)]
          IN  dev' = Offer([Answer(dev, r) EXCEPT !.job = FALSE])
=============================================================================
