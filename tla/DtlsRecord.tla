------------------------------ MODULE DtlsRecord ------------------------------
(* The DTLS record layer of the OPTIGA host library (lib/optiga/dtls):       *)
(* replay windows, epochs, sequence numbers, protection of records and       *)
(* alerts.  A record is [type, epoch, seq, sealed, body]; what the library   *)
(* keeps between calls is the record rl, what it has put on the wire is      *)
(* remembered in wire.                                                       *)
EXTENDS Integers, Sequences, FiniteSetsExt, SequencesExt

CONSTANTS
    WindowSize,         \* bits of a replay window (32 in the code)
    MaxSeq              \* the largest sequence number (2^48 - 1 in the code)

ASSUME RecordAssumption == WindowSize \in Nat \ {0} /\ MaxSeq \in Nat

-----------------------------------------------------------------------------
(* Replay windows *)

InitialWindow == [lo |-> 0, hi |-> WindowSize - 1, got |-> {}]

(* A number below the window or already marked is ignored; otherwise the     *)
(* record is validated first, and only an accepted one marks or moves it.    *)
CheckReplay(w, s, valid) ==
    IF s < w.lo \/ s \in w.got \/ valid = "bad" THEN [win |-> w, verdict |-> "ignore"]
    ELSE IF valid # "ok" THEN [win |-> w, verdict |-> valid]
    ELSE IF s > w.hi
    THEN [win |-> [lo |-> s - (WindowSize - 1), hi |-> s,
                   got |-> {g \in w.got : g > s - WindowSize} \cup {s}],
          verdict |-> "moved"]
    ELSE [win |-> [w EXCEPT !.got = @ \cup {s}], verdict |-> "updated"]

(* Variant: the marks are cleared, the window stays. *)
SlideWindowInPlace(w) == [w EXCEPT !.got = {}]

(* After a flight the window starts behind the highest number received, and  *)
(* numbers that do not exist are marked as received.                         *)
SlideWindow(w) ==
    LET lo == IF w.got = {} THEN w.lo ELSE Max(w.got) + 1
        hi == lo + (WindowSize - 1)
    IN [lo |-> lo, hi |-> hi, got |-> (MaxSeq + 1) .. hi]

Slide(rl, completed) ==
    [rl EXCEPT !.win = SlideWindow(@), !.nextwin = IF completed THEN SlideWindow(@) ELSE @]

-----------------------------------------------------------------------------
(* State *)

InitialRecordLayer ==
    [next |-> 0,                \* wClientNextEpoch; wClientEpoch stays 0
     server |-> 0,              \* wServerEpoch
     seq |-> 0, nextseq |-> 0,  \* sClientSeqNumber, sClientNextSeqNumber
     enc |-> FALSE,             \* bEncDecFlag
     dec |-> FALSE,             \* bDecRecord: the last record was decrypted
     ccs |-> FALSE,             \* bRecvCCSRecord
     retransmit |-> FALSE,      \* fRetransmit
     win |-> InitialWindow, nextwin |-> InitialWindow,
     left |-> << >>]            \* bMultipleRecord records from pNextRecord on

(* The records sent: the highest number of each epoch, whether one was used  *)
(* twice, and what left unprotected after the change of the cipher spec.     *)
InitialWire == [top |-> [e \in {0, 1, 65535} |-> -1], reused |-> FALSE, clear |-> {}]

Log(wire, e, s, sealed, type) ==
    [top |-> [wire.top EXCEPT ![e] = s],
     reused |-> wire.reused \/ s <= wire.top[e],
     clear |-> IF e # 0 /\ ~sealed THEN wire.clear \cup {type} ELSE wire.clear]

-----------------------------------------------------------------------------
(* Sending: r is [rl, wire, ok], fault is "none", "malloc", "chip"           *)
(* (encryption) or "net".                                                    *)

PrepareRecord(rl, type, fault) ==
    LET later == rl.next > 0
        s == IF later THEN rl.nextseq ELSE rl.seq
        counted == IF later THEN [rl EXCEPT !.nextseq = @ + 1] ELSE [rl EXCEPT !.seq = @ + 1]
    IN IF s > MaxSeq \/ (rl.enc /\ fault = "chip") THEN [rl |-> rl, ok |-> FALSE]
       ELSE [rl |-> IF ~rl.enc /\ type = "ccs"
                    THEN [counted EXCEPT !.next = rl.next + 1, !.enc = TRUE] ELSE counted,
             ok |-> TRUE]

(* The first record of a retransmitted flight 5 goes back to the epoch before. *)
BeforeRetransmission(rl) ==
    IF rl.retransmit
    THEN [rl EXCEPT !.next = (@ + 65535) % 65536, !.enc = FALSE, !.retransmit = FALSE]
    ELSE rl

SendRecord(r, type, fault) ==
    LET back == BeforeRetransmission(r.rl)
        p == PrepareRecord(back, type, fault)
        s == IF back.next > 0 THEN back.nextseq ELSE back.seq
    IN IF fault = "malloc" /\ back.enc THEN [r EXCEPT !.rl = back, !.ok = FALSE]
       ELSE IF ~p.ok THEN [r EXCEPT !.rl = p.rl, !.ok = FALSE]
       ELSE [rl |-> p.rl, ok |-> fault # "net",
             wire |-> IF fault = "net" THEN r.wire
                      ELSE Log(r.wire, back.next, s, back.enc, type)]

(* Alerts leave in the epoch the server is still in, unless the last record  *)
(* received was protected.                                                   *)
AlertInOldEpoch(rl, error) ==
    /\ (rl.server # rl.next /\ ~rl.dec) \/ error \in {"interr", "hserr"}
    /\ rl.enc /\ rl.next # 0

SendAlert(rl, wire, error) ==
    IF AlertInOldEpoch(rl, error)
    THEN LET r == SendRecord([rl |-> [rl EXCEPT !.enc = FALSE, !.next = @ - 1],
                              wire |-> wire, ok |-> TRUE], "alert", "none")
         IN [r EXCEPT !.rl.enc = TRUE, !.rl.next = (@ + 1) % 65536]
    ELSE SendRecord([rl |-> rl, wire |-> wire, ok |-> TRUE], "alert", "none")

(* What a received alert means; for one that is not listed the callers read  *)
(* a variable nobody set.                                                    *)
AlertMeaning(level) == IF level = "unlisted" THEN {"fatal", "warning"} ELSE {level}

-----------------------------------------------------------------------------
(* Receiving *)

(* Encryption and decryption by the chip. *)
Decrypt(record, fault) == IF record.sealed /\ fault # "chip" THEN "ok" ELSE "decrypt"

(* ProcessRecord, called from the window check.  A change of the cipher spec *)
(* is taken in epoch 0 when the client has changed its own; a record of the  *)
(* client's epoch is decrypted, others are copied as they are.               *)
ProcessRecord(rl, record, expected, fault) ==
    LET r == [rl EXCEPT !.dec = FALSE]
        deciphered == Decrypt(record, fault)
    IN IF record.type = "ccs"
       THEN IF rl.next = rl.server + 1 /\ record.epoch = 0 /\ expected = "handshake"
            THEN [rl |-> [r EXCEPT !.ccs = TRUE], valid |-> "ok"]
            ELSE [rl |-> r, valid |-> "bad"]
       ELSE IF record.type = "app" /\ expected = "handshake" THEN [rl |-> r, valid |-> "bad"]
       ELSE IF ~rl.enc \/ record.epoch # rl.next THEN [rl |-> r, valid |-> "ok"]
       ELSE IF fault = "malloc" THEN [rl |-> r, valid |-> "malloc"]
       ELSE [rl |-> [r EXCEPT !.dec = (deciphered = "ok")], valid |-> deciphered]

(* Records of a datagram up to the first that is not one. *)
KnownRecords(datagram) ==
    LET junk == {i \in DOMAIN datagram : datagram[i].type = "junk"}
    IN IF junk = {} THEN datagram ELSE SubSeq(datagram, 1, Min(junk) - 1)

EpochAccepted(rl, e) ==
    /\ e \in {rl.server, rl.server + 1}
    /\ e = rl.server + 1 => rl.next = e
    /\ e \in {0, 1}

(* Which type the caller learns of; an unwanted, repeated or broken record   *)
(* is an error that the callers pass over.                                   *)
ReceiveRecord(rl, record, expected, fault) ==
    LET p == ProcessRecord(rl, record, expected, fault)
        old == IF record.epoch = 0 THEN rl.win ELSE rl.nextwin
        c == CheckReplay(old, record.seq, p.valid)
        seen == record.seq < old.lo \/ record.seq \in old.got
        after == IF seen THEN rl ELSE p.rl
    IN IF ~EpochAccepted(rl, record.epoch) THEN [rl |-> rl, status |-> "epoch"]
       ELSE IF c.verdict \in {"decrypt", "malloc"} THEN [rl |-> after, status |-> c.verdict]
       ELSE IF c.verdict = "ignore" THEN [rl |-> after, status |-> "error"]
       ELSE [rl |-> IF record.epoch = 0 THEN [after EXCEPT !.win = c.win]
                    ELSE [after EXCEPT !.nextwin = c.win],
             status |-> IF record.type \in {"alert", "app"} THEN record.type ELSE "ok"]

(* The change of the server's epoch when its cipher spec message is processed. *)
ChangeServerState(rl) == [rl EXCEPT !.server = @ + 1, !.ccs = FALSE]
=============================================================================
