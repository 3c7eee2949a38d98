------------------------------- MODULE I2cSync -------------------------------
(* What the data link layer of the OPTIGA protocol stack and the device know *)
(* of each other: the inductive invariant behind RunAndAnsweredOnce and      *)
(* ImplementsService.  Every frame carries a number of its own and the number *)
(* of the last frame taken, both on a circle of four; a frame that is not    *)
(* acknowledged is sent again under its number, and a re-sync puts both ends *)
(* back to the same place.  An end must never be more than one frame ahead,  *)
(* and what the device has to say must belong to the call under way.         *)
EXTENDS I2cTransport

Flagged == app.flag # "busy"

(* What a fragment, a frame and the device hold, with at most n calls made.  *)
Bodies(n) == [pctr : Chaining \cup {"none", "crc"}, call : 0..n]
Frames(n) ==
  [kind : {"none", "short", "data", "ctrl"}, seq : {"ack", "nack", "resync"}, fr : Nr, ack : Nr,
   body : Bodies(n), good : BOOLEAN]
Devices(n) ==
  [rx : Nr, tx : Nr, out : Seq(Frames(n)), sent : Frames(n), got : {0, 1}, job : BOOLEAN,
   resp : Seq(Bodies(n)), all : Seq(Bodies(n)), call : 0..n, runs : 0..3, garbled : BOOLEAN]

(* The types the protocol relies on, with the offset within the command.     *)
Typed ==
  /\ app.call \in Nat /\ dev \in Devices(app.call)
  /\ pl.out \in Frames(app.call) /\ pl.in \in Frames(app.call)
  /\ dl.tx \in Nr /\ dl.rx \in Nr /\ dl.resynced \in BOOLEAN /\ dl.rxonly \in BOOLEAN
  /\ dl.txbuf \in Bodies(app.call) /\ dl.rxbuf \in Bodies(app.call)
  /\ todo.to = "dl" => todo.frame \in Frames(app.call)
  /\ todo.to = "tl" => todo.body \in Bodies(app.call)
  /\ tl.answer \in 0..app.call /\ tl.total \in Nat /\ tl.done \in BOOLEAN
  /\ tl.offset \in Nat /\ app.frags \in Nat \ {0} /\ tl.offset <= app.frags
  /\ tl.cerr \in {0, 1} /\ tl.merr \in {0, 1}
  /\ resyncs \in 0..3 /\ unsynced \in BOOLEAN

(* A chain that the bus has turned away is over, and the caller waits.       *)
LostEnds ==
  lost => todo = Nothing /\ timer = "none" /\ ~Flagged /\ app.does \in {"opening", "waiting"}

(* The physical layer has read a frame that it has yet to pass on.           *)
Holding == pl.frame = "rxtx" /\ pl.act = "read" /\ pl.cmd = "read" /\ (timer = "guard" \/ todo = Pl)

(* What the physical layer is doing to which register: the state register is *)
(* polled for a frame, the data register carries the frame itself, and a read *)
(* of it is only begun while the device has one ready.                       *)
Registers ==
  /\ pl.act \in {"read", "write"} /\ pl.cmd \in {"read", "write"} /\ pl.regact \in {"read", "write"}
  /\ (todo = Pal \/ timer \in {"poll", "guard"}) => pl.frame \in {"init", "avail", "rxtx"}
  /\ timer = "status" => pl.frame = "avail" /\ pl.act = "read"
  /\ pl.frame = "avail" =>
       /\ pl.reg = "STATE" /\ pl.regact = "read" /\ (todo = Pl => pl.cmd = "read")
       /\ pl.cmd = "read" /\ (todo = Pl \/ timer = "guard") /\ pl.val => dev.out # <<>>
  /\ pl.frame = "rxtx" =>
       /\ pl.reg = "DATA" /\ pl.regact = pl.act
       /\ pl.act = "write" => pl.cmd = "write"
       /\ pl.act = "read" /\ todo = Pl => pl.cmd = "read"
       /\ pl.act = "read" /\ ~Holding => dev.out # <<>>

(* Before the first call the stack negotiates, and nothing else.             *)
Unused ==
  /\ dl = DlInitial /\ tl.state = "idle" /\ tl.offset = 0 /\ tl.total = 0 /\ ~tl.done
  /\ tl.cerr = 0 /\ tl.merr = 0 /\ app.frags = 1 /\ resyncs = 0 /\ ~unsynced
  /\ dev.rx = 3 /\ dev.tx = 3 /\ dev.sent = NoFrame /\ dev.out = <<>> /\ ~dev.job
  /\ dev.resp = <<>> /\ dev.all = <<>> /\ dev.runs = 0 /\ ~dev.garbled
  /\ pl.frame \in {"uninit", "init", "ready"} /\ pl.reg # "DATA" /\ pl.act = "write"
  /\ pl.out.seq = "ack"
  /\ todo = Pl => pl.frame = "init"
  /\ todo.to = "tl" => todo.body = NoBody

BeforeCalls ==
  /\ app.call = 0 => Unused
  /\ app.does = "waiting" => app.call > 0
  /\ app.does \in {"opening", "start"} => app.call = 0

-----------------------------------------------------------------------------
(* The frame to be sent is one of the four the data link layer builds.       *)
OutIs ==
  \/ pl.out = Frame("data", "ack", dl.tx, dl.rx, dl.txbuf) /\ ~dl.resynced
  \/ pl.out = Frame("ctrl", "ack", 0, dl.rx, NoBody) /\ ~dl.resynced
  \/ pl.out = Frame("ctrl", "nack", 0, Succ(dl.rx), NoBody) /\ ~dl.resynced
  \/ pl.out = Frame("ctrl", "resync", 0, 0, NoBody) /\ dl.resynced /\ dl.tx = 3 /\ dl.rx = 3
OutKnown == app.call > 0 /\ pl.act = "write" => OutIs

(* Which of them, and whether it waits for one, the state of the layer tells. *)
LinkKnown ==
  /\ dl.state \in {"idle", "tx", "rx", "rx_df", "rx_cf", "ack", "nack", "resend", "discard", "error"}
  /\ dl.resynced => pl.act = "write" /\ dl.state \in {"resend", "error", "idle"}
  /\ dl.state \in {"ack", "tx"} => pl.act = "write"
  /\ dl.state \in {"rx", "rx_df", "rx_cf"} => pl.act = "read"
  /\ dl.state \in {"rx_df", "rx_cf"} => todo.to = "dl" /\ todo.event = "ok"
  /\ dl.state = "rx_df" => todo.frame.kind # "ctrl"
  /\ todo.to = "dl" => todo.event \in {"ok", "error", "fatal"}
  /\ todo.to = "dl" /\ todo.event = "error" /\ app.call > 0 => pl.act = "read"
  /\ app.call > 0 /\ (todo.to \in {"pal", "pl", "dl"} \/ timer # "none") => dl.state # "idle"
  /\ dl.state = "ack" => dl.rxbuf # NoBody
  /\ ~dl.error

(* What the data link layer tells the transport layer, by what it was doing. *)
Fed ==
  /\ dl.state = "idle" /\ (app.call > 0 <=> tl.state # "idle")
  /\ "error" \in todo.events /\ app.call > 0 => dl.resynced
  /\ "error" \notin todo.events =>
       /\ ~dl.resynced /\ ("rx" \in todo.events <=> todo.body # NoBody)
       /\ tl.state = "tx" => "tx" \in todo.events
       /\ tl.state \in {"rx", "chaining"} => "rx" \in todo.events
       /\ tl.state = "resend" /\ todo.body.pctr # "error" => tl.offset = app.frags
  /\ tl.state \in {"chaining", "resend", "chaining_error"} => "error" \notin todo.events

(* The transport layer receives only after the whole command has gone.       *)
TlKnown ==
  /\ tl.state \in {"idle", "tx", "rx", "chaining", "resend", "chaining_error", "error"}
  /\ dl.state # "idle" => \/ tl.state = "tx" /\ ~dl.rxonly
                          \/ tl.state = "rx" /\ dl.rxonly
  /\ todo.to = "tl" => Fed
  /\ tl.state \in {"rx", "chaining", "chaining_error"} => tl.done /\ tl.offset = app.frags
  /\ tl.state \in {"chaining", "resend", "chaining_error"} => todo.to = "tl"
  /\ tl.event \in {"error", "mem"}
  /\ tl.merr > 0 => tl.offset = app.frags \/ tl.cerr > 0

(* The transmit buffer holds the fragment counted last, a chaining error that *)
(* follows a whole command, or the checksum of a control frame.              *)
TxIs ==
  \/ dl.txbuf = Body(Pctr(tl.offset, app.frags), app.call) /\ tl.offset > 0
  \/ dl.txbuf = CrcBody
  \/ dl.txbuf.pctr = "error" /\ tl.merr > 0 /\ tl.done /\ tl.offset = app.frags
TxKnown == app.call > 0 => TxIs

(* An undamaged frame acknowledges what the device has taken, and carries the *)
(* fragment it sent last.                                                    *)
From(d, f) ==
  f.good =>
    /\ f.seq # "resync" /\ f.kind \in {"data", "ctrl"}
    /\ f.seq # "nack" => f.ack = d.rx
    /\ f.kind = "data" => /\ f.seq = "ack" /\ d.sent # NoFrame /\ f.fr = d.tx
                          /\ f.body = d.sent.body

(* So are the frames it has ready, and it keeps the fragment it sent last.   *)
DeviceSound(d) ==
  /\ \A i \in 1..Len(d.out) : d.out[i].good /\ From(d, d.out[i])
  /\ d.sent # NoFrame => /\ d.sent = Frame("data", "ack", d.tx, d.sent.ack, d.sent.body)
                         /\ d.sent.body.pctr \in Chaining
  /\ \A i \in 1..Len(d.resp) : d.resp[i].pctr \in Chaining
  /\ \A i \in 1..Len(d.all) : d.all[i].pctr \in Chaining

(* ... as is the frame on its way up through the layers.                     *)
Received ==
  /\ DeviceSound(dev)
  /\ Holding => From(dev, pl.in)
  /\ todo.to = "dl" /\ todo.event = "ok" /\ pl.act = "read" => From(dev, todo.frame)

(* Each of these says where the stack is, whatever the device makes of it.   *)
Structure ==
    /\ Typed /\ LostEnds /\ Registers /\ BeforeCalls
    /\ OutKnown /\ LinkKnown /\ TlKnown /\ TxKnown /\ Received

-----------------------------------------------------------------------------
(* The frame to be sent has not reached the device.                          *)
Unwritten ==
  /\ pl.act = "write"
  /\ \/ pl.frame = "ready" /\ todo = Pl
     \/ pl.frame = "avail"
     \/ pl.frame = "rxtx" /\ (todo = Pal \/ timer = "poll")

(* A re-sync that has not: the ends agree again when it has.                 *)
Pending == Unwritten /\ pl.out.seq = "resync"
InStep == ~unsynced /\ ~lost

(* The ends are in step.                                                     *)
AtRest == InStep /\ ~Pending

(* The device is at most one frame ahead of the stack, which has then not yet *)
(* seen the fragment it sent; the stack is at most one frame ahead of the    *)
(* device, and is not ahead of it once its frame has been acknowledged.      *)
Numbers ==
  /\ AtRest => /\ dev.sent = NoFrame => dl.rx = dev.tx
               /\ dl.rx = dev.tx \/ Succ(dl.rx) = dev.tx
               /\ dl.tx = dev.rx \/ dl.tx = Succ(dev.rx)
               /\ dl.resynced => dev.rx = 3
  /\ InStep /\ dl.state \in {"idle", "ack"} => dl.tx = dev.rx

(* A fragment of the response to the call under way.                         *)
Own(b) == b.pctr \in Chaining /\ (b.pctr = "error" \/ b.call = app.call)
AllOwn(s) == \A i \in 1..Len(s) : Own(s[i])

(* Whatever the device may still send, has just sent, or would repeat after a *)
(* chaining error is such a fragment, as soon as it has the whole command.   *)
Owned ==
  /\ AtRest => /\ dev.sent # NoFrame /\ dl.rx # dev.tx => Own(dev.sent.body)
               /\ tl.offset = app.frags /\ dl.tx = dev.rx /\ ~dl.resynced => AllOwn(dev.all)
  /\ InStep => /\ dev.job => dev.call = app.call
               /\ AllOwn(dev.resp)
               /\ tl.done => AllOwn(dev.all)
               /\ dl.state = "ack" => Own(dl.rxbuf)
               /\ todo.to = "tl" /\ todo.body # NoBody => Own(todo.body)

(* What was joined, and what the caller is told, is of the call.             *)
Delivered ==
  InStep => /\ tl.total > 0 => tl.answer = app.call
            /\ todo.to = "api" /\ todo.event = "success" /\ app.does = "waiting" => tl.answer = app.call
            /\ app.does = "waiting" /\ app.flag = "success" => tl.answer = app.call

(* Nothing has spoiled the command of this call.                             *)
Regular == tl.cerr = 0 /\ tl.merr = 0 /\ ~dev.garbled

(* The device has nothing left to say.                                       *)
Clean == ~dev.job /\ dev.resp = <<>> /\ (dev.sent = NoFrame \/ dev.tx = dl.rx)

(* A command or a response ends with it.                                     *)
Last(b) == b.pctr \in {"no", "last"}

(* Until it has the whole command and after the last fragment of its response *)
(* the device has nothing to say, so that the next call finds nothing of this *)
(* one; a re-sync clears what a spoiled command has left.                    *)
Cleaned ==
  /\ AtRest /\ dl.resynced => Clean
  /\ AtRest /\ Regular =>
       /\ tl.offset < app.frags \/ dl.tx # dev.rx => Clean
       /\ dev.job => dev.resp = <<>> /\ (dev.sent = NoFrame \/ dev.tx = dl.rx)
       /\ \A i \in 1..Len(dev.resp) : Last(dev.resp[i]) => i = Len(dev.resp)
       /\ dev.sent # NoFrame /\ dev.tx # dl.rx /\ Last(dev.sent.body) => ~dev.job /\ dev.resp = <<>>
       /\ dl.state = "ack" => tl.offset = app.frags /\ (Last(dl.rxbuf) => Clean)
       /\ todo.to = "tl" /\ todo.body # NoBody => tl.offset = app.frags /\ (Last(todo.body) => Clean)
       /\ tl.state = "error" => Clean
  /\ AtRest /\ (Regular \/ dl.resynced) /\ tl.state = "idle" => Clean

(* The device may yet take a whole command: it has not been sent whole, or is *)
(* sent again under a new number after a re-sync, or is on its way.          *)
CanRun == tl.offset < app.frags \/ dl.resynced \/ (Last(dl.txbuf) /\ dl.tx # dev.rx)

(* Every run is paid for by the call, a re-sync or a repeated chain.         *)
Runs == resyncs = 3 \/ dev.runs + (IF CanRun THEN 1 ELSE 0) <= 1 + resyncs + tl.cerr

Protocol == Numbers /\ Owned /\ Delivered /\ Cleaned /\ Runs
=============================================================================
