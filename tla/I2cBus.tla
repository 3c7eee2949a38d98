-------------------------------- MODULE I2cBus --------------------------------
(* The physical layer of the OPTIGA protocol stack                           *)
(* (comms/ifx_i2c/ifx_i2c_physical_layer.c) over the platform layer          *)
(* (pal/pal_i2c.cpp, pal/pal_os_event.cpp).                                  *)
(*                                                                           *)
(* Two threads run the stack.  The caller runs the first transfer of a call, *)
(* then returns through pal_i2c_release and ifx_i2c_transceive ("tail").     *)
(* The event thread runs the one registered callback and all that follows    *)
(* from it.  todo is the call the running chain makes next: a chain is one   *)
(* thread's nested calls, cut at the calls between layers.                   *)
EXTENDS I2cDevice

CONSTANTS
    MaxRetry,           \* PL_POLLING_MAX_CNT
    MaxPolls,           \* status polls within PL_TRANS_TIMEOUT_MS
    MaxFaults           \* disturbed transfers in a behaviour

VARIABLES
    bus,                \* g_entry_count: "free", or the thread that holds it
    timer,              \* callback_registered: "none" or the callback
    todo, who, tail,    \* next call of the chain, its thread, the caller's return
    pl,                 \* physical layer part of ifx_i2c_context_t
    late,               \* TL_MAX_EXIT_TIMEOUT has passed since the call
    faults,             \* disturbed transfers so far
    lost,               \* history: an operation was refused with the bus held
    unsynced,           \* history: the device missed a re-sync, or none followed a stray call
    overtaken           \* history: the event thread overtook the returning caller

busVars == <<bus, timer, todo, who, tail, pl, late, faults, lost, unsynced, overtaken, dev>>

Nothing == [to |-> "none"]
Pal == [to |-> "pal"]
Pl == [to |-> "pl"]
Dl(e, f) == [to |-> "dl", event |-> e, frame |-> f]

PlInitial ==
    [frame |-> "uninit", nego |-> "default", act |-> "write", out |-> NoFrame,
     regact |-> "read", reg |-> "STATE", cmd |-> "write", retry |-> MaxRetry,
     val |-> FALSE, in |-> NoFrame, polls |-> 0]

BusInit ==
    /\ DevInit
    /\ bus = "free" /\ timer = "none" /\ todo = Nothing /\ who = "caller" /\ tail = "none"
    /\ pl = PlInitial /\ late = FALSE /\ faults = 0 /\ lost = FALSE /\ unsynced = FALSE /\ overtaken = FALSE

(* The end of a chain: the outermost invoke_upper_layer_callback of the      *)
(* event thread releases the bus.                                            *)
ChainEnds ==
    /\ todo' = Nothing
    /\ bus' = IF bus = "event" THEN "free" ELSE bus

(* ifx_i2c_pl_read_register / ifx_i2c_pl_write_register: fill the register   *)
(* access and call pal_i2c_write.                                            *)
ReadRegister(p, r) == [p EXCEPT !.regact = "read", !.reg = r, !.retry = MaxRetry, !.cmd = "write"]
WriteRegister(p, r) == [p EXCEPT !.regact = "write", !.reg = r, !.retry = MaxRetry, !.cmd = "write"]

-----------------------------------------------------------------------------
(* pal_i2c_write / pal_i2c_read on a free bus.                               *)

(* What the transfer does to the device and to the register buffer, which    *)
(* holds val (response ready, device faster than 400 kHz, frame length       *)
(* accepted) or a frame; c is the call under way.                            *)
WritesFrame == pl.cmd = "write" /\ pl.regact = "write" /\ pl.reg = "DATA"
Transfer(c) ==
    \/ /\ WritesFrame
       /\ \/ dev' \in Receive(dev, pl.out, c) /\ UNCHANGED <<faults, unsynced>>
          \/ /\ faults < MaxFaults /\ faults' = faults + 1
             /\ unsynced' = (unsynced \/ pl.out.seq = "resync")
             /\ dev' \in Receive(dev, [pl.out EXCEPT !.good = FALSE], c) \cup {dev}
       /\ UNCHANGED pl
    \/ /\ pl.cmd = "read" /\ pl.reg # "DATA"
       /\ \E v \in IF pl.reg = "STATE" THEN {dev.out # <<>>} ELSE BOOLEAN :
             pl' = [pl EXCEPT !.val = v, !.in = NoFrame]
       /\ UNCHANGED <<dev, faults, unsynced>>
    \/ /\ pl.cmd = "read" /\ pl.reg = "DATA"
       /\ LET f == Head(dev.out)
          IN  \/ pl' = [pl EXCEPT !.in = f] /\ UNCHANGED faults
              \/ /\ faults < MaxFaults /\ faults' = faults + 1
                 /\ \E g \in Corrupt(f) : pl' = [pl EXCEPT !.in = g]
       /\ dev' = [dev EXCEPT !.out = Tail(@)]
       /\ UNCHANGED unsynced
    \/ /\ pl.cmd = "write" /\ ~WritesFrame
       /\ UNCHANGED <<pl, dev, faults, unsynced>>

(* The transfer succeeds: ifx_i2c_pl_pal_event_handler arms the guard time   *)
(* and the chain ends.                                                       *)
PalOk(c) ==
    /\ todo = Pal /\ bus = "free"
    /\ Transfer(c)
    /\ timer' = "guard"
    /\ todo' = Nothing
    /\ bus' = IF who = "caller" THEN "caller" ELSE "free"
    /\ UNCHANGED <<who, tail, late, lost, overtaken>>

(* The device does not acknowledge (asleep, absent): poll again.             *)
PalError ==
    /\ todo = Pal /\ bus = "free" /\ pl.retry > 0
    /\ faults < MaxFaults /\ faults' = faults + 1
    /\ pl' = [pl EXCEPT !.retry = @ - 1]
    /\ timer' = "poll"
    /\ todo' = Nothing
    /\ bus' = IF who = "caller" THEN "caller" ELSE "free"
    /\ UNCHANGED <<dev, who, tail, late, lost, unsynced, overtaken>>

(* Retries used up: the fatal event goes up with the bus still held.         *)
PalFatal ==
    /\ todo = Pal /\ bus = "free" /\ pl.retry = 0
    /\ pl' = [pl EXCEPT !.frame = "ready"]
    /\ todo' = Dl("fatal", NoFrame)
    /\ bus' = who
    /\ unsynced' = (unsynced \/ (pl.act = "write" /\ pl.out.seq = "resync"))
    /\ UNCHANGED <<dev, timer, who, tail, late, faults, lost, overtaken>>

(* pal_i2c_acquire fails: the function returns and nobody is told.           *)
PalRefused ==
    /\ todo = Pal /\ bus # "free"
    /\ lost' = TRUE /\ overtaken' = (overtaken \/ (bus = "caller" /\ who = "event"))
    /\ tail' = IF who = "caller" THEN "mark" ELSE tail
    /\ ChainEnds
    /\ UNCHANGED <<dev, timer, who, pl, late, faults, unsynced>>

-----------------------------------------------------------------------------
(* The event thread: pal_os_event_trigger_registered_callback.               *)
Fire(cb) ==
    /\ timer = cb /\ todo = Nothing
    /\ who' = "event"
    /\ UNCHANGED <<bus, tail, late, faults, lost, unsynced, overtaken, dev>>

(* ifx_i2c_pal_poll_callback: repeat the transfer. *)
PollCallback == Fire("poll") /\ timer' = "none" /\ todo' = Pal /\ UNCHANGED pl

(* ifx_i2c_pl_guard_time_callback *)
GuardCallback ==
    /\ Fire("guard") /\ timer' = "none"
    /\ IF pl.regact = "read" /\ pl.cmd = "write"
       THEN pl' = [pl EXCEPT !.cmd = "read"] /\ todo' = Pal
       ELSE todo' = Pl /\ UNCHANGED pl

(* ifx_i2c_pl_status_poll_callback *)
StatusPollCallback ==
    /\ Fire("status") /\ timer' = "none"
    /\ pl' = ReadRegister(pl, "STATE") /\ todo' = Pal

-----------------------------------------------------------------------------
(* ifx_i2c_pl_frame_event_handler with a successful event.                   *)
InPl(s) == todo = Pl /\ pl.frame = s
PlKeeps == UNCHANGED <<dev, who, tail, late, faults, lost, unsynced, overtaken>>

PlReady ==
    /\ InPl("ready")
    /\ pl' = [ReadRegister(pl, "STATE") EXCEPT !.frame = "avail"]
    /\ todo' = Pal
    /\ UNCHANGED <<bus, timer>> /\ PlKeeps

PlWriteFrame ==
    /\ InPl("avail") /\ pl.act = "write"
    /\ pl' = [WriteRegister(pl, "DATA") EXCEPT !.frame = "rxtx"]
    /\ todo' = Pal
    /\ UNCHANGED <<bus, timer>> /\ PlKeeps

PlReadFrame ==
    /\ InPl("avail") /\ pl.act = "read" /\ pl.val
    /\ pl' = [ReadRegister(pl, "DATA") EXCEPT !.frame = "rxtx"]
    /\ todo' = Pal
    /\ UNCHANGED <<bus, timer>> /\ PlKeeps

(* Variant: the timeout is not looked at. *)
PlNotReadyForever(rxonly) ==
    /\ InPl("avail") /\ pl.act = "read" /\ ~pl.val
    /\ timer' = "status"
    /\ ChainEnds
    /\ UNCHANGED pl /\ PlKeeps

(* No response yet: poll again until data_poll_timeout, which is             *)
(* TL_MAX_EXIT_TIMEOUT when only receiving and PL_TRANS_TIMEOUT_MS           *)
(* otherwise.                                                                *)
PlNotReady(rxonly) ==
    /\ InPl("avail") /\ pl.act = "read" /\ ~pl.val
    /\ IF IF rxonly THEN ~late ELSE pl.polls < MaxPolls
       THEN /\ pl' = [pl EXCEPT !.polls = IF rxonly THEN @ ELSE @ + 1]
            /\ timer' = "status"
            /\ ChainEnds
       ELSE /\ pl' = [pl EXCEPT !.frame = "ready"]
            /\ todo' = Dl("error", NoFrame)
            /\ UNCHANGED <<bus, timer>>
    /\ PlKeeps

PlDone ==
    /\ InPl("rxtx")
    /\ pl' = [pl EXCEPT !.frame = "ready"]
    /\ todo' = Dl("ok", IF pl.act = "read" THEN pl.in ELSE NoFrame)
    /\ UNCHANGED <<bus, timer>> /\ PlKeeps

-----------------------------------------------------------------------------
(* ifx_i2c_pl_negotiation_event_handler, one action per register access.     *)
Nego(s) == InPl("init") /\ pl.nego = s /\ UNCHANGED <<bus, timer>> /\ PlKeeps

(* Set the bus to 100 kHz, then read the device's highest frequency. *)
NegoDefault ==
    /\ Nego("default")
    /\ pl' = [ReadRegister(pl, "FREQ") EXCEPT !.nego = "set"]
    /\ todo' = Pal

(* The negotiation ends and reports to the data link layer. *)
NegoEnds(p, ok) ==
    /\ pl' = [p EXCEPT !.nego = "done", !.frame = IF ok THEN "ready" ELSE "uninit"]
    /\ todo' = Dl(IF ok THEN "ok" ELSE "error", NoFrame)

(* OPTIGA_TRUST_X_I2C_FREQ is at most 400 kHz: a faster device is put in     *)
(* SM&FM mode and read again, otherwise the frequency is verified.           *)
NegoSet ==
    /\ Nego("set")
    /\ IF pl.val
       THEN pl' = [WriteRegister(pl, "MODE") EXCEPT !.nego = "read"] /\ todo' = Pal
       ELSE pl' = [pl EXCEPT !.nego = "verify"] /\ UNCHANGED todo

NegoRead ==
    /\ Nego("read")
    /\ pl' = [ReadRegister(pl, "FREQ") EXCEPT !.nego = "verify"]
    /\ todo' = Pal

(* A device slower than the wanted frequency ends the negotiation; otherwise *)
(* the bus speed is set and the frame length negotiated.                     *)
NegoVerify ==
    /\ Nego("verify")
    /\ \/ NegoEnds(pl, FALSE)
       \/ pl' = [WriteRegister(pl, "LEN") EXCEPT !.nego = "getlen"] /\ todo' = Pal

NegoGetLen ==
    /\ Nego("getlen")
    /\ pl' = [ReadRegister(pl, "LEN") EXCEPT !.nego = "verifylen"]
    /\ todo' = Pal

NegoVerifyLen == Nego("verifylen") /\ NegoEnds(pl, pl.val)

(* Time passes: the exit timeout of the call elapses.  It is only looked at  *)
(* when a frame is awaited or resent, and elapses there.                     *)
TimePasses(resending) ==
    /\ ~late /\ (timer = "status" \/ resending) /\ late' = TRUE
    /\ UNCHANGED <<bus, timer, todo, who, tail, pl, faults, lost, unsynced, overtaken, dev>>
=============================================================================
