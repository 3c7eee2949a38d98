----------------------------- MODULE I2cTransport -----------------------------
(* The transport layer of the OPTIGA protocol stack, its API and the caller: *)
(* comms/ifx_i2c/ifx_i2c_transport_layer.c, comms/ifx_i2c/ifx_i2c.c,         *)
(* comms/optiga_comms.c and the waiting loops of util/optiga_util.c and      *)
(* cmd/CommandLib.c.  Lengths are counted in fragments.                      *)
EXTENDS I2cLink

CONSTANTS
    MaxCalls,           \* calls of optiga_comms_transceive
    MaxFrags,           \* fragments of the longest command
    Sizes               \* <<fragments of the command, room for the response>>

ASSUME CommandAssumption == \A z \in Sizes : z[1] \in Nat \ {0}

VARIABLES
    tl,                 \* transport part of ifx_i2c_context_t
    api,                \* ifx_i2c_context_t: state, status; optiga_comms_t: state
    app                 \* the caller: what it does and optiga_comms_status

vars == <<busVars, linkVars, tl, api, app>>

Api(e) == [to |-> "api", event |-> e]

TlInitial ==
    [state |-> "idle", offset |-> 0, total |-> 0, prev |-> "no", cerr |-> 0, merr |-> 0,
     done |-> FALSE, event |-> "error", answer |-> 0]

Init ==
    /\ LinkInit
    /\ tl = TlInitial
    /\ api = [open |-> FALSE, busy |-> FALSE, inuse |-> FALSE, reset |-> "low"]
    /\ app = [does |-> "start", flag |-> "busy", call |-> 0, frags |-> 1, room |-> 1]

Stays == UNCHANGED <<tl, api, app>>

-----------------------------------------------------------------------------
(* ifx_i2c_tl_send_next_fragment of t, with ifx_i2c_tl_calculate_pctr. *)
SendNextFragment(t, n, c) ==
    /\ tl' = [t EXCEPT !.offset = @ + 1]
    /\ SendFrame(Body(Pctr(t.offset + 1, n), c))

SendChainingError(t) == tl' = [t EXCEPT !.total = 0] /\ SendFrame(Body("error", app.call))

(* pctr_states_table: what may precede each chaining value.  It has no row   *)
(* for TL_CHAINING_ERROR, so that lookup reads past its end.                 *)
Precedes == [no |-> {"no", "last"}, first |-> {"no", "last"},
             inter |-> {"first", "inter"}, last |-> {"first", "inter"}]
CheckChaining(b, p) == IF b = "error" THEN BOOLEAN ELSE {p \in Precedes[b]}

-----------------------------------------------------------------------------
(* ifx_i2c_dl_event_handler, one action per case; an error event moves every *)
(* state to ERROR first.                                                     *)
TlKeeps == UNCHANGED <<dev, timer, who, tail, late, faults, lost, unsynced, overtaken, resyncs, api, app>>
InTl(s) ==
    /\ todo.to = "tl"
    /\ IF "error" \in todo.events THEN s = "error" ELSE tl.state = s
    /\ TlKeeps
TlLoop(t) == tl' = t /\ UNCHANGED <<todo, bus, pl, dl>>
TlReport(t, e) == tl' = t /\ todo' = Api(e) /\ UNCHANGED <<bus, pl, dl>>
HasData == todo.body # NoBody
(* The call all fragments of the response belong to, 0 when they are mixed. *)
Joined == IF tl.total = 0 \/ tl.answer = todo.body.call THEN todo.body.call ELSE 0
LongData == HasData /\ todo.body.pctr # "error"

TlIdle == InTl("idle") /\ TlReport(tl, "success")

TlSent ==
    /\ InTl("tx")
    /\ IF "tx" \notin todo.events THEN TlLoop([tl EXCEPT !.state = "error"])
       ELSE IF tl.offset < app.frags
       THEN IF todo.body.pctr = "error" THEN TlLoop([tl EXCEPT !.state = "resend"])
            ELSE IF HasData THEN TlLoop([tl EXCEPT !.state = "error"])
            ELSE SendNextFragment(tl, app.frags, app.call)
       ELSE LET t == [tl EXCEPT !.state = "rx", !.total = 0, !.prev = "no", !.done = TRUE]
            IN  IF "rx" \in todo.events THEN TlLoop(t)
                ELSE tl' = t /\ ReceiveFrame

TlReceived ==
    LET c == todo.body.pctr
    IN  /\ InTl("rx")
        /\ IF "rx" \notin todo.events THEN TlLoop([tl EXCEPT !.state = "error"])
           ELSE IF tl.event = "mem"
           THEN IF c = "last" \/ ~DlIsIdle THEN TlLoop([tl EXCEPT !.state = "error"])
                ELSE UNCHANGED tl /\ ReceiveFrame
           ELSE \E ok \in CheckChaining(c, tl.prev) :
                  IF ~ok THEN TlLoop([tl EXCEPT !.state = "resend"])
                  ELSE IF c \in {"no", "last"}
                       THEN TlReport([tl EXCEPT !.state = "idle", !.prev = c, !.total = @ + 1,
                                                !.answer = Joined], "success")
                       ELSE TlLoop([tl EXCEPT !.state = "chaining", !.prev = c])

(* A fragment that is not the last: it must be full and fit the buffer.      *)
TlChaining ==
    /\ InTl("chaining")
    /\ IF ~LongData THEN TlLoop([tl EXCEPT !.state = "chaining_error"])
       ELSE IF tl.total + 1 > app.room THEN TlLoop([tl EXCEPT !.event = "mem", !.state = "rx"])
       ELSE tl' = [tl EXCEPT !.total = @ + 1, !.state = "rx", !.answer = Joined] /\ ReceiveFrame

TlResend ==
    /\ InTl("resend")
    /\ IF LongData /\ tl.done THEN TlLoop([tl EXCEPT !.state = "chaining_error"])
       ELSE IF tl.cerr > 0 THEN TlLoop([tl EXCEPT !.state = "error"])
       ELSE SendNextFragment([tl EXCEPT !.cerr = 1, !.offset = 0, !.total = 0, !.state = "tx"],
                             app.frags, app.call)

TlChainingError ==
    /\ InTl("chaining_error")
    /\ IF tl.merr > 0 THEN TlLoop([tl EXCEPT !.state = "error"])
       ELSE SendChainingError([tl EXCEPT !.merr = 1, !.state = "tx"])

TlError ==
    /\ InTl("error")
    /\ LET e == IF "error" \in todo.events THEN "error" ELSE tl.event
       IN  TlReport([tl EXCEPT !.event = e,
                               !.state = IF "error" \in todo.events \/ HasData THEN "idle" ELSE "error"], e)

-----------------------------------------------------------------------------
(* The report: optiga_comms_event_handler sets the flag the caller polls,    *)
(* then optiga_comms.c frees its context, then ifx_i2c_tl_event_handler its  *)
(* own.                                                                      *)
Reporting(s) == todo.to = s /\ UNCHANGED <<dev, timer, who, tail, pl, late, faults, lost, unsynced, linkVars, tl>>

ApiSetsFlag ==
    /\ Reporting("api")
    /\ app' = [app EXCEPT !.flag = todo.event]
    /\ todo' = [to |-> "comms", event |-> todo.event]
    /\ UNCHANGED <<bus, api, overtaken>>

CommsFrees ==
    /\ Reporting("comms")
    /\ api' = [api EXCEPT !.inuse = FALSE]
    /\ todo' = [to |-> "ifx", event |-> todo.event]
    /\ UNCHANGED <<bus, app, overtaken>>

(* Variant: the context is freed by a success only. *)
IfxFreesOnSuccess ==
    /\ Reporting("ifx")
    /\ api' = [api EXCEPT !.busy = @ /\ todo.event # "success", !.open = @ \/ todo.event = "success"]
    /\ overtaken' = (overtaken \/ tail # "none")
    /\ ChainEnds
    /\ UNCHANGED app

IfxFrees ==
    /\ Reporting("ifx")
    /\ api' = [api EXCEPT !.busy = FALSE, !.open = @ \/ todo.event = "success"]
    /\ overtaken' = (overtaken \/ tail # "none")
    /\ ChainEnds
    /\ UNCHANGED app

-----------------------------------------------------------------------------
(* optiga_comms_open and ifx_i2c_init: pull the pins low, wait, release      *)
(* them, wait, initialise the layers.                                        *)
Open ==
    /\ app.does = "start" /\ ~api.inuse /\ ~api.busy /\ todo = Nothing /\ timer = "none"
    /\ api' = [api EXCEPT !.inuse = TRUE, !.reset = "high"]
    /\ app' = [app EXCEPT !.does = "opening", !.flag = "busy"]
    /\ timer' = "init" /\ tail' = "mark"
    /\ UNCHANGED <<dev, bus, todo, who, pl, late, faults, lost, unsynced, overtaken, linkVars, tl>>

InitCallback ==
    /\ Fire("init") /\ api.reset = "high"
    /\ timer' = "init" /\ api' = [api EXCEPT !.reset = "init"]
    /\ UNCHANGED <<todo, pl, linkVars, tl, app>>

(* ifx_i2c_tl_init, ifx_i2c_dl_init and ifx_i2c_pl_init *)
LayersInit ==
    /\ Fire("init") /\ api.reset = "init"
    /\ timer' = "none" /\ api' = [api EXCEPT !.reset = "low"]
    /\ tl' = TlInitial /\ dl' = DlInitial
    /\ pl' = [pl EXCEPT !.nego = "default", !.retry = MaxRetry, !.frame = "init"]
    /\ todo' = Pl
    /\ UNCHANGED <<resyncs, app>>

-----------------------------------------------------------------------------
(* optiga_comms_transceive: refused while either context is in use.          *)
CommandCall(n, r) == [app EXCEPT !.does = "waiting", !.flag = "busy", !.call = @ + 1, !.frags = n, !.room = r]

(* History: the call before had to send a chain again, or the device took    *)
(* fragments out of order, and no re-sync ended it.  The transport layer     *)
(* gives such a call up, or ends it, without telling the device, whose       *)
(* response may still be pending.                                            *)
LeftAstray == ~dl.resynced /\ (tl.cerr > 0 \/ tl.merr > 0 \/ dev.garbled)

Transceive(n, r) ==
    /\ app.does = "idle" /\ app.call < MaxCalls
    /\ ~api.inuse /\ api.open /\ ~api.busy /\ tl.state = "idle" /\ DlIsIdle /\ todo = Nothing
    /\ app' = CommandCall(n, r)
    /\ api' = [api EXCEPT !.inuse = TRUE]
    /\ late' = FALSE /\ resyncs' = 0 /\ who' = "caller" /\ tail' = "release"
    /\ dev' = [dev EXCEPT !.runs = 0, !.garbled = FALSE]
    /\ SendNextFragment([TlInitial EXCEPT !.state = "tx"], n, app.call + 1)
    /\ unsynced' = (unsynced \/ LeftAstray)
    /\ UNCHANGED <<timer, faults, lost, overtaken>>

TransceiveRefused ==
    /\ app.does = "idle" /\ app.call < MaxCalls
    /\ \/ api.inuse
       \/ ~api.inuse /\ (~api.open \/ api.busy \/ tl.state # "idle" \/ ~DlIsIdle)
    /\ app' = [app EXCEPT !.does = "refused"]
    /\ UNCHANGED <<busVars, linkVars, tl, api>>

(* The caller returns: pal_i2c_release, then ifx_i2c_transceive or           *)
(* ifx_i2c_open marks the context busy.  The mark is read by the next call   *)
(* and overwritten by IfxFrees only, so it is set next to them.              *)
CallerReleases ==
    /\ tail = "release" /\ ~(todo # Nothing /\ who = "caller")
    /\ bus' = "free" /\ tail' = "mark"
    /\ UNCHANGED <<dev, timer, todo, who, pl, late, faults, lost, unsynced, overtaken, linkVars>> /\ Stays

CallerMarks ==
    /\ tail = "mark" /\ tail' = "none"
    /\ todo.to = "ifx" \/ (todo = Nothing /\ (app.flag # "busy" \/ timer = "none"))
    /\ api' = [api EXCEPT !.busy = TRUE]
    /\ UNCHANGED <<dev, bus, timer, todo, who, pl, late, faults, lost, unsynced, overtaken, linkVars, tl, app>>

(* The waiting loop sees the flag. *)
CallerSees ==
    /\ app.does \in {"opening", "waiting"} /\ tail = "none" /\ app.flag # "busy"
    /\ app' = [app EXCEPT !.does = IF app.does = "opening" /\ app.flag = "error" THEN "failed" ELSE "idle"]
    /\ UNCHANGED <<busVars, linkVars, tl, api>>

-----------------------------------------------------------------------------
BusStep ==
    /\ \/ PalOk(app.call) \/ PalError \/ PalFatal \/ PalRefused
       \/ PollCallback \/ GuardCallback \/ StatusPollCallback
       \/ PlReady \/ PlWriteFrame \/ PlReadFrame \/ PlNotReady(dl.rxonly) \/ PlDone
       \/ NegoDefault \/ NegoSet \/ NegoRead \/ NegoVerify \/ NegoGetLen \/ NegoVerifyLen
    /\ UNCHANGED linkVars /\ Stays

LinkStep ==
    /\ \/ DlIdle \/ DlSent \/ DlReceived \/ DlDataFrame \/ DlControlFrame \/ DlDiscard
       \/ DlAck \/ DlNack \/ DlResend \/ DlError
    /\ Stays

TransportStep ==
    \/ TlIdle \/ TlSent \/ TlReceived \/ TlChaining \/ TlResend \/ TlChainingError \/ TlError
    \/ ApiSetsFlag \/ CommsFrees \/ IfxFrees \/ InitCallback \/ LayersInit

CallerStep ==
    \/ Open \/ TransceiveRefused \/ CallerReleases \/ CallerMarks \/ CallerSees
    \/ \E z \in Sizes : Transceive(z[1], z[2])

(* What the device does meanwhile shows at the next transfer. *)
DeviceStep ==
    todo = Pal /\ DevRun /\ UNCHANGED <<bus, timer, todo, who, tail, pl, late, faults, lost, unsynced, overtaken, linkVars>> /\ Stays

Time == app.does = "waiting" /\ TimePasses(dl.state = "resend") /\ UNCHANGED linkVars /\ Stays

Next == BusStep \/ LinkStep \/ TransportStep \/ CallerStep \/ DeviceStep \/ Time

(* The event thread dispatches what is posted to it, the caller's thread     *)
(* runs, the device finishes a command, time passes.                         *)
Spec ==
    /\ Init /\ [][Next]_vars
    /\ WF_vars(BusStep \/ LinkStep \/ TransportStep)
    /\ WF_vars(CallerReleases \/ CallerMarks \/ CallerSees)
    /\ SF_vars(DeviceStep) /\ SF_vars(Time)

-----------------------------------------------------------------------------
Waiting == app.does \in {"opening", "waiting"} /\ app.flag = "busy"
Stranded == Waiting /\ tail = "none" /\ todo = Nothing /\ timer = "none"

(* The states the layers may be in.                                          *)
TypeOK ==
    /\ bus \in {"free", "caller", "event"} /\ timer \in {"none", "poll", "guard", "status", "init"}
    /\ who \in {"caller", "event"} /\ tail \in {"none", "release", "mark"}
    /\ dl.state \in {"idle", "tx", "rx", "rx_df", "rx_cf", "ack", "nack", "resend", "discard", "error"}
    /\ {dl.tx, dl.rx, dev.tx, dev.rx} \subseteq Nr /\ dl.retrans \in 0..TransRepeat
    /\ tl.state \in {"idle", "tx", "rx", "chaining", "resend", "chaining_error", "error"}
    /\ tl.offset \in 0..MaxFrags /\ app.call \in 0..MaxCalls

(* A caller left without an armed callback or a running chain waits forever. *)
(* That happens only after pal_i2c_acquire turned an operation away.         *)
StrandedOnlyByBusyBus == Stranded => lost

(* pal_i2c_acquire turns an operation away only inside the handler of a      *)
(* transfer that failed for good, or when a callback ran before the caller   *)
(* of the first transfer had returned from it.                               *)
BusBusyOnlyWhenNested == lost => overtaken \/ dl.state = "error"

(* A command whose call saw no re-sync and no repeated chain is run once: a  *)
(* retransmitted frame keeps its number and the device discards it.          *)
RunOncePerSync == dev.runs <= 1 + resyncs + tl.cerr

(* A successful call delivered the response to that call, whole, unless the  *)
(* re-sync that closed a call given up on did not reach the device, or none  *)
(* was sent after a call that went astray.                                   *)
AnswerUnlessUnsynced ==
    app.does = "waiting" /\ app.flag = "success" /\ ~unsynced => tl.answer = app.call

(* A command is run once and its answer is the one delivered, as long as the *)
(* device does not miss a re-sync of the data link layer.                    *)
RunAndAnsweredOnce == RunOncePerSync /\ AnswerUnlessUnsynced

(* Every call is answered, unless an operation was refused by the bus.       *)
Answered == Waiting ~> (~Waiting \/ lost)

(* Once the caller and the event thread have both returned, the contexts are *)
(* free for the next call, unless a callback overtook the caller.            *)
FreeAfterAnswer ==
    app.does = "idle" /\ todo = Nothing /\ tail = "none" /\ ~overtaken => ~api.inuse /\ ~api.busy

(* After a call the stack is ready for the next one, and during a call       *)
(* something is always under way: what the nested or overtaken use of the    *)
(* bus (pal_i2c_acquire) breaks is all that can be broken.                   *)
LeftReady == FreeAfterAnswer /\ StrandedOnlyByBusyBus /\ BusBusyOnlyWhenNested

(* Calls go through the stack as TransceiveService says: one answer each.    *)
(* The caller takes it through one flag (optiga_comms_status), which a late  *)
(* or second report would overwrite.                                         *)
Service == INSTANCE TransceiveService WITH
    phase <- IF app.does = "waiting" THEN (IF app.flag = "busy" THEN "busy" ELSE "answered") ELSE "idle",
    call <- app.call,
    answer <- IF app.does = "waiting" /\ app.flag = "success" THEN tl.answer ELSE 0
ImplementsService == Service!Spec
=============================================================================
