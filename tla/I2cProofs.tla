------------------------------ MODULE I2cProofs ------------------------------
(***************************************************************************)
(* Proofs about the OPTIGA protocol stack on the I2C bus, for any commands, *)
(* any number of faults and any limits on retries.  A call is one chain of  *)
(* nested calls that two threads take turns to run: the invariant says      *)
(* where the chain is, which callback is armed when it is cut, and who      *)
(* holds the bus.  On top of it, I2cSync says what the two ends of the bus   *)
(* know of each other; the second half shows that every step keeps that.     *)
(***************************************************************************)
EXTENDS I2cSync, TLAPS, SequenceTheorems

\* Every record keeps its fields.
Fields ==
  /\ DOMAIN pl = DOMAIN PlInitial /\ DOMAIN dl = DOMAIN DlInitial
  /\ DOMAIN tl = DOMAIN TlInitial
  /\ DOMAIN api = {"open", "busy", "inuse", "reset"}
  /\ DOMAIN app = {"does", "flag", "call", "frags", "room"}

Reporter == {"api", "comms", "ifx"}

\* The chain is at one of the calls between layers, and reports a result that the caller's
\* loop can tell from "busy".
ChainKnown ==
  /\ todo.to \in {"none", "pal", "pl", "dl", "tl"} \cup Reporter
  /\ todo.to = "none" => todo = Nothing
  /\ todo.to \in Reporter => todo.event # "busy"
  /\ tl.event # "busy"
  /\ todo.to = "tl" => todo.events \subseteq {"tx", "rx", "error"}

\* While a caller waits the chain runs or a callback is armed, never both; the flag is set
\* at the end of the chain.
UnderWay ==
  /\ app.does \in {"start", "opening", "waiting", "idle", "failed", "refused"}
  /\ app.does = "start" =>
       todo = Nothing /\ timer = "none" /\ tail = "none" /\ bus = "free" /\ ~Flagged
       /\ ~api.inuse /\ ~api.busy
  /\ Waiting => todo # Nothing \/ timer # "none" \/ lost
  /\ todo # Nothing => timer = "none"
  /\ app.does \in {"idle", "failed", "refused"} => Flagged /\ tail = "none"
  /\ Flagged => timer = "none" /\ todo.to \in {"none", "comms", "ifx"}
  /\ todo.to \in {"comms", "ifx"} => Flagged
  /\ timer = "init" => app.does = "opening"

\* The contexts are freed behind the flag.
ContextsFreed ==
  /\ api.inuse /\ Flagged => todo.to = "comms"
  /\ Flagged /\ todo = Nothing => overtaken \/ (tail = "none" /\ ~api.busy)

\* A negotiation that failed, or one that has not begun.
Failing ==
  \/ timer = "init"
  \/ todo.to = "dl" /\ todo.event = "error" /\ dl.state = "idle"
  \/ todo.to = "tl" /\ "error" \in todo.events
  \/ todo.to = "api" /\ todo.event = "error"
  \/ app.flag = "error"

\* The physical layer takes a frame whenever the layers above have one.
FrameState ==
  /\ pl.frame \in {"uninit", "init", "ready", "avail", "rxtx"}
  /\ todo.to \in {"dl", "tl"} \cup Reporter => pl.frame \in {"ready", "uninit"}
  /\ Flagged => pl.frame \in {"ready", "uninit"}
  /\ pl.frame = "init" => app.does = "opening" /\ dl.state = "idle"
  /\ pl.frame = "uninit" => app.does \in {"start", "failed"} \/ (app.does = "opening" /\ Failing)

\* A chain that runs with the bus held by its own thread comes from a transfer that failed
\* for good.
GivingUp ==
  \/ todo.to = "dl" /\ (todo.event = "fatal" \/ dl.state = "error")
  \/ todo.to \in {"pl", "pal"} /\ dl.state = "error"
  \/ todo.to = "tl" /\ "error" \in todo.events
  \/ todo.to \in Reporter

BusHeld ==
  /\ bus \in {"free", "caller", "event"} /\ who \in {"caller", "event"}
  /\ bus = "event" => todo # Nothing /\ who = "event"
  /\ todo # Nothing /\ who = "caller" => tail = "release"
  /\ bus = "caller" => tail = "release" \/ lost \/ overtaken
  /\ lost /\ ~overtaken => Waiting /\ todo = Nothing /\ timer = "none" /\ dl.state = "error"
  /\ ~overtaken /\ todo # Nothing /\ bus = who => GivingUp

IInv == Fields /\ ChainKnown /\ UnderWay /\ ContextsFreed /\ FrameState /\ BusHeld
-----------------------------------------------------------------------------
(* Records *)

\* Changing one field of a record changes no other.
LEMMA PlFields ==
  ASSUME Fields
  PROVE  /\ {"frame", "nego", "act", "out", "regact", "reg", "cmd", "retry", "val", "in", "polls"}
               \subseteq DOMAIN pl
         /\ {"state", "tx", "rx", "resynced", "error", "retrans", "rxonly", "txbuf", "rxbuf"}
               \subseteq DOMAIN dl
         /\ {"state", "offset", "total", "prev", "cerr", "merr", "done", "event", "answer"}
               \subseteq DOMAIN tl
BY DEF Fields, PlInitial, DlInitial, TlInitial

\* The calls between layers are told apart by the layer they go to.
LEMMA TodoIs ==
  /\ Nothing.to = "none" /\ Pal.to = "pal" /\ Pl.to = "pl"
  /\ Pal # Nothing /\ Pl # Nothing
BY DEF Nothing, Pal, Pl

\* A chain under way is at some layer.
LEMMA TodoNothing == ChainKnown => (todo = Nothing <=> todo.to = "none")
BY DEF ChainKnown, Nothing

-----------------------------------------------------------------------------
(* The steps of the physical layer, as far as the invariant sees them *)

ThreadKeeps == UNCHANGED <<who, tail, lost, overtaken>>
LayersKeep  == UNCHANGED <<dl, tl, api, app>>

\* A transfer that is carried out, or not acknowledged yet, leaves a callback armed.
TransferDone ==
  /\ todo = Pal /\ bus = "free" /\ todo' = Nothing /\ timer' \in {"guard", "poll"}
  /\ bus' = IF who = "caller" THEN "caller" ELSE "free"
  /\ pl'.frame = pl.frame /\ ThreadKeeps /\ LayersKeep

\* A registered callback starts the chain again, in the event thread.
CallbackFires ==
  /\ todo = Nothing /\ timer \in {"poll", "guard", "status"}
  /\ timer' = "none" /\ todo' \in {Pal, Pl} /\ who' = "event"
  /\ pl'.frame = pl.frame /\ UNCHANGED <<bus, tail, lost, overtaken>> /\ LayersKeep

\* One more register access.
PlGoesOn ==
  /\ todo = Pl /\ todo' \in {Pal, Pl}
  /\ pl'.frame \in {pl.frame, "avail", "rxtx"}
  /\ UNCHANGED <<bus, timer>> /\ ThreadKeeps /\ LayersKeep

\* No response yet.
PlWaits ==
  /\ todo = Pl /\ timer' = "status" /\ ChainEnds
  /\ pl'.frame = pl.frame /\ ThreadKeeps /\ LayersKeep

\* The physical layer is done with a frame or with the negotiation.
PlReports ==
  /\ todo = Pl /\ todo'.to = "dl" /\ todo' # Nothing
  /\ \/ pl'.frame = "ready"
     \/ pl'.frame = "uninit" /\ pl.frame = "init" /\ todo'.event = "error"
  /\ UNCHANGED <<bus, timer>> /\ ThreadKeeps /\ LayersKeep

\* pal_i2c.cpp and ifx_i2c_physical_layer.c do one of these.
LEMMA BusEffect ==
  ASSUME Fields, BusStep
  PROVE  /\ Fields' /\ LayersKeep
         /\ TransferDone \/ PalFatal \/ PalRefused \/ CallbackFires \/ PlGoesOn \/ PlWaits
            \/ PlReports
<1> USE PlFields DEF LayersKeep, ThreadKeeps, PlKeeps
<1>a. LayersKeep
  BY DEF BusStep, linkVars, Stays
<1>b. DOMAIN pl' = DOMAIN pl => Fields'
  BY <1>a DEF Fields
<1>1. CASE PalOk(app.call)
  <2>1. pl'.frame = pl.frame /\ DOMAIN pl' = DOMAIN pl
    BY <1>1 DEF PalOk, Transfer
  <2> QED  BY <1>1, <1>a, <1>b, <2>1 DEF PalOk, TransferDone
<1>2. CASE PalError
  BY <1>2, <1>a, <1>b DEF PalError, TransferDone
<1>3. CASE PalFatal
  BY <1>3, <1>a, <1>b DEF PalFatal
<1>4. CASE PalRefused
  BY <1>4, <1>a, <1>b DEF PalRefused
<1>5. CASE PollCallback \/ GuardCallback \/ StatusPollCallback
  <2>1. /\ timer \in {"poll", "guard", "status"} /\ todo = Nothing /\ who' = "event"
        /\ timer' = "none" /\ UNCHANGED <<bus, tail, lost, overtaken>>
    BY <1>5 DEF PollCallback, GuardCallback, StatusPollCallback, Fire
  <2>2. CASE PollCallback
    BY <1>a, <1>b, <2>1, <2>2 DEF PollCallback, CallbackFires
  <2>3. CASE GuardCallback
    <3>1. (pl' = pl \/ pl' = [pl EXCEPT !.cmd = "read"]) /\ todo' \in {Pal, Pl}
      BY <2>3 DEF GuardCallback
    <3>2. pl'.frame = pl.frame /\ DOMAIN pl' = DOMAIN pl
      BY <3>1
    <3> QED  BY <1>a, <1>b, <2>1, <3>1, <3>2 DEF CallbackFires
  <2>4. CASE StatusPollCallback
    BY <1>a, <1>b, <2>1, <2>4 DEF StatusPollCallback, ReadRegister, CallbackFires
  <2> QED  BY <1>5, <2>2, <2>3, <2>4
<1>6. CASE PlReady \/ PlWriteFrame \/ PlReadFrame
  BY <1>6, <1>a, <1>b DEF PlReady, PlWriteFrame, PlReadFrame, InPl, ReadRegister, WriteRegister,
                          PlGoesOn
<1>7. CASE PlNotReady(dl.rxonly)
  <2>1. DOMAIN pl' = DOMAIN pl
    BY <1>7 DEF PlNotReady
  <2>2. PlWaits \/ PlReports
    BY <1>7, <1>a DEF PlNotReady, InPl, PlWaits, PlReports, Dl, Nothing
  <2> QED  BY <1>a, <1>b, <2>1, <2>2
<1>8. CASE PlDone
  BY <1>8, <1>a, <1>b DEF PlDone, InPl, PlReports, Dl, Nothing
<1>9. CASE NegoDefault \/ NegoSet \/ NegoRead \/ NegoGetLen
  BY <1>9, <1>a, <1>b DEF NegoDefault, NegoSet, NegoRead, NegoGetLen, Nego, InPl, ReadRegister,
                          WriteRegister, PlGoesOn
<1>10. CASE NegoVerify \/ NegoVerifyLen
  <2>1. todo = Pl /\ pl.frame = "init" /\ UNCHANGED <<bus, timer>> /\ ThreadKeeps
    BY <1>10 DEF NegoVerify, NegoVerifyLen, Nego, InPl
  <2>2. ASSUME NEW ok, NegoEnds(pl, ok)
        PROVE  Fields' /\ PlReports
    <3>1. DOMAIN pl' = DOMAIN pl /\ todo'.to = "dl" /\ todo' # Nothing
      BY <2>2 DEF NegoEnds, Dl, Nothing
    <3>2. pl'.frame = "ready" \/ (pl'.frame = "uninit" /\ todo'.event = "error")
      BY <2>2 DEF NegoEnds, Dl
    <3> QED  BY <1>a, <1>b, <2>1, <3>1, <3>2 DEF PlReports
  <2>3. CASE todo' = Pal /\ pl' = [WriteRegister(pl, "LEN") EXCEPT !.nego = "getlen"]
    <3>1. DOMAIN pl' = DOMAIN pl /\ pl'.frame = pl.frame
      BY <2>3 DEF WriteRegister
    <3> QED  BY <1>a, <1>b, <2>1, <2>3, <3>1 DEF PlGoesOn
  <2> QED  BY <1>10, <1>a, <2>2, <2>3 DEF NegoVerify, NegoVerifyLen
<1> QED  BY <1>1, <1>2, <1>3, <1>4, <1>5, <1>6, <1>7, <1>8, <1>9, <1>10 DEF BusStep

-----------------------------------------------------------------------------
(* The steps of the data link layer *)

\* A frame that is handed to a ready physical layer keeps the chain going.
LEMMA Transmitting ==
  ASSUME Fields, pl.frame = "ready", NEW f, Transmit(f)
  PROVE  todo' = Pl /\ bus' = bus /\ pl'.frame = "ready" /\ DOMAIN pl' = DOMAIN pl
BY PlFields DEF Transmit, PlAccepts

\* So does a frame that is awaited.
LEMMA Receiving ==
  ASSUME Fields, pl.frame = "ready", NEW d, StartReceive(d)
  PROVE  /\ todo' = Pl /\ bus' = bus /\ pl'.frame = "ready" /\ DOMAIN pl' = DOMAIN pl
         /\ dl' = d
BY PlFields DEF StartReceive, PlAccepts

\* A data frame, new or again.
LEMMA SendingData ==
  ASSUME Fields, pl.frame = "ready", NEW d, DOMAIN d = DOMAIN dl, NEW again, SendData(d, again)
  PROVE  /\ todo' = Pl /\ bus' = bus /\ pl'.frame = "ready" /\ DOMAIN pl' = DOMAIN pl
         /\ DOMAIN dl' = DOMAIN dl
<1>1. DOMAIN dl' = DOMAIN dl
  BY DEF SendData
<1>2. \E f : Transmit(f)
  BY DEF SendData
<1> QED  BY <1>1, <1>2, Transmitting

\* An acknowledgement, positive or negative.
LEMMA SendingControl ==
  ASSUME Fields, pl.frame = "ready", NEW d, DOMAIN d = DOMAIN dl, NEW s, SendControl(d, s)
  PROVE  /\ todo' = Pl /\ bus' = bus /\ pl'.frame = "ready" /\ DOMAIN pl' = DOMAIN pl
         /\ DOMAIN dl' = DOMAIN dl
<1>1. DOMAIN dl' = DOMAIN dl
  BY DEF SendControl
<1>2. \E f : Transmit(f)
  BY DEF SendControl
<1> QED  BY <1>1, <1>2, Transmitting

\* A re-sync.
LEMMA SendingResync ==
  ASSUME Fields, pl.frame = "ready", NEW s, SendResync(dl, s)
  PROVE  /\ todo' = Pl /\ bus' = bus /\ pl'.frame = "ready" /\ DOMAIN pl' = DOMAIN pl
         /\ DOMAIN dl' = DOMAIN dl /\ dl'.state = s
<1>1. DOMAIN dl' = DOMAIN dl /\ dl'.state = s
  BY PlFields DEF SendResync
<1>2. \E f : Transmit(f)
  BY DEF SendResync
<1> QED  BY <1>1, <1>2, Transmitting

\* A transfer failed for good, or the layer is giving the call up.
LinkFails == todo.event = "fatal" \/ dl.state = "error"

\* The event is looked at again in another state.
LinkLoops == todo' = todo /\ ~LinkFails /\ dl.state # "idle"

\* A frame is sent or awaited: only a re-sync when the call is given up.
LinkSends == todo' = Pl /\ pl.frame = "ready" /\ (LinkFails => dl'.state = "error")

\* The transport layer is told.
LinkReports ==
  /\ todo'.to = "tl" /\ todo' # Nothing /\ todo'.events \subseteq {"tx", "rx", "error"}
  /\ LinkFails \/ (dl.state = "idle" /\ todo.event # "ok") => "error" \in todo'.events

\* The state a layer is in when it is called.
LEMMA LinkCalled ==
  ASSUME ChainKnown, UnderWay, FrameState, todo.to = "dl"
  PROVE  pl.frame = "ready" \/ (pl.frame = "uninit" /\ dl.state = "idle" /\ todo.event = "error")
<1>1. todo # Nothing /\ timer = "none" /\ ~Flagged
  BY TodoIs DEF UnderWay
<1>2. pl.frame = "uninit" => app.does \in {"start", "failed"} \/ (app.does = "opening" /\ Failing)
  BY DEF FrameState
<1>3. app.does \notin {"start", "failed"}
  BY <1>1 DEF UnderWay
<1>4. Failing => dl.state = "idle" /\ todo.event = "error"
  BY <1>1 DEF Failing, Flagged
<1> QED  BY <1>2, <1>3, <1>4 DEF FrameState

\* ifx_i2c_pl_event_handler does one of these.
LEMMA LinkEffect ==
  ASSUME Fields, ChainKnown, UnderWay, FrameState, LinkStep
  PROVE  /\ Fields' /\ todo.to = "dl" /\ UNCHANGED <<bus, timer, tl, api, app>> /\ ThreadKeeps
         /\ pl'.frame = pl.frame
         /\ LinkLoops \/ LinkSends \/ LinkReports
<1> USE PlFields
<1>a. todo.to = "dl" /\ UNCHANGED <<timer, tl, api, app>> /\ ThreadKeeps
  BY DEF LinkStep, DlIdle, DlSent, DlReceived, DlDataFrame, DlControlFrame, DlDiscard, DlAck,
         DlNack, DlResend, DlError, InDl, LinkKeeps, Stays, ThreadKeeps
<1>b. DOMAIN dl' = DOMAIN dl /\ DOMAIN pl' = DOMAIN pl => Fields'
  BY <1>a DEF Fields
<1>c. pl.frame = "ready" \/ (pl.frame = "uninit" /\ dl.state = "idle" /\ todo.event = "error")
  BY <1>a, LinkCalled
<1> DEFINE Kept == DOMAIN dl' = DOMAIN dl /\ DOMAIN pl' = DOMAIN pl /\ bus' = bus
                   /\ pl'.frame = pl.frame
<1> SUFFICES Kept /\ (LinkLoops \/ LinkSends \/ LinkReports)
  BY <1>a, <1>b
<1>1. CASE DlIdle
  BY <1>1 DEF DlIdle, InDl, Report, Tl, LinkReports, LinkFails, Nothing
<1>2. ASSUME NEW s \in {"tx", "rx", "rx_df", "rx_cf", "discard", "ack", "nack", "resend"}, InDl(s)
      PROVE  pl.frame = "ready" /\ ~LinkFails /\ dl.state # "idle"
  BY <1>2, <1>c DEF InDl, LinkFails
<1>3. ASSUME NEW d, DOMAIN d = DOMAIN dl, Loop(d), ~LinkFails, dl.state # "idle"
      PROVE  Kept /\ LinkLoops
  BY <1>3 DEF Loop, LinkLoops
<1>4. ASSUME NEW d, DOMAIN d = DOMAIN dl, StartReceive(d), ~LinkFails, pl.frame = "ready"
      PROVE  Kept /\ LinkSends
  BY <1>4, Receiving DEF LinkSends
<1>5. ASSUME NEW d, DOMAIN d = DOMAIN dl, NEW s, SendControl(d, s), ~LinkFails,
             pl.frame = "ready"
      PROVE  Kept /\ LinkSends
  BY <1>5, SendingControl DEF LinkSends
<1>6. ASSUME NEW d, DOMAIN d = DOMAIN dl, NEW evs \in SUBSET {"tx", "rx"}, NEW b,
             Report(d, evs, b), ~LinkFails, dl.state # "idle"
      PROVE  Kept /\ LinkReports
  BY <1>6 DEF Report, Tl, LinkReports, Nothing
<1>7. CASE DlSent
  <2>1. pl.frame = "ready" /\ ~LinkFails /\ dl.state # "idle"
    BY <1>2, <1>7 DEF DlSent
  <2>2. \E d : DOMAIN d = DOMAIN dl /\ (Loop(d) \/ StartReceive(d))
    BY <1>7 DEF DlSent
  <2> QED  BY <1>3, <1>4, <2>1, <2>2
<1>8. CASE DlReceived
  <2>1. ~LinkFails /\ dl.state # "idle"
    BY <1>2, <1>8 DEF DlReceived
  <2>2. \E d : DOMAIN d = DOMAIN dl /\ Loop(d)
    BY <1>8 DEF DlReceived
  <2> QED  BY <1>3, <2>1, <2>2
<1>9. CASE DlDataFrame
  <2>1. pl.frame = "ready" /\ ~LinkFails /\ dl.state # "idle"
    BY <1>2, <1>9 DEF DlDataFrame
  <2>2. \E d : DOMAIN d = DOMAIN dl /\ (Loop(d) \/ \E s : SendControl(d, s))
    BY <1>9 DEF DlDataFrame
  <2> QED  BY <1>3, <1>5, <2>1, <2>2
<1>10. CASE DlControlFrame
  <2>1. pl.frame = "ready" /\ ~LinkFails /\ dl.state # "idle"
    BY <1>2, <1>10 DEF DlControlFrame
  <2>2. \E d : DOMAIN d = DOMAIN dl /\ (Loop(d) \/ Report(d, {"tx"}, NoBody))
    BY <1>10 DEF DlControlFrame
  <2> QED  BY <1>3, <1>6, <2>1, <2>2
<1>11. CASE DlDiscard
  <2>1. pl.frame = "ready" /\ ~LinkFails /\ dl.state # "idle"
    BY <1>2, <1>11 DEF DlDiscard
  <2>2. \E d : DOMAIN d = DOMAIN dl /\ StartReceive(d)
    BY <1>11 DEF DlDiscard
  <2> QED  BY <1>4, <2>1, <2>2
<1>12. CASE DlAck
  <2>1. pl.frame = "ready" /\ ~LinkFails /\ dl.state # "idle"
    BY <1>2, <1>12 DEF DlAck
  <2>2. \E d : DOMAIN d = DOMAIN dl
               /\ (Loop(d) \/ \E evs \in SUBSET {"tx", "rx"} : \E b : Report(d, evs, b))
    BY <1>12 DEF DlAck
  <2> QED  BY <1>3, <1>6, <2>1, <2>2
<1>13. CASE DlNack
  <2>1. pl.frame = "ready" /\ ~LinkFails /\ dl.state # "idle"
    BY <1>2, <1>13 DEF DlNack
  <2>2. \E d : DOMAIN d = DOMAIN dl /\ SendControl(d, "nack")
    BY <1>13 DEF DlNack
  <2> QED  BY <1>5, <2>1, <2>2
<1>14. CASE DlResend
  <2>1. pl.frame = "ready" /\ ~LinkFails /\ dl.state # "idle"
    BY <1>2, <1>14 DEF DlResend
  <2>2. CASE \E d : DOMAIN d = DOMAIN dl /\ Loop(d)
    BY <1>3, <2>1, <2>2
  <2>3. CASE \E s : SendResync(dl, s)
    BY <2>1, <2>3, SendingResync DEF LinkSends
  <2>4. CASE \E d : DOMAIN d = DOMAIN dl /\ SendData(d, TRUE)
    BY <2>1, <2>4, SendingData DEF LinkSends
  <2> QED  BY <1>14, <2>2, <2>3, <2>4 DEF DlResend
<1>15. CASE DlError
  <2>1. LinkFails /\ dl.state # "idle" /\ pl.frame = "ready"
    BY <1>15, <1>c DEF DlError, InDl, LinkFails
  <2>2. CASE SendResync(dl, "error")
    BY <2>1, <2>2, SendingResync DEF LinkSends
  <2>3. CASE Report([dl EXCEPT !.state = "idle"], {"error"}, NoBody)
    BY <2>1, <2>3 DEF Report, Tl, LinkReports, Nothing
  <2> QED  BY <1>15, <2>2, <2>3 DEF DlError
<1> QED  BY <1>1, <1>7, <1>8, <1>9, <1>10, <1>11, <1>12, <1>13, <1>14, <1>15 DEF LinkStep

-----------------------------------------------------------------------------
(* The steps of the transport layer *)

\* A record like tl, that reports something the caller's loop can see.
LikeTl(t) == DOMAIN t = DOMAIN tl /\ t.event # "busy"

\* The next fragment goes to the data link layer.
LEMMA SendingFragment ==
  ASSUME Fields, pl.frame = "ready", NEW t, LikeTl(t), NEW n, NEW c, SendNextFragment(t, n, c)
  PROVE  /\ todo' = Pl /\ bus' = bus /\ pl'.frame = "ready" /\ DOMAIN pl' = DOMAIN pl
         /\ DOMAIN dl' = DOMAIN dl /\ LikeTl(tl')
<1>1. LikeTl(tl')
  BY PlFields DEF SendNextFragment, LikeTl
<1>2. \E d, again : DOMAIN d = DOMAIN dl /\ SendData(d, again)
  BY DEF SendNextFragment, SendFrame
<1> QED  BY <1>1, <1>2, SendingData

\* So does a chaining error.
LEMMA SendingChainingError ==
  ASSUME Fields, pl.frame = "ready", NEW t, LikeTl(t), SendChainingError(t)
  PROVE  /\ todo' = Pl /\ bus' = bus /\ pl'.frame = "ready" /\ DOMAIN pl' = DOMAIN pl
         /\ DOMAIN dl' = DOMAIN dl /\ LikeTl(tl')
<1>1. LikeTl(tl')
  BY PlFields DEF SendChainingError, LikeTl
<1>2. \E d, again : DOMAIN d = DOMAIN dl /\ SendData(d, again)
  BY DEF SendChainingError, SendFrame
<1> QED  BY <1>1, <1>2, SendingData

\* The next fragment of the response is awaited.
LEMMA ReceivingFrame ==
  ASSUME Fields, pl.frame = "ready", ReceiveFrame
  PROVE  /\ todo' = Pl /\ bus' = bus /\ pl'.frame = "ready" /\ DOMAIN pl' = DOMAIN pl
         /\ DOMAIN dl' = DOMAIN dl
<1>1. \E d : DOMAIN d = DOMAIN dl /\ StartReceive(d)
  BY DEF ReceiveFrame
<1> QED  BY <1>1, Receiving

\* The event is looked at again in another state.
TlLoops == todo' = todo /\ "error" \notin todo.events

\* A fragment or a chaining error is sent, or the next fragment awaited.
TlSends == todo' = Pl /\ pl.frame = "ready" /\ "error" \notin todo.events

\* The call ends.
TlReports ==
  /\ todo'.to = "api" /\ todo' # Nothing /\ todo'.event # "busy"
  /\ "error" \in todo.events => todo'.event = "error"

TlStep == TlIdle \/ TlSent \/ TlReceived \/ TlChaining \/ TlResend \/ TlChainingError \/ TlError

\* The state the data link layer is in when the transport layer is called.
LEMMA TlCalled ==
  ASSUME ChainKnown, UnderWay, FrameState, todo.to = "tl"
  PROVE  pl.frame = "ready" \/ "error" \in todo.events
<1>1. todo # Nothing /\ timer = "none" /\ ~Flagged
  BY TodoIs DEF UnderWay
<1>2. pl.frame = "uninit" => app.does \in {"start", "failed"} \/ (app.does = "opening" /\ Failing)
  BY DEF FrameState
<1>3. app.does \notin {"start", "failed"}
  BY <1>1 DEF UnderWay
<1>4. Failing => "error" \in todo.events
  BY <1>1 DEF Failing, Flagged
<1> QED  BY <1>2, <1>3, <1>4 DEF FrameState

\* ifx_i2c_dl_event_handler does one of these.
LEMMA TlEffect ==
  ASSUME Fields, ChainKnown, UnderWay, FrameState, TlStep
  PROVE  /\ Fields' /\ todo.to = "tl" /\ UNCHANGED <<bus, timer, api, app>> /\ ThreadKeeps
         /\ pl'.frame = pl.frame /\ tl'.event # "busy"
         /\ TlLoops \/ TlSends \/ TlReports
<1> USE PlFields
<1>a. todo.to = "tl" /\ UNCHANGED <<timer, api, app>> /\ ThreadKeeps
  BY DEF TlStep, TlIdle, TlSent, TlReceived, TlChaining, TlResend, TlChainingError, TlError,
         InTl, TlKeeps, ThreadKeeps
<1>b. DOMAIN dl' = DOMAIN dl /\ DOMAIN pl' = DOMAIN pl /\ LikeTl(tl') => Fields'
  BY <1>a DEF Fields, LikeTl
<1>c. pl.frame = "ready" \/ "error" \in todo.events
  BY <1>a, TlCalled
<1>d. LikeTl(tl)
  BY DEF ChainKnown, LikeTl
<1> DEFINE Kept == /\ DOMAIN dl' = DOMAIN dl /\ DOMAIN pl' = DOMAIN pl /\ LikeTl(tl')
                   /\ bus' = bus /\ pl'.frame = pl.frame
<1> SUFFICES Kept /\ (TlLoops \/ TlSends \/ TlReports)
  BY <1>a, <1>b DEF LikeTl
<1>1. ASSUME NEW t, LikeTl(t), TlLoop(t), "error" \notin todo.events
      PROVE  Kept /\ TlLoops
  BY <1>1 DEF TlLoop, TlLoops
<1>2. ASSUME NEW t, LikeTl(t), NEW n, NEW c, SendNextFragment(t, n, c), pl.frame = "ready",
             "error" \notin todo.events
      PROVE  Kept /\ TlSends
  BY <1>2, SendingFragment DEF TlSends
<1>3. ASSUME LikeTl(tl'), ReceiveFrame, pl.frame = "ready", "error" \notin todo.events
      PROVE  Kept /\ TlSends
  BY <1>3, ReceivingFrame DEF TlSends
<1>4. ASSUME NEW t, LikeTl(t), NEW e, e # "busy", TlReport(t, e),
             "error" \in todo.events => e = "error"
      PROVE  Kept /\ TlReports
  BY <1>4 DEF TlReport, Api, TlReports, Nothing
<1>5. ASSUME NEW s \in {"idle", "tx", "rx", "chaining", "resend", "chaining_error"}, InTl(s)
      PROVE  pl.frame = "ready" /\ "error" \notin todo.events
  BY <1>5, <1>c DEF InTl
<1>6. CASE TlIdle
  BY <1>6, <1>d, <1>4, <1>5 DEF TlIdle
<1>7. CASE TlSent
  <2>1. pl.frame = "ready" /\ "error" \notin todo.events
    BY <1>5, <1>7 DEF TlSent
  <2>2. \/ \E t : LikeTl(t) /\ TlLoop(t)
        \/ LikeTl(tl') /\ ReceiveFrame
        \/ SendNextFragment(tl, app.frags, app.call)
    BY <1>7, <1>d DEF TlSent, LikeTl
  <2> QED  BY <1>d, <1>1, <1>2, <1>3, <2>1, <2>2
<1>8. CASE TlReceived
  <2>1. pl.frame = "ready" /\ "error" \notin todo.events
    BY <1>5, <1>8 DEF TlReceived
  <2>2. \/ \E t : LikeTl(t) /\ (TlLoop(t) \/ TlReport(t, "success"))
        \/ LikeTl(tl') /\ ReceiveFrame
    BY <1>8, <1>d DEF TlReceived, LikeTl
  <2> QED  BY <1>1, <1>3, <1>4, <2>1, <2>2
<1>9. CASE TlChaining
  <2>1. pl.frame = "ready" /\ "error" \notin todo.events
    BY <1>5, <1>9 DEF TlChaining
  <2>2. \/ \E t : LikeTl(t) /\ TlLoop(t)
        \/ LikeTl(tl') /\ ReceiveFrame
    BY <1>9, <1>d DEF TlChaining, LikeTl
  <2> QED  BY <1>1, <1>3, <2>1, <2>2
<1>10. CASE TlResend
  <2>1. pl.frame = "ready" /\ "error" \notin todo.events
    BY <1>5, <1>10 DEF TlResend
  <2>2. \E t : LikeTl(t) /\ (TlLoop(t) \/ SendNextFragment(t, app.frags, app.call))
    BY <1>10, <1>d DEF TlResend, LikeTl
  <2> QED  BY <1>1, <1>2, <2>1, <2>2
<1>11. CASE TlChainingError
  <2>1. pl.frame = "ready" /\ "error" \notin todo.events
    BY <1>5, <1>11 DEF TlChainingError
  <2>2. \E t : LikeTl(t) /\ (TlLoop(t) \/ SendChainingError(t))
    BY <1>11, <1>d DEF TlChainingError, LikeTl
  <2> QED  BY <1>1, <2>1, <2>2, SendingChainingError DEF TlSends
<1>12. CASE TlError
  <2> DEFINE e == IF "error" \in todo.events THEN "error" ELSE tl.event
  <2>1. PICK s : TlReport([tl EXCEPT !.event = e, !.state = s], e)
    BY <1>12 DEF TlError
  <2>2. e # "busy" /\ ("error" \in todo.events => e = "error")
    BY <1>d DEF LikeTl
  <2> HIDE DEF e
  <2>3. LikeTl([tl EXCEPT !.event = e, !.state = s])
    BY <2>2 DEF LikeTl
  <2> QED  BY <1>4, <2>1, <2>2, <2>3
<1> QED  BY <1>6, <1>7, <1>8, <1>9, <1>10, <1>11, <1>12 DEF TlStep

-----------------------------------------------------------------------------
(* The steps keep the invariant *)

Agreement == ChainKnown /\ UnderWay /\ ContextsFreed /\ FrameState /\ BusHeld

\* A transfer is carried out or not acknowledged: a callback is armed.
LEMMA TransferKeeps ==
  ASSUME IInv, TransferDone
  PROVE  Agreement'
<1> USE TodoIs DEF IInv, ThreadKeeps, LayersKeep, TransferDone
<1>1. ChainKnown'
  BY DEF ChainKnown, Reporter
<1>2. UnderWay'
  BY DEF ChainKnown, UnderWay, Waiting, Flagged, Reporter
<1>3. ContextsFreed'
  BY DEF ChainKnown, UnderWay, ContextsFreed, Flagged, Reporter
<1>4. FrameState'
  BY DEF ChainKnown, UnderWay, FrameState, Failing, Flagged, Reporter
<1>5. BusHeld'
  BY DEF ChainKnown, UnderWay, BusHeld, GivingUp, Waiting, Flagged, Reporter
<1> QED  BY <1>1, <1>2, <1>3, <1>4, <1>5 DEF Agreement

\* A transfer fails for good: the chain goes on with the bus held.
LEMMA FatalKeeps ==
  ASSUME IInv, Fields', LayersKeep, PalFatal
  PROVE  Agreement'
<1> USE TodoIs DEF IInv, ThreadKeeps, LayersKeep, PalFatal, Dl
<1>1. ChainKnown'
  BY DEF ChainKnown, Reporter
<1>2. UnderWay'
  BY DEF ChainKnown, UnderWay, Waiting, Flagged, Reporter
<1>3. ContextsFreed'
  BY DEF ChainKnown, UnderWay, ContextsFreed, Flagged, Reporter
<1>4. FrameState'
  BY DEF ChainKnown, UnderWay, FrameState, Failing, Flagged, Reporter
<1>5. BusHeld'
  BY DEF ChainKnown, UnderWay, BusHeld, GivingUp, Waiting, Flagged, Reporter
<1> QED  BY <1>1, <1>2, <1>3, <1>4, <1>5 DEF Agreement

\* An operation is refused: the chain ends and nothing else is under way.
LEMMA RefusedKeeps ==
  ASSUME IInv, Fields', LayersKeep, PalRefused
  PROVE  Agreement'
<1> USE TodoIs DEF IInv, ThreadKeeps, LayersKeep, PalRefused, ChainEnds
<1>1. ChainKnown'
  BY DEF ChainKnown, Reporter
<1>2. UnderWay'
  BY DEF ChainKnown, UnderWay, Waiting, Flagged, Reporter
<1>3. ContextsFreed'
  BY DEF ChainKnown, UnderWay, ContextsFreed, Flagged, Reporter
<1>4. FrameState'
  BY DEF ChainKnown, UnderWay, FrameState, Failing, Flagged, Reporter
<1>5. BusHeld'
  BY DEF ChainKnown, UnderWay, BusHeld, GivingUp, Waiting, Flagged, Reporter
<1> QED  BY <1>1, <1>2, <1>3, <1>4, <1>5 DEF Agreement

\* A callback runs in the event thread, which may find the bus held by the caller.
LEMMA CallbackKeeps ==
  ASSUME IInv, CallbackFires
  PROVE  Agreement'
<1> USE TodoIs DEF IInv, ThreadKeeps, LayersKeep, CallbackFires
<1>1. ChainKnown'
  BY DEF ChainKnown, Reporter
<1>2. UnderWay'
  BY DEF ChainKnown, UnderWay, Waiting, Flagged, Reporter
<1>3. ContextsFreed'
  BY DEF ChainKnown, UnderWay, ContextsFreed, Flagged, Reporter
<1>4. FrameState'
  BY DEF ChainKnown, UnderWay, FrameState, Failing, Flagged, Reporter
<1>5. BusHeld'
  BY DEF ChainKnown, UnderWay, BusHeld, GivingUp, Waiting, Flagged, Reporter
<1> QED  BY <1>1, <1>2, <1>3, <1>4, <1>5 DEF Agreement

\* One more register access.
LEMMA PlGoesOnKeeps ==
  ASSUME IInv, PlGoesOn
  PROVE  Agreement'
<1> USE TodoIs DEF IInv, ThreadKeeps, LayersKeep, PlGoesOn
<1>1. ChainKnown'
  BY DEF ChainKnown, Reporter
<1>2. UnderWay'
  BY DEF ChainKnown, UnderWay, Waiting, Flagged, Reporter
<1>3. ContextsFreed'
  BY DEF ChainKnown, UnderWay, ContextsFreed, Flagged, Reporter
<1>4. FrameState'
  BY DEF ChainKnown, UnderWay, FrameState, Failing, Flagged, Reporter
<1>5. BusHeld'
  BY DEF ChainKnown, UnderWay, BusHeld, GivingUp, Waiting, Flagged, Reporter
<1> QED  BY <1>1, <1>2, <1>3, <1>4, <1>5 DEF Agreement

\* The status is polled again later.
LEMMA PlWaitsKeeps ==
  ASSUME IInv, PlWaits
  PROVE  Agreement'
<1> USE TodoIs DEF IInv, ThreadKeeps, LayersKeep, PlWaits, ChainEnds
<1>1. ChainKnown'
  BY DEF ChainKnown, Reporter
<1>2. UnderWay'
  BY DEF ChainKnown, UnderWay, Waiting, Flagged, Reporter
<1>3. ContextsFreed'
  BY DEF ChainKnown, UnderWay, ContextsFreed, Flagged, Reporter
<1>4. FrameState'
  BY DEF ChainKnown, UnderWay, FrameState, Failing, Flagged, Reporter
<1>5. BusHeld'
  BY DEF ChainKnown, UnderWay, BusHeld, GivingUp, Waiting, Flagged, Reporter
<1> QED  BY <1>1, <1>2, <1>3, <1>4, <1>5 DEF Agreement

\* The data link layer is told.
LEMMA PlReportsKeeps ==
  ASSUME IInv, PlReports
  PROVE  Agreement'
<1> USE TodoIs DEF IInv, ThreadKeeps, LayersKeep, PlReports
<1>1. ChainKnown'
  BY DEF ChainKnown, Reporter
<1>2. UnderWay'
  BY DEF ChainKnown, UnderWay, Waiting, Flagged, Reporter
<1>3. ContextsFreed'
  BY DEF ChainKnown, UnderWay, ContextsFreed, Flagged, Reporter
<1>4. FrameState'
  BY DEF ChainKnown, UnderWay, FrameState, Failing, Flagged, Reporter
<1>5. BusHeld'
  BY DEF ChainKnown, UnderWay, BusHeld, GivingUp, Waiting, Flagged, Reporter
<1> QED  BY <1>1, <1>2, <1>3, <1>4, <1>5 DEF Agreement

\* The data link layer decides.
LEMMA LinkKeepsAll ==
  ASSUME IInv, LinkStep
  PROVE  Agreement'
<1>a. /\ todo.to = "dl" /\ UNCHANGED <<bus, timer, tl, api, app>> /\ ThreadKeeps
      /\ pl'.frame = pl.frame
      /\ LinkLoops \/ LinkSends \/ LinkReports
  BY LinkEffect DEF IInv
<1>b. pl.frame = "ready" \/ (pl.frame = "uninit" /\ dl.state = "idle" /\ todo.event = "error")
  BY <1>a, LinkCalled DEF IInv
<1> USE <1>a, <1>b
<1> USE TodoIs DEF IInv, ThreadKeeps, LinkLoops, LinkSends, LinkReports, LinkFails
<1>1. ChainKnown'
  BY DEF ChainKnown, Reporter
<1>2. UnderWay'
  BY DEF ChainKnown, UnderWay, Waiting, Flagged, Reporter
<1>3. ContextsFreed'
  BY DEF ChainKnown, UnderWay, ContextsFreed, Flagged, Reporter
<1>4. FrameState'
  BY DEF ChainKnown, UnderWay, FrameState, Failing, Flagged, Reporter
<1>5. BusHeld'
  BY DEF ChainKnown, UnderWay, BusHeld, GivingUp, Waiting, Flagged, Reporter
<1> QED  BY <1>1, <1>2, <1>3, <1>4, <1>5 DEF Agreement

\* The transport layer decides.
LEMMA TlKeepsAll ==
  ASSUME IInv, TlStep
  PROVE  Agreement'
<1>a. /\ todo.to = "tl" /\ UNCHANGED <<bus, timer, api, app>> /\ ThreadKeeps
      /\ pl'.frame = pl.frame /\ tl'.event # "busy"
      /\ TlLoops \/ TlSends \/ TlReports
  BY TlEffect DEF IInv
<1> USE <1>a
<1> USE TodoIs DEF IInv, ThreadKeeps, TlLoops, TlSends, TlReports
<1>1. ChainKnown'
  BY DEF ChainKnown, Reporter
<1>2. UnderWay'
  BY DEF ChainKnown, UnderWay, Waiting, Flagged, Reporter
<1>3. ContextsFreed'
  BY DEF ChainKnown, UnderWay, ContextsFreed, Flagged, Reporter
<1>4. FrameState'
  BY DEF ChainKnown, UnderWay, FrameState, Failing, Flagged, Reporter
<1>5. BusHeld'
  BY DEF ChainKnown, UnderWay, BusHeld, GivingUp, Waiting, Flagged, Reporter
<1> QED  BY <1>1, <1>2, <1>3, <1>4, <1>5 DEF Agreement

\* optiga_comms_event_handler sets the flag.
LEMMA FlagKeeps ==
  ASSUME IInv, ApiSetsFlag
  PROVE  Agreement'
<1>a. /\ UNCHANGED <<timer, who, tail, pl, lost, dl, tl, bus, api, overtaken>>
      /\ app'.does = app.does /\ app'.flag = todo.event
      /\ todo.to = "api" /\ todo'.to = "comms" /\ todo'.event = todo.event
  BY DEF IInv, Fields, ApiSetsFlag, Reporting, linkVars
<1>b. todo # Nothing /\ todo' # Nothing /\ ~Flagged
  BY <1>a, TodoIs DEF IInv, UnderWay
<1> USE <1>a, <1>b
<1> USE TodoIs DEF IInv
<1>1. ChainKnown'
  BY DEF ChainKnown, Reporter
<1>2. UnderWay'
  BY DEF ChainKnown, UnderWay, Waiting, Flagged, Reporter
<1>3. ContextsFreed'
  BY DEF ChainKnown, UnderWay, ContextsFreed, Flagged, Reporter
<1>4. FrameState'
  BY DEF ChainKnown, UnderWay, FrameState, Failing, Flagged, Reporter
<1>5. BusHeld'
  BY DEF ChainKnown, UnderWay, BusHeld, GivingUp, Waiting, Flagged, Reporter
<1> QED  BY <1>1, <1>2, <1>3, <1>4, <1>5 DEF Agreement

\* optiga_comms.c frees its context.
LEMMA CommsKeeps ==
  ASSUME IInv, CommsFrees
  PROVE  Agreement'
<1>a. /\ UNCHANGED <<timer, who, tail, pl, lost, dl, tl, bus, app, overtaken>>
      /\ api'.inuse = FALSE /\ api'.busy = api.busy
      /\ todo.to = "comms" /\ todo'.to = "ifx" /\ todo'.event = todo.event
  BY DEF IInv, Fields, CommsFrees, Reporting, linkVars
<1>b. todo # Nothing /\ todo' # Nothing
  BY <1>a, TodoIs
<1> USE <1>a, <1>b
<1> USE TodoIs DEF IInv
<1>1. ChainKnown'
  BY DEF ChainKnown, Reporter
<1>2. UnderWay'
  BY DEF ChainKnown, UnderWay, Waiting, Flagged, Reporter
<1>3. ContextsFreed'
  BY DEF ChainKnown, UnderWay, ContextsFreed, Flagged, Reporter
<1>4. FrameState'
  BY DEF ChainKnown, UnderWay, FrameState, Failing, Flagged, Reporter
<1>5. BusHeld'
  BY DEF ChainKnown, UnderWay, BusHeld, GivingUp, Waiting, Flagged, Reporter
<1> QED  BY <1>1, <1>2, <1>3, <1>4, <1>5 DEF Agreement

\* ifx_i2c_tl_event_handler frees its own and the chain ends.
LEMMA IfxKeeps ==
  ASSUME IInv, IfxFrees
  PROVE  Agreement'
<1>a. /\ UNCHANGED <<timer, who, tail, pl, lost, dl, tl, app>>
      /\ api'.inuse = api.inuse /\ api'.busy = FALSE
      /\ todo.to = "ifx" /\ todo' = Nothing /\ bus' = (IF bus = "event" THEN "free" ELSE bus)
      /\ overtaken' = (overtaken \/ tail # "none")
  BY DEF IInv, Fields, IfxFrees, Reporting, linkVars, ChainEnds
<1>b. todo # Nothing /\ todo'.to = "none"
  BY <1>a, TodoIs
<1> USE <1>a, <1>b
<1> USE TodoIs DEF IInv
<1>1. ChainKnown'
  BY DEF ChainKnown, Reporter
<1>2. UnderWay'
  BY DEF ChainKnown, UnderWay, Waiting, Flagged, Reporter
<1>3. ContextsFreed'
  BY DEF ChainKnown, UnderWay, ContextsFreed, Flagged, Reporter
<1>4. FrameState'
  BY DEF ChainKnown, UnderWay, FrameState, Failing, Flagged, Reporter
<1>5. BusHeld'
  BY DEF ChainKnown, UnderWay, BusHeld, GivingUp, Waiting, Flagged, Reporter
<1> QED  BY <1>1, <1>2, <1>3, <1>4, <1>5 DEF Agreement

\* ifx_i2c_init: the pins are released and the layers set up.
LEMMA InitKeeps ==
  ASSUME IInv, InitCallback \/ LayersInit
  PROVE  Agreement'
<1>a. /\ todo = Nothing /\ timer = "init" /\ UNCHANGED <<bus, tail, lost, overtaken, app>>
      /\ who' = "event" /\ api'.inuse = api.inuse /\ api'.busy = api.busy
      /\ \/ timer' = "init" /\ UNCHANGED <<todo, pl, dl, tl>>
         \/ /\ timer' = "none" /\ todo' = Pl /\ pl'.frame = "init" /\ dl'.state = "idle"
            /\ tl'.event # "busy"
  <2>1. CASE InitCallback
    BY <2>1 DEF IInv, Fields, InitCallback, Fire, linkVars
  <2>2. CASE LayersInit
    BY <2>2, PlFields DEF IInv, Fields, LayersInit, Fire, TlInitial, DlInitial
  <2> QED  BY <2>1, <2>2
<1> USE <1>a
<1> USE TodoIs DEF IInv
<1>1. ChainKnown'
  BY DEF ChainKnown, Reporter
<1>2. UnderWay'
  BY DEF ChainKnown, UnderWay, Waiting, Flagged, Reporter
<1>3. ContextsFreed'
  BY DEF ChainKnown, UnderWay, ContextsFreed, Flagged, Reporter
<1>4. FrameState'
  BY DEF ChainKnown, UnderWay, FrameState, Failing, Flagged, Reporter
<1>5. BusHeld'
  BY DEF ChainKnown, UnderWay, BusHeld, GivingUp, Waiting, Flagged, Reporter
<1> QED  BY <1>1, <1>2, <1>3, <1>4, <1>5 DEF Agreement

\* optiga_comms_open.
LEMMA OpenKeeps ==
  ASSUME IInv, Open
  PROVE  Agreement'
<1>a. /\ app.does = "start" /\ todo = Nothing /\ timer = "none" /\ timer' = "init"
      /\ tail' = "mark" /\ UNCHANGED <<bus, todo, who, pl, lost, overtaken, dl, tl>>
      /\ app'.does = "opening" /\ app'.flag = "busy" /\ api'.busy = api.busy
  BY DEF IInv, Fields, Open, linkVars
<1> USE <1>a
<1> USE TodoIs DEF IInv
<1>1. ChainKnown'
  BY DEF ChainKnown, Reporter
<1>2. UnderWay'
  BY DEF ChainKnown, UnderWay, Waiting, Flagged, Reporter
<1>3. ContextsFreed'
  BY DEF ChainKnown, UnderWay, ContextsFreed, Flagged, Reporter
<1>4. FrameState'
  BY DEF ChainKnown, UnderWay, FrameState, Failing, Flagged, Reporter
<1>5. BusHeld'
  BY DEF ChainKnown, UnderWay, BusHeld, GivingUp, Waiting, Flagged, Reporter
<1> QED  BY <1>1, <1>2, <1>3, <1>4, <1>5 DEF Agreement

\* optiga_comms_transceive: the caller runs the chain up to the first transfer.
LEMMA TransceiveKeeps ==
  ASSUME IInv, NEW n, NEW r, Transceive(n, r)
  PROVE  Agreement'
<1>a. pl.frame = "ready"
  BY DEF IInv, Transceive, FrameState, Failing, UnderWay, Flagged, Nothing
<1>b. SendNextFragment([TlInitial EXCEPT !.state = "tx"], n, app.call + 1)
  BY DEF Transceive
<1>c. LikeTl([TlInitial EXCEPT !.state = "tx"])
  BY DEF IInv, Fields, LikeTl, TlInitial
<1>d. todo' = Pl /\ bus' = bus /\ pl'.frame = "ready" /\ tl'.event # "busy"
  BY <1>a, <1>b, <1>c, SendingFragment DEF IInv, LikeTl
<1>e. /\ app.does = "idle" /\ todo = Nothing /\ UNCHANGED <<timer, lost, overtaken>>
      /\ who' = "caller" /\ tail' = "release"
      /\ app'.does = "waiting" /\ app'.flag = "busy"
  BY DEF IInv, Fields, Transceive, CommandCall
<1> USE <1>a, <1>d, <1>e
<1> USE TodoIs DEF IInv
<1>1. ChainKnown'
  BY DEF ChainKnown, Reporter
<1>2. UnderWay'
  BY DEF ChainKnown, UnderWay, Waiting, Flagged, Reporter
<1>3. ContextsFreed'
  BY DEF ChainKnown, UnderWay, ContextsFreed, Flagged, Reporter
<1>4. FrameState'
  BY DEF ChainKnown, UnderWay, FrameState, Failing, Flagged, Reporter
<1>5. BusHeld'
  BY DEF ChainKnown, UnderWay, BusHeld, GivingUp, Waiting, Flagged, Reporter
<1> QED  BY <1>1, <1>2, <1>3, <1>4, <1>5 DEF Agreement

\* The caller returns from its call and looks at the flag.
LEMMA CallerKeeps ==
  ASSUME IInv, CallerReleases \/ CallerMarks \/ CallerSees \/ TransceiveRefused
  PROVE  Agreement'
<1>a. /\ UNCHANGED <<timer, todo, who, pl, lost, overtaken, dl, tl>>
      /\ api'.inuse = api.inuse
      /\ \/ /\ tail = "release" /\ ~(todo # Nothing /\ who = "caller") /\ bus' = "free"
            /\ tail' = "mark" /\ UNCHANGED <<api, app>>
         \/ /\ tail = "mark" /\ tail' = "none" /\ UNCHANGED <<bus, app>>
            /\ todo.to = "ifx" \/ (todo = Nothing /\ (app.flag # "busy" \/ timer = "none"))
         \/ /\ app.does \in {"opening", "waiting"} /\ tail = "none" /\ app.flag # "busy"
            /\ UNCHANGED <<bus, tail, api>> /\ app'.flag = app.flag
            /\ app'.does = IF app.does = "opening" /\ app.flag = "error" THEN "failed" ELSE "idle"
         \/ /\ app.does = "idle" /\ app'.does = "refused" /\ app'.flag = app.flag
            /\ UNCHANGED <<bus, tail, api>>
  <2>1. CASE CallerReleases
    BY <2>1 DEF CallerReleases, Stays, linkVars
  <2>2. CASE CallerMarks
    BY <2>2 DEF IInv, Fields, CallerMarks, linkVars
  <2>3. CASE CallerSees
    BY <2>3 DEF IInv, Fields, CallerSees, busVars, linkVars
  <2>4. CASE TransceiveRefused
    BY <2>4 DEF IInv, Fields, TransceiveRefused, busVars, linkVars
  <2> QED  BY <2>1, <2>2, <2>3, <2>4
<1> USE <1>a
<1> USE TodoIs DEF IInv
<1>1. ChainKnown'
  BY DEF ChainKnown, Reporter
<1>2. UnderWay'
  BY DEF ChainKnown, UnderWay, Waiting, Flagged, Reporter
<1>3. ContextsFreed'
  BY DEF ChainKnown, UnderWay, ContextsFreed, Flagged, Reporter
<1>4. FrameState'
  BY DEF ChainKnown, UnderWay, FrameState, Failing, Flagged, Reporter
<1>5. BusHeld'
  BY DEF ChainKnown, UnderWay, BusHeld, GivingUp, Waiting, Flagged, Reporter
<1> QED  BY <1>1, <1>2, <1>3, <1>4, <1>5 DEF Agreement

\* What the device and time do shows at the next transfer.
LEMMA OthersKeep ==
  ASSUME IInv, UNCHANGED <<timer, todo, who, tail, bus, pl, lost, overtaken, dl, tl, api, app>>
  PROVE  Agreement'
<1> USE TodoIs DEF IInv
<1>1. ChainKnown'
  BY DEF ChainKnown, Reporter
<1>2. UnderWay'
  BY DEF ChainKnown, UnderWay, Waiting, Flagged, Reporter
<1>3. ContextsFreed'
  BY DEF ChainKnown, UnderWay, ContextsFreed, Flagged, Reporter
<1>4. FrameState'
  BY DEF ChainKnown, UnderWay, FrameState, Failing, Flagged, Reporter
<1>5. BusHeld'
  BY DEF ChainKnown, UnderWay, BusHeld, GivingUp, Waiting, Flagged, Reporter
<1> QED  BY <1>1, <1>2, <1>3, <1>4, <1>5 DEF Agreement

-----------------------------------------------------------------------------
(* The invariant *)

\* A stack that has not been opened.
LEMMA InitEstablishes == Init => IInv
<1> SUFFICES ASSUME Init
             PROVE  IInv
  OBVIOUS
<1> USE DEF Init, LinkInit, BusInit
<1>1. Fields /\ ChainKnown
  BY DEF Fields, ChainKnown, TlInitial, Nothing, Reporter
<1>2. UnderWay /\ ContextsFreed
  BY DEF UnderWay, ContextsFreed, Waiting, Flagged, Nothing
<1>3. FrameState /\ BusHeld
  BY DEF FrameState, BusHeld, Flagged, PlInitial, Nothing, Reporter
<1> QED  BY <1>1, <1>2, <1>3 DEF IInv

\* The steps of the API and of the caller change fields of records, never the records.
LEMMA FieldsKept ==
  ASSUME IInv, TransportStep \/ CallerStep
  PROVE  Fields'
<1> USE DEF IInv, Fields
<1>1. CASE TlStep
  BY <1>1, TlEffect
<1>2. CASE ApiSetsFlag \/ CommsFrees \/ IfxFrees
  BY <1>2 DEF ApiSetsFlag, CommsFrees, IfxFrees, Reporting, linkVars
<1>3. CASE InitCallback
  BY <1>3 DEF InitCallback, linkVars
<1>4. CASE LayersInit
  BY <1>4 DEF LayersInit
<1>5. CASE Open \/ TransceiveRefused \/ CallerReleases \/ CallerMarks \/ CallerSees
  BY <1>5 DEF Open, TransceiveRefused, CallerReleases, CallerMarks, CallerSees, Stays, busVars,
              linkVars
<1>6. ASSUME NEW n, NEW r, Transceive(n, r)
      PROVE  Fields'
  <2>1. pl.frame = "ready"
    BY <1>6 DEF Transceive, FrameState, Failing, UnderWay, Flagged, Nothing
  <2>2. SendNextFragment([TlInitial EXCEPT !.state = "tx"], n, app.call + 1)
    BY <1>6 DEF Transceive
  <2>3. LikeTl([TlInitial EXCEPT !.state = "tx"])
    BY DEF LikeTl, TlInitial
  <2>4. DOMAIN pl' = DOMAIN pl /\ DOMAIN dl' = DOMAIN dl /\ DOMAIN tl' = DOMAIN tl
    BY <2>1, <2>2, <2>3, SendingFragment DEF LikeTl
  <2>5. DOMAIN api' = DOMAIN api /\ DOMAIN app' = DOMAIN app
    BY <1>6 DEF Transceive, CommandCall
  <2> QED  BY <2>4, <2>5
<1> QED  BY <1>1, <1>2, <1>3, <1>4, <1>5, <1>6 DEF TransportStep, TlStep, CallerStep

\* Every step of the stack, of the caller, of the device and of time keeps the invariant.
LEMMA InvariantStep == IInv /\ [Next]_vars => IInv'
<1> SUFFICES ASSUME IInv, [Next]_vars
             PROVE  Fields' /\ Agreement'
  BY DEF Agreement, IInv
<1>1. CASE BusStep
  <2>1. /\ Fields' /\ LayersKeep
        /\ TransferDone \/ PalFatal \/ PalRefused \/ CallbackFires \/ PlGoesOn \/ PlWaits
           \/ PlReports
    BY <1>1, BusEffect DEF IInv
  <2> QED  BY <2>1, TransferKeeps, FatalKeeps, RefusedKeeps, CallbackKeeps, PlGoesOnKeeps,
              PlWaitsKeeps, PlReportsKeeps
<1>2. CASE LinkStep
  BY <1>2, LinkEffect, LinkKeepsAll DEF IInv
<1>3. CASE TransportStep
  BY <1>3, FieldsKept, TlKeepsAll, FlagKeeps, CommsKeeps, IfxKeeps, InitKeeps
  DEF TransportStep, TlStep
<1>4. CASE CallerStep
  BY <1>4, FieldsKept, OpenKeeps, TransceiveKeeps, CallerKeeps DEF CallerStep
<1>5. CASE DeviceStep \/ Time \/ UNCHANGED vars
  <2>1. UNCHANGED <<timer, todo, who, tail, bus, pl, lost, overtaken, dl, tl, api, app>>
    BY <1>5 DEF DeviceStep, Time, TimePasses, Stays, linkVars, vars, busVars
  <2>2. Fields'
    BY <2>1 DEF IInv, Fields
  <2> QED  BY <2>1, <2>2, OthersKeep
<1> QED  BY <1>1, <1>2, <1>3, <1>4, <1>5 DEF Next

\* Whatever is disturbed on the bus, and however the two threads take turns.
LEMMA Invariance == Spec => []IInv
<1>1. IInv /\ [Next]_vars => IInv'
  BY InvariantStep
<1> QED  BY <1>1, InitEstablishes, PTL DEF Spec

-----------------------------------------------------------------------------
(* The stack is left ready *)

\* After a call the contexts are free for the next one, during a call something is under way,
\* and only a transfer that failed for good, or a caller overtaken by the event thread, makes
\* pal_i2c_acquire turn an operation away.
THEOREM AlwaysLeftReady == Spec => []LeftReady
<1>1. IInv => LeftReady
  <2> SUFFICES ASSUME IInv
               PROVE  LeftReady
    OBVIOUS
  <2>1. FreeAfterAnswer
    BY TodoIs DEF IInv, FreeAfterAnswer, UnderWay, ContextsFreed, Flagged
  <2>2. StrandedOnlyByBusyBus
    BY DEF IInv, StrandedOnlyByBusyBus, Stranded, UnderWay
  <2>3. BusBusyOnlyWhenNested
    BY DEF IInv, BusBusyOnlyWhenNested, BusHeld
  <2> QED  BY <2>1, <2>2, <2>3 DEF LeftReady
<1> QED  BY <1>1, Invariance, PTL

-----------------------------------------------------------------------------
(* What the device does with its state *)

\* The numbers of frames are four, on a circle.
LEMMA Circle ==
  ASSUME NEW n \in Nr, NEW m \in Nr
  PROVE  Succ(n) \in Nr /\ Succ(n) # n /\ (Succ(n) = Succ(m) => n = m) /\ Succ(3) = 0
<1>1. (Succ(0) = 1 /\ Succ(1) = 2 /\ Succ(2) = 3 /\ Succ(3) = 0)
  BY DEF Succ
<1>2. (n = 0 \/ n = 1 \/ n = 2 \/ n = 3) /\ (m = 0 \/ m = 1 \/ m = 2 \/ m = 3)
  BY DEF Nr
<1> QED  BY <1>1, <1>2 DEF Nr

\* Frames, bodies and the device keep their types.
LEMMA FrameTyped ==
  ASSUME NEW n \in Nat, NEW k \in {"data", "ctrl"}, NEW s \in {"ack", "nack", "resync"},
         NEW f \in Nr, NEW a \in Nr, NEW b \in Bodies(n)
  PROVE  /\ Frame(k, s, f, a, b) \in Frames(n) /\ Frame(k, s, f, a, b) # NoFrame
         /\ Frame(k, s, f, a, b).kind = k /\ Frame(k, s, f, a, b).seq = s
         /\ Frame(k, s, f, a, b).fr = f /\ Frame(k, s, f, a, b).ack = a
         /\ Frame(k, s, f, a, b).body = b /\ Frame(k, s, f, a, b).good
BY DEF Frame, Frames, NoFrame

\* No frame and no body are values too.
LEMMA NoBodyTyped ==
  ASSUME NEW n \in Nat
  PROVE  NoBody \in Bodies(n) /\ CrcBody \in Bodies(n) /\ NoFrame \in Frames(n)
BY DEF NoBody, CrcBody, Body, Bodies, NoFrame, Frame, Frames, Nr

\* A control frame of the device acknowledges the frame it has taken.
LEMMA CtrlTyped ==
  ASSUME NEW n \in Nat, NEW d \in Devices(n), NEW s \in {"ack", "nack"}
  PROVE  /\ Ctrl(d, s) \in Frames(n) /\ Ctrl(d, s).good /\ Ctrl(d, s).kind = "ctrl"
         /\ Ctrl(d, s).seq = s /\ (s = "ack" => Ctrl(d, s).ack = d.rx)
<1>1. d.rx \in Nr
  BY DEF Devices
<1> QED  BY <1>1, Circle, NoBodyTyped, FrameTyped DEF Ctrl, Nr

\* What the device has to say besides, it says in frames.
OnlyOut(d, e) ==
  /\ e.rx = d.rx /\ e.tx = d.tx /\ e.sent = d.sent /\ e.job = d.job /\ e.resp = d.resp
  /\ e.all = d.all /\ e.call = d.call /\ e.runs = d.runs /\ e.garbled = d.garbled

\* Changing what the device has ready changes nothing else.
LEMMA OutChanged ==
  ASSUME NEW n \in Nat, NEW d \in Devices(n), NEW s \in Seq(Frames(n))
  PROVE  [d EXCEPT !.out = s] \in Devices(n) /\ OnlyOut(d, [d EXCEPT !.out = s])
         /\ [d EXCEPT !.out = s].out = s /\ [d EXCEPT !.out = s].got = d.got
BY DEF Devices, OnlyOut

\* A sequence of one frame.
LEMMA Pair ==
  ASSUME NEW S, NEW x \in S
  PROVE  /\ <<x>> \in Seq(S) /\ Len(<<x>>) = 1 /\ <<x>>[1] = x
         /\ <<>> \in Seq(S)
OBVIOUS

\* A device in the state the protocol leaves it in, with the frames it has ready.
LEMMA OfferEffect ==
  ASSUME NEW n \in Nat, NEW d \in Devices(n)
  PROVE  LET e == Offer(d)
             o == Frame("data", "ack", Succ(d.tx), d.rx, Head(d.resp))
         IN  /\ e \in Devices(n)
             /\ e.rx = d.rx /\ e.got = d.got /\ e.job = d.job /\ e.all = d.all /\ e.call = d.call
             /\ e.runs = d.runs /\ e.garbled = d.garbled
             /\ IF d.resp = <<>> \/ d.sent # NoFrame THEN e = d
                ELSE /\ e.tx = Succ(d.tx) /\ e.sent = o /\ e.resp = Tail(d.resp)
                     /\ e.out = Append(d.out, o) /\ o \in Frames(n) /\ o # NoFrame
                     /\ Head(d.resp) = d.resp[1] /\ d.resp[1] \in Bodies(n) /\ Len(d.resp) > 0
                     /\ o.good /\ o.kind = "data" /\ o.seq = "ack" /\ o.fr = Succ(d.tx)
                     /\ o.ack = d.rx /\ o.body = d.resp[1]
<1>1. CASE d.resp = <<>> \/ d.sent # NoFrame
  BY <1>1 DEF Offer
<1>2. CASE ~(d.resp = <<>> \/ d.sent # NoFrame)
  <2> DEFINE o == Frame("data", "ack", Succ(d.tx), d.rx, Head(d.resp))
  <2>1. d.resp \in Seq(Bodies(n)) /\ d.resp # <<>> /\ d.tx \in Nr /\ d.rx \in Nr
        /\ d.out \in Seq(Frames(n))
    BY <1>2 DEF Devices
  <2>2. /\ Head(d.resp) = d.resp[1] /\ d.resp[1] \in Bodies(n) /\ Len(d.resp) > 0
        /\ Tail(d.resp) \in Seq(Bodies(n))
    BY <2>1
  <2>3. Succ(d.tx) \in Nr
    BY <2>1, Circle
  <2>4. /\ o \in Frames(n) /\ o # NoFrame /\ o.good /\ o.kind = "data" /\ o.seq = "ack"
        /\ o.fr = Succ(d.tx) /\ o.ack = d.rx /\ o.body = d.resp[1]
    BY <2>1, <2>2, <2>3, FrameTyped
  <2>5. Offer(d) = [d EXCEPT !.tx = Succ(d.tx), !.sent = o, !.resp = Tail(d.resp),
                             !.out = Append(d.out, o)]
    BY <1>2 DEF Offer
  <2>6. Append(d.out, o) \in Seq(Frames(n))
    BY <2>1, <2>4
  <2> HIDE DEF o
  <2>7. Offer(d) \in Devices(n)
    BY <2>2, <2>3, <2>4, <2>5, <2>6 DEF Devices
  <2>8. LET e == Offer(d)
        IN  /\ e.rx = d.rx /\ e.got = d.got /\ e.job = d.job /\ e.all = d.all /\ e.call = d.call
            /\ e.runs = d.runs /\ e.garbled = d.garbled
            /\ e.tx = Succ(d.tx) /\ e.sent = o /\ e.resp = Tail(d.resp)
            /\ e.out = Append(d.out, o)
    BY <2>5 DEF Devices
  <2>9. QED  BY <1>2, <2>2, <2>4, <2>7, <2>8 DEF o
<1> QED  BY <1>1, <1>2

\* An acknowledgement of the last fragment.
LEMMA AckedEffect ==
  ASSUME NEW n \in Nat, NEW d \in Devices(n), NEW a
  PROVE  LET e == Acked(d, a)
         IN  /\ e \in Devices(n)
             /\ e.rx = d.rx /\ e.tx = d.tx /\ e.got = d.got /\ e.job = d.job /\ e.resp = d.resp
             /\ e.all = d.all /\ e.call = d.call /\ e.runs = d.runs /\ e.garbled = d.garbled
             /\ e.sent = IF d.sent # NoFrame /\ a = d.sent.fr THEN NoFrame ELSE d.sent
BY NoBodyTyped DEF Acked, Devices

\* A response, or a chaining error, is kept as a whole.
LEMMA AnswerEffect ==
  ASSUME NEW n \in Nat, NEW d \in Devices(n), NEW r \in Seq(Bodies(n))
  PROVE  LET e == Answer(d, r)
         IN  /\ e \in Devices(n)
             /\ e.rx = d.rx /\ e.tx = d.tx /\ e.out = d.out /\ e.sent = d.sent /\ e.job = d.job
             /\ e.call = d.call /\ e.runs = d.runs /\ e.garbled = d.garbled
             /\ e.resp = r /\ e.all = r
BY DEF Answer, Devices

\* A chaining error is the response to a spoiled command.
LEMMA ChainingErrorEffect ==
  ASSUME NEW n \in Nat, NEW d \in Devices(n)
  PROVE  LET e == ChainingError(d)
             r == <<Body("error", d.call)>>
         IN  /\ e \in Devices(n)
             /\ e.rx = d.rx /\ e.tx = d.tx /\ e.out = d.out /\ e.sent = d.sent /\ e.job = d.job
             /\ e.call = d.call /\ e.runs = d.runs /\ e.garbled
             /\ e.resp = r /\ e.all = r /\ Len(r) = 1 /\ r[1].pctr = "error"
<1> DEFINE r == <<Body("error", d.call)>>
<1>1. Body("error", d.call) \in Bodies(n) /\ Body("error", d.call).pctr = "error"
  BY DEF Body, Bodies, Devices, Chaining
<1>2. r \in Seq(Bodies(n)) /\ Len(r) = 1 /\ r[1].pctr = "error"
  BY <1>1
<1>3. ChainingError(d) = [Answer(d, r) EXCEPT !.garbled = TRUE]
  BY DEF ChainingError
<1> HIDE DEF r
<1>4. LET e == Answer(d, r)
      IN  /\ e \in Devices(n)
          /\ e.rx = d.rx /\ e.tx = d.tx /\ e.out = d.out /\ e.sent = d.sent /\ e.job = d.job
          /\ e.call = d.call /\ e.runs = d.runs /\ e.garbled = d.garbled
          /\ e.resp = r /\ e.all = r
  BY <1>2, AnswerEffect
<1>5. \A x \in Devices(n) :
        LET e == [x EXCEPT !.garbled = TRUE]
        IN  /\ e \in Devices(n) /\ e.garbled
            /\ e.rx = x.rx /\ e.tx = x.tx /\ e.out = x.out /\ e.sent = x.sent /\ e.job = x.job
            /\ e.call = x.call /\ e.runs = x.runs /\ e.resp = x.resp /\ e.all = x.all
  BY DEF Devices
<1>6. LET e == ChainingError(d)
      IN  /\ e \in Devices(n) /\ e.garbled
          /\ e.rx = d.rx /\ e.tx = d.tx /\ e.out = d.out /\ e.sent = d.sent /\ e.job = d.job
          /\ e.call = d.call /\ e.runs = d.runs /\ e.resp = r /\ e.all = r
  BY <1>3, <1>4, <1>5
<1> QED  BY <1>2, <1>6 DEF r

\* A command is complete.
LEMMA CompleteEffect ==
  ASSUME NEW n \in Nat, NEW d \in Devices(n), NEW c \in 0..n
  PROVE  LET e == Complete(d, c, FALSE)
         IN  /\ e \in Devices(n)
             /\ e.rx = d.rx /\ e.tx = d.tx /\ e.out = d.out /\ e.sent = d.sent /\ e.job
             /\ e.call = c /\ e.resp = <<>> /\ e.all = <<>> /\ e.garbled = d.garbled
             /\ e.runs = d.runs \/ e.runs = d.runs + 1
             /\ d.runs < 3 => e.runs = d.runs + 1
<1> DEFINE q == IF d.runs = 3 THEN 3 ELSE d.runs + 1
<1>1. <<>> \in Seq(Bodies(n)) /\ d.garbled \in BOOLEAN
  BY DEF Devices
<1>2. q \in 0..3 /\ (q = d.runs \/ q = d.runs + 1) /\ (d.runs < 3 => q = d.runs + 1)
  BY DEF Devices
<1>3. Complete(d, c, FALSE) = [d EXCEPT !.got = 0, !.job = TRUE, !.call = c, !.resp = <<>>,
                                        !.all = <<>>, !.runs = q]
  BY <1>1 DEF Complete, Devices
<1> HIDE DEF q
<1> QED  BY <1>1, <1>2, <1>3 DEF Devices

\* Bytes that nobody submitted make a command too.
LEMMA GarbledEffect ==
  ASSUME NEW n \in Nat, NEW d \in Devices(n), NEW c \in 0..n
  PROVE  LET e == Complete(d, c, TRUE)
         IN  /\ e \in Devices(n)
             /\ e.rx = d.rx /\ e.tx = d.tx /\ e.out = d.out /\ e.sent = d.sent /\ e.job
             /\ e.call = c /\ e.resp = <<>> /\ e.all = <<>> /\ e.garbled /\ e.runs = d.runs
<1>1. <<>> \in Seq(Bodies(n)) /\ d.runs \in 0..3
  BY DEF Devices
<1>2. Complete(d, c, TRUE) = [d EXCEPT !.got = 0, !.job = TRUE, !.call = c, !.resp = <<>>,
                                       !.all = <<>>, !.garbled = TRUE]
  BY <1>1 DEF Complete, Devices
<1> QED  BY <1>1, <1>2 DEF Devices

\* What became of a fragment b of call c that the device took.
Completed(d, e, b, c) ==
  /\ Last(b) /\ e.job /\ e.call = c /\ e.resp = <<>> /\ e.all = <<>> /\ e.garbled = d.garbled
  /\ e.runs = d.runs \/ e.runs = d.runs + 1
  /\ d.runs < 3 => e.runs = d.runs + 1
Spoiled(d, e, c) ==
  /\ e.garbled /\ e.runs = d.runs /\ e.resp = e.all
  /\ \/ e.job = d.job /\ e.call = d.call /\ Len(e.all) = 1 /\ e.all[1].pctr = "error"
     \/ e.job /\ e.call = c /\ e.all = <<>>
Repeated(d, e, b) ==
  /\ b.pctr = "error" /\ e.resp = d.all /\ e.all = d.all /\ e.job = d.job /\ e.call = d.call
  /\ e.runs = d.runs /\ e.garbled = d.garbled
Gathered(d, e, b) ==
  /\ b.pctr \in {"first", "inter"} /\ e.resp \in {<<>>, d.resp} /\ e.all = d.all /\ e.job = d.job
  /\ e.call = d.call /\ e.runs = d.runs /\ e.garbled = d.garbled

\* A fragment ends a command, spoils it, asks for the response again or is gathered.
LEMMA DeliverEffect ==
  ASSUME NEW n \in Nat, NEW d \in Devices(n), NEW b \in Bodies(n), NEW c \in 0..n,
         b.pctr \in Chaining \cup {"crc"}, NEW e \in Deliver(d, b, c)
  PROVE  /\ e \in Devices(n)
         /\ e.rx = d.rx /\ e.tx = d.tx /\ e.out = d.out /\ e.sent = d.sent
         /\ Completed(d, e, b, c) \/ Spoiled(d, e, c) \/ Repeated(d, e, b) \/ Gathered(d, e, b)
<1> DEFINE Kept == e \in Devices(n) /\ e.rx = d.rx /\ e.tx = d.tx /\ e.out = d.out /\ e.sent = d.sent
<1>1. CASE e = ChainingError(d)
  <2>1. Kept /\ Spoiled(d, e, c)
    BY <1>1, ChainingErrorEffect DEF Spoiled
  <2> QED  BY <2>1
<1>2. CASE e = Complete(d, c, TRUE)
  <2>1. /\ Kept /\ e.job /\ e.call = c /\ e.resp = <<>> /\ e.all = <<>> /\ e.garbled
        /\ e.runs = d.runs
    BY <1>2, GarbledEffect
  <2>2. Spoiled(d, e, c)
    BY <2>1 DEF Spoiled
  <2> QED  BY <2>1, <2>2
<1>3. CASE e = Complete(d, c, FALSE) /\ Last(b)
  <2>1. Kept /\ Completed(d, e, b, c)
    BY <1>3, CompleteEffect DEF Completed
  <2> QED  BY <2>1
<1>4. CASE e = Answer(d, d.all) /\ b.pctr = "error"
  <2>1. d.all \in Seq(Bodies(n))
    BY DEF Devices
  <2>2. Kept /\ Repeated(d, e, b)
    BY <1>4, <2>1, AnswerEffect DEF Repeated
  <2> QED  BY <2>2
<1>5. CASE e = [d EXCEPT !.got = 1, !.resp = <<>>] /\ b.pctr = "first"
  <2>1. <<>> \in Seq(Bodies(n))
    OBVIOUS
  <2>2. Kept /\ e.resp = <<>>
    BY <1>5, <2>1 DEF Devices
  <2>3. /\ e.all = d.all /\ e.job = d.job /\ e.call = d.call /\ e.runs = d.runs
        /\ e.garbled = d.garbled
    BY <1>5 DEF Devices
  <2> QED  BY <1>5, <2>2, <2>3 DEF Gathered
<1>6. CASE e = d /\ b.pctr = "inter"
  BY <1>6 DEF Gathered
<1>7. b.pctr \in {"no", "first", "inter", "last", "error", "crc"}
  BY DEF Chaining
<1> QED  BY <1>1, <1>2, <1>3, <1>4, <1>5, <1>6, <1>7 DEF Deliver, Last

-----------------------------------------------------------------------------
(* What the device makes of a frame *)

\* What a device keeps besides the frames it has ready.
Known(d) ==
  /\ d.sent # NoFrame => /\ d.sent = Frame("data", "ack", d.tx, d.sent.ack, d.sent.body)
                         /\ d.sent.body.pctr \in Chaining
  /\ \A i \in 1..Len(d.resp) : d.resp[i].pctr \in Chaining
  /\ \A i \in 1..Len(d.all) : d.all[i].pctr \in Chaining

\* It is part of what is sound.
LEMMA SoundKnown == \A d : DeviceSound(d) => Known(d)
BY DEF DeviceSound, Known

\* It has no more than one frame ready.
LEMMA OutSound ==
  ASSUME NEW n \in Nat, NEW d \in Devices(n), Known(d), NEW e \in Devices(n), OnlyOut(d, e),
         e.out = <<>> \/ \E g \in Frames(n) : e.out = <<g>> /\ g.good /\ From(d, g)
  PROVE  DeviceSound(e)
<1>1. Known(e)
  BY DEF Known, OnlyOut
<1>2. \A g : From(d, g) => From(e, g)
  BY DEF From, OnlyOut
<1>3. \A i \in 1..Len(e.out) : e.out[i].good /\ From(e, e.out[i])
  BY <1>2
<1> QED  BY <1>1, <1>3 DEF Known, DeviceSound

\* The fragment offered is the one sent last.
LEMMA OfferSound ==
  ASSUME NEW n \in Nat, NEW d \in Devices(n), DeviceSound(d)
  PROVE  DeviceSound(Offer(d))
<1> DEFINE e == Offer(d)
           o == Frame("data", "ack", Succ(d.tx), d.rx, Head(d.resp))
<1>1. CASE d.resp = <<>> \/ d.sent # NoFrame
  BY <1>1 DEF Offer
<1>2. CASE ~(d.resp = <<>> \/ d.sent # NoFrame)
  <2>1. /\ e \in Devices(n) /\ e.rx = d.rx /\ e.all = d.all
        /\ e.tx = Succ(d.tx) /\ e.sent = o /\ e.resp = Tail(d.resp)
        /\ e.out = Append(d.out, o) /\ o \in Frames(n) /\ o # NoFrame
        /\ Head(d.resp) = d.resp[1] /\ d.resp[1] \in Bodies(n) /\ Len(d.resp) > 0
        /\ o.good /\ o.kind = "data" /\ o.seq = "ack" /\ o.fr = Succ(d.tx)
        /\ o.ack = d.rx /\ o.body = d.resp[1]
    BY <1>2, OfferEffect
  <2>2. d.resp \in Seq(Bodies(n)) /\ d.out \in Seq(Frames(n)) /\ d.resp # <<>>
    BY <1>2 DEF Devices
  <2>3. /\ \A i \in 1..Len(d.resp) : d.resp[i].pctr \in Chaining
        /\ \A i \in 1..Len(d.all) : d.all[i].pctr \in Chaining
        /\ \A i \in 1..Len(d.out) : d.out[i].good /\ From(d, d.out[i])
    BY DEF DeviceSound
  <2>4. o = Frame("data", "ack", e.tx, e.sent.ack, e.sent.body) /\ e.sent.body.pctr \in Chaining
    <3>1. o = Frame("data", "ack", e.tx, o.ack, o.body)
      BY <2>1
    <3>2. 1 \in 1..Len(d.resp)
      BY <2>1, <2>2
    <3> QED  BY <2>1, <2>3, <3>1, <3>2
  <2> HIDE DEF e, o
  <2>5. From(e, o)
    BY <2>1 DEF From
  <2>6. \A g : From(d, g) => From(e, g)
    BY <1>2, <2>1 DEF From
  <2>7. \A i \in 1..Len(e.out) : e.out[i].good /\ From(e, e.out[i])
    <3> SUFFICES ASSUME NEW i \in 1..Len(e.out)
                 PROVE  e.out[i].good /\ From(e, e.out[i])
      OBVIOUS
    <3>1. Len(e.out) = Len(d.out) + 1 /\ (i \in 1..Len(d.out) => e.out[i] = d.out[i])
          /\ e.out[Len(d.out) + 1] = o
      BY <2>1, <2>2
    <3>2. i \in 1..Len(d.out) \/ i = Len(d.out) + 1
      BY <2>2, <3>1
    <3> QED  BY <2>1, <2>3, <2>5, <2>6, <3>1, <3>2
  <2>8. \A i \in 1..Len(e.resp) : e.resp[i].pctr \in Chaining
    <3>1. Len(Tail(d.resp)) = Len(d.resp) - 1
          /\ \A i \in 1..Len(Tail(d.resp)) : Tail(d.resp)[i] = d.resp[i + 1]
      BY <2>2, HeadTailProperties
    <3>2. Len(d.resp) \in Nat
      BY <2>2
    <3>3. \A i \in 1..Len(Tail(d.resp)) : i + 1 \in 1..Len(d.resp)
      BY <3>1, <3>2
    <3> QED  BY <2>1, <2>3, <3>1, <3>3
  <2>9. DeviceSound(e)
    BY <2>1, <2>3, <2>4, <2>7, <2>8 DEF DeviceSound
  <2> QED  BY <2>9 DEF e
<1> QED  BY <1>1, <1>2

\* The device after the frame ...
Synced(d, e) ==
  /\ e.rx = 3 /\ e.tx = 3 /\ e.sent = NoFrame /\ ~e.job /\ e.resp = <<>> /\ ~e.garbled
  /\ e.all = d.all /\ e.call = d.call /\ e.runs = d.runs

\* The next fragment of the response is offered.
Offered(d, e) ==
  /\ e.rx = d.rx /\ e.job = d.job /\ e.all = d.all /\ e.call = d.call /\ e.runs = d.runs
  /\ e.garbled = d.garbled
  /\ IF d.resp = <<>> \/ d.sent # NoFrame THEN e.tx = d.tx /\ e.sent = d.sent /\ e.resp = d.resp
     ELSE /\ e.tx = Succ(d.tx) /\ e.sent # NoFrame /\ e.resp = Tail(d.resp)
          /\ Len(d.resp) > 0 /\ e.sent.body = d.resp[1] /\ d.resp[1] \in Bodies(app.call)

\* An acknowledgement is heeded.
Heeds(d, x, a) ==
  /\ x.rx = d.rx /\ x.tx = d.tx /\ x.job = d.job /\ x.resp = d.resp
  /\ x.all = d.all /\ x.call = d.call /\ x.runs = d.runs /\ x.garbled = d.garbled
  /\ x.sent = IF d.sent # NoFrame /\ a = d.sent.fr THEN NoFrame ELSE d.sent

\* A fragment of the command is taken, with the acknowledgement that came with it.
Takes(d, x, f, c) ==
  /\ f.fr = Succ(d.rx) /\ x.rx = f.fr /\ x.tx = d.tx
  /\ x.sent = IF d.sent # NoFrame /\ f.ack = d.sent.fr THEN NoFrame ELSE d.sent
  /\ Completed(d, x, f.body, c) \/ Spoiled(d, x, c) \/ Repeated(d, x, f.body) \/ Gathered(d, x, f.body)

\* What the device may make of a frame: nothing, a re-sync, an acknowledgement, a fragment.
Heard(d, e, f, c) ==
  \/ OnlyOut(d, e) /\ ~(f.good /\ f.seq = "resync")
  \/ f.good /\ f.seq = "resync" /\ Synced(d, e)
  \/ /\ f.good /\ f.kind = "ctrl" /\ f.seq = "ack"
     /\ \E x \in Devices(app.call) : Heeds(d, x, f.ack) /\ Offered(x, e)
  \/ /\ f.good /\ f.seq # "resync" /\ f.kind # "ctrl"
     /\ \E x \in Devices(app.call) :
           Takes(d, x, f, c) /\ IF x.job THEN OnlyOut(x, e) ELSE Offered(x, e)

\* That is how the device offers.
LEMMA OfferedIs ==
  ASSUME app.call \in Nat, NEW d \in Devices(app.call)
  PROVE  Offer(d) \in Devices(app.call) /\ Offered(d, Offer(d))
<1>1. CASE d.resp = <<>> \/ d.sent # NoFrame
  BY <1>1 DEF Offer, Offered
<1>2. CASE ~(d.resp = <<>> \/ d.sent # NoFrame)
  <2>1. LET e == Offer(d)
        IN  /\ e \in Devices(app.call)
            /\ e.rx = d.rx /\ e.job = d.job /\ e.all = d.all /\ e.call = d.call
            /\ e.runs = d.runs /\ e.garbled = d.garbled
            /\ e.tx = Succ(d.tx) /\ e.sent # NoFrame /\ e.resp = Tail(d.resp)
            /\ d.resp[1] \in Bodies(app.call) /\ Len(d.resp) > 0 /\ e.sent.body = d.resp[1]
    BY <1>2, OfferEffect
  <2> QED  BY <1>2, <2>1 DEF Offered
<1> QED  BY <1>1, <1>2

\* What is kept sounds right after an acknowledgement, and after a fragment.
LEMMA HeedsKnown ==
  ASSUME NEW d, NEW x, NEW a, Heeds(d, x, a), Known(d)
  PROVE  Known(x)
BY DEF Heeds, Known

\* ... and after a fragment of the command.
LEMMA TakesKnown ==
  ASSUME NEW d, NEW x, NEW f, NEW c, Takes(d, x, f, c), Known(d)
  PROVE  Known(x)
<1>1. \A i \in 1..Len(x.all) : x.all[i].pctr \in Chaining
  <2>1. CASE Completed(d, x, f.body, c)
    BY <2>1 DEF Completed
  <2>2. CASE Spoiled(d, x, c)
    BY <2>2 DEF Spoiled, Chaining
  <2>3. CASE Repeated(d, x, f.body)
    BY <2>3 DEF Repeated, Known
  <2>4. CASE Gathered(d, x, f.body)
    BY <2>4 DEF Gathered, Known
  <2> QED  BY <2>1, <2>2, <2>3, <2>4 DEF Takes
<1>2. x.resp \in {<<>>, d.resp, x.all} \/ x.resp = d.all
  BY DEF Takes, Completed, Spoiled, Repeated, Gathered
<1>3. \A i \in 1..Len(x.resp) : x.resp[i].pctr \in Chaining
  BY <1>1, <1>2 DEF Known
<1> QED  BY <1>1, <1>3 DEF Takes, Known

\* The device has no frame ready ...
LEMMA Silent ==
  ASSUME NEW n \in Nat, NEW d \in Devices(n)
  PROVE  LET e == [d EXCEPT !.out = <<>>]
         IN  e \in Devices(n) /\ OnlyOut(d, e) /\ e.out = <<>>
<1>1. <<>> \in Seq(Frames(n))
  OBVIOUS
<1> QED  BY <1>1 DEF Devices, OnlyOut

\* ... or this one.
LEMMA Tells ==
  ASSUME NEW n \in Nat, NEW d \in Devices(n), NEW g \in Frames(n)
  PROVE  LET e == [d EXCEPT !.out = <<g>>]
         IN  e \in Devices(n) /\ OnlyOut(d, e) /\ e.out = <<g>>
<1>1. <<g>> \in Seq(Frames(n))
  OBVIOUS
<1> QED  BY <1>1 DEF Devices, OnlyOut

\* An answer to the frame.
LEMMA TellsSound ==
  ASSUME NEW n \in Nat, NEW d \in Devices(n), Known(d),
         NEW e \in {[d EXCEPT !.out = <<Ctrl(d, "nack")>>], [d EXCEPT !.out = <<Ctrl(d, "ack")>>],
                    [d EXCEPT !.out = <<>>]}
                   \cup (IF d.sent = NoFrame THEN {}
                         ELSE {[d EXCEPT !.out = <<[d.sent EXCEPT !.ack = d.rx]>>]})
  PROVE  e \in Devices(n) /\ OnlyOut(d, e) /\ DeviceSound(e)
<1>1. CASE e = [d EXCEPT !.out = <<>>]
  BY <1>1, Silent, OutSound
<1>2. ASSUME NEW g \in Frames(n), g.good, From(d, g), e = [d EXCEPT !.out = <<g>>]
      PROVE  e \in Devices(n) /\ OnlyOut(d, e) /\ DeviceSound(e)
  <2>1. e \in Devices(n) /\ OnlyOut(d, e) /\ e.out = <<g>>
    BY <1>2, Tells
  <2> QED  BY <1>2, <2>1, OutSound
<1>3. \A s \in {"ack", "nack"} : Ctrl(d, s) \in Frames(n) /\ Ctrl(d, s).good /\ From(d, Ctrl(d, s))
  BY CtrlTyped DEF From
<1>4. ASSUME d.sent # NoFrame
      PROVE  LET g == [d.sent EXCEPT !.ack = d.rx]
             IN  g \in Frames(n) /\ g.good /\ From(d, g)
  <2>1. d.sent \in Frames(n) /\ d.rx \in Nr
    BY DEF Devices
  <2>2. LET g == [d.sent EXCEPT !.ack = d.rx]
        IN  /\ g \in Frames(n) /\ g.ack = d.rx /\ g.kind = d.sent.kind /\ g.seq = d.sent.seq
            /\ g.fr = d.sent.fr /\ g.body = d.sent.body /\ g.good = d.sent.good
    BY <2>1 DEF Frames
  <2>3. d.sent = Frame("data", "ack", d.tx, d.sent.ack, d.sent.body)
    BY <1>4 DEF Known
  <2>4. d.sent.kind = "data" /\ d.sent.seq = "ack" /\ d.sent.fr = d.tx /\ d.sent.good
    BY <2>3 DEF Frame
  <2> QED  BY <1>4, <2>2, <2>4 DEF From
<1> QED  BY <1>1, <1>2, <1>3, <1>4

\* The devices of the calls so far.
Device == Devices(app.call)

\* The device takes a frame, whatever it is ...
LEMMA TakesEffect ==
  ASSUME app.call \in Nat, NEW d \in Device, DeviceSound(d), NEW f \in Frames(app.call), f.good, f.seq # "resync",
         f.kind # "ctrl", f.fr = Succ(d.rx), f.body.pctr \in Chaining \cup {"crc"},
         NEW x \in Deliver([Acked(d, f.ack) EXCEPT !.rx = f.fr, !.out = <<>>], f.body, app.call),
         NEW e \in IF x.job THEN {[x EXCEPT !.out = <<Ctrl(x, "ack")>>], x}
                            ELSE {Offer([x EXCEPT !.out = <<Ctrl(x, "ack")>>])}
  PROVE  e \in Device /\ DeviceSound(e) /\ Heard(d, e, f, app.call)
<1> DEFINE n == app.call
           h == Acked(d, f.ack)
           y == [h EXCEPT !.rx = f.fr, !.out = <<>>]
           z == [x EXCEPT !.out = <<Ctrl(x, "ack")>>]
<1>1. /\ h \in Devices(n) /\ h.tx = d.tx /\ h.job = d.job /\ h.resp = d.resp
      /\ h.all = d.all /\ h.call = d.call /\ h.runs = d.runs /\ h.garbled = d.garbled
      /\ h.sent = IF d.sent # NoFrame /\ f.ack = d.sent.fr THEN NoFrame ELSE d.sent
  BY AckedEffect DEF Device
<1> HIDE DEF h
<1>2. /\ y \in Devices(n) /\ y.rx = f.fr /\ y.out = <<>> /\ y.tx = h.tx /\ y.job = h.job
      /\ y.resp = h.resp /\ y.all = h.all /\ y.call = h.call /\ y.runs = h.runs
      /\ y.garbled = h.garbled /\ y.sent = h.sent
  <2>1. f.fr \in Nr /\ <<>> \in Seq(Frames(n))
    BY DEF Frames
  <2> QED  BY <1>1, <2>1 DEF Devices
<1>3. x \in Deliver(y, f.body, n)
  BY DEF h
<1> HIDE DEF y
<1>4. f.body \in Bodies(n) /\ n \in 0..n
  BY DEF Frames
<1>5. /\ x \in Devices(n) /\ x.rx = y.rx /\ x.tx = y.tx /\ x.out = y.out /\ x.sent = y.sent
      /\ Completed(y, x, f.body, n) \/ Spoiled(y, x, n) \/ Repeated(y, x, f.body) \/ Gathered(y, x, f.body)
  BY <1>2, <1>3, <1>4, DeliverEffect
<1>6. Takes(d, x, f, n)
  <2>1. /\ Completed(y, x, f.body, n) => Completed(d, x, f.body, n)
        /\ Spoiled(y, x, n) => Spoiled(d, x, n)
        /\ Repeated(y, x, f.body) => Repeated(d, x, f.body)
        /\ Gathered(y, x, f.body) => Gathered(d, x, f.body)
    BY <1>1, <1>2 DEF Completed, Spoiled, Repeated, Gathered
  <2> QED  BY <1>1, <1>2, <1>5, <2>1 DEF Takes
<1>7. Known(x)
  BY <1>6, SoundKnown, TakesKnown
<1>8. z \in Devices(n) /\ OnlyOut(x, z) /\ DeviceSound(z)
  BY <1>5, <1>7, TellsSound
<1>9. CASE x.job /\ e = z
  BY <1>5, <1>6, <1>8, <1>9 DEF Heard, Device
<1>10. CASE x.job /\ e = x
  <2>1. OnlyOut(x, x)
    BY DEF OnlyOut
  <2>2. DeviceSound(x)
    BY <1>2, <1>5, <1>7, <2>1, OutSound
  <2> QED  BY <1>5, <1>6, <1>10, <2>1, <2>2 DEF Heard, Device
<1>11. CASE ~x.job /\ e = Offer(z)
  <2> HIDE DEF z
  <2>1. e \in Devices(n) /\ Offered(z, e) /\ DeviceSound(e)
    BY <1>8, <1>11, OfferedIs, OfferSound
  <2>2. Offered(x, e)
    BY <1>8, <2>1 DEF Offered, OnlyOut
  <2> QED  BY <1>5, <1>6, <1>11, <2>1, <2>2 DEF Heard, Device
<1> QED  BY <1>9, <1>10, <1>11

\* ... and an acknowledgement.
LEMMA HeedsEffect ==
  ASSUME app.call \in Nat, NEW d \in Device, DeviceSound(d), NEW f \in Frames(app.call), f.good,
         f.kind = "ctrl", f.seq = "ack"
  PROVE  LET e == Offer([Acked(d, f.ack) EXCEPT !.out = <<>>])
         IN  e \in Device /\ DeviceSound(e) /\ Heard(d, e, f, app.call)
<1> DEFINE n == app.call
           h == Acked(d, f.ack)
           x == [h EXCEPT !.out = <<>>]
           e == Offer(x)
<1>1. h \in Devices(n) /\ Heeds(d, h, f.ack)
  BY AckedEffect DEF Device, Heeds
<1>2. Known(h)
  BY <1>1, SoundKnown, HeedsKnown
<1> HIDE DEF h
<1>3. x \in Devices(n) /\ OnlyOut(h, x) /\ DeviceSound(x)
  BY <1>1, <1>2, TellsSound
<1> HIDE DEF x
<1>4. Heeds(d, x, f.ack)
  BY <1>1, <1>3 DEF Heeds, OnlyOut
<1>5. e \in Devices(n) /\ Offered(x, e) /\ DeviceSound(e)
  BY <1>3, OfferedIs, OfferSound
<1> HIDE DEF e
<1>6. e \in Device /\ DeviceSound(e) /\ Heard(d, e, f, app.call)
  BY <1>3, <1>4, <1>5 DEF Heard, Device
<1> QED  BY <1>6 DEF e, x, h

\* Every state of the device after a frame.
LEMMA ReceiveEffect ==
  ASSUME app.call \in Nat, NEW d \in Device, DeviceSound(d), NEW f \in Frames(app.call),
         f.good /\ f.seq # "resync" /\ f.kind # "ctrl" => f.body.pctr \in Chaining \cup {"crc"},
         NEW e \in Receive(d, f, app.call)
  PROVE  e \in Device /\ DeviceSound(e) /\ Heard(d, e, f, app.call)
<1>1. Known(d)
  BY SoundKnown
<1> DEFINE Replies == {[d EXCEPT !.out = <<Ctrl(d, "nack")>>], [d EXCEPT !.out = <<Ctrl(d, "ack")>>],
                       [d EXCEPT !.out = <<>>]}
                      \cup (IF d.sent = NoFrame THEN {}
                            ELSE {[d EXCEPT !.out = <<[d.sent EXCEPT !.ack = d.rx]>>]})
<1>2. CASE e \in Replies /\ ~(f.good /\ f.seq = "resync")
  <2>1. e \in Device /\ OnlyOut(d, e) /\ DeviceSound(e)
    BY <1>1, <1>2, TellsSound DEF Device
  <2> QED  BY <1>2, <2>1 DEF Heard
<1>3. CASE f.good /\ f.seq = "resync"
  <2>1. e = [d EXCEPT !.rx = 3, !.tx = 3, !.out = <<>>, !.sent = NoFrame, !.got = 0,
                      !.job = FALSE, !.resp = <<>>, !.garbled = FALSE]
    BY <1>3 DEF Receive
  <2>2. 3 \in Nr /\ <<>> \in Seq(Frames(app.call)) /\ <<>> \in Seq(Bodies(app.call))
        /\ NoFrame \in Frames(app.call)
    BY NoBodyTyped DEF Nr
  <2>3. e \in Device /\ Synced(d, e) /\ e.out = <<>>
    BY <2>1, <2>2 DEF Device, Devices, Synced
  <2>4. DeviceSound(e)
    BY <1>1, <2>3 DEF DeviceSound, Known, Synced
  <2> QED  BY <1>3, <2>3, <2>4 DEF Heard
<1>4. CASE f.good /\ f.kind = "ctrl" /\ f.seq = "ack" /\ e = Offer([Acked(d, f.ack) EXCEPT !.out = <<>>])
  BY <1>4, HeedsEffect
<1>5. CASE f.good /\ f.seq # "resync" /\ f.kind # "ctrl" /\ f.fr = Succ(d.rx)
  <2>1. PICK x \in Deliver([Acked(d, f.ack) EXCEPT !.rx = f.fr, !.out = <<>>], f.body, app.call) :
          e \in IF x.job THEN {[x EXCEPT !.out = <<Ctrl(x, "ack")>>], x}
                         ELSE {Offer([x EXCEPT !.out = <<Ctrl(x, "ack")>>])}
    BY <1>5 DEF Receive
  <2> QED  BY <1>5, <2>1, TakesEffect
<1>6. CASE ~f.good
  BY <1>2, <1>6 DEF Receive
<1>7. CASE f.good /\ f.seq = "nack" /\ f.kind = "ctrl"
  BY <1>2, <1>7 DEF Receive
<1>8. CASE f.good /\ f.seq = "ack" /\ f.kind = "ctrl"
  BY <1>4, <1>8 DEF Receive
<1>9. CASE f.good /\ f.seq # "resync" /\ f.kind # "ctrl" /\ f.fr # Succ(d.rx)
  BY <1>2, <1>9 DEF Receive
<1>10. f.seq \in {"ack", "nack", "resync"}
  BY DEF Frames
<1> QED  BY <1>3, <1>5, <1>6, <1>7, <1>8, <1>9, <1>10

-----------------------------------------------------------------------------
(* The frames on the bus *)

\* The device finishes its command with a response of the call it belongs to.
Ran(d, e) ==
  \E x \in Device :
     /\ x.rx = d.rx /\ x.tx = d.tx /\ x.sent = d.sent /\ ~x.job /\ x.call = d.call
     /\ x.runs = d.runs /\ x.garbled = d.garbled /\ x.all = x.resp /\ Len(x.resp) > 0
     /\ \A i \in 1..Len(x.resp) : x.resp[i].pctr \in Chaining /\ x.resp[i].call = d.call
                                  /\ (Last(x.resp[i]) <=> i = Len(x.resp))
     /\ Offered(x, e)

\* The place of a fragment in its chain.
LEMMA PctrIs ==
  ASSUME NEW m \in Nat, NEW i \in 1..m
  PROVE  /\ Pctr(i, m) \in {"no", "first", "inter", "last"}
         /\ Pctr(i, m) \in {"no", "last"} <=> i = m
         /\ Pctr(i, m) = "first" => i < m
BY DEF Pctr

\* That is what DevRun does.
LEMMA RunEffect ==
  ASSUME app.call \in Nat, dev \in Device, DeviceSound(dev), MaxRespFrags \in Nat, DevRun
  PROVE  dev.job /\ dev' \in Device /\ DeviceSound(dev') /\ Ran(dev, dev')
<1>1. PICK m \in 1..MaxRespFrags :
        LET r == [i \in 1..m |-> Body(Pctr(i, m), dev.call)]
        IN  dev' = Offer([Answer(dev, r) EXCEPT !.job = FALSE])
  BY DEF DevRun
<1> DEFINE r == [i \in 1..m |-> Body(Pctr(i, m), dev.call)]
           w == Answer(dev, r)
           x == [w EXCEPT !.job = FALSE]
<1>2. m \in Nat /\ m > 0
  OBVIOUS
<1>3. \A i \in 1..m : Body(Pctr(i, m), dev.call) \in Bodies(app.call)
                      /\ Body(Pctr(i, m), dev.call).pctr = Pctr(i, m)
                      /\ Body(Pctr(i, m), dev.call).call = dev.call
  BY PctrIs DEF Body, Bodies, Chaining, Device, Devices
<1>4. r \in Seq(Bodies(app.call)) /\ Len(r) = m
  BY <1>2, <1>3
<1>5. \A i \in 1..Len(r) : r[i].pctr \in Chaining /\ r[i].call = dev.call
                           /\ (Last(r[i]) <=> i = Len(r))
  BY <1>2, <1>3, <1>4, PctrIs DEF Chaining, Last
<1> HIDE DEF r
<1>6. /\ w \in Devices(app.call)
      /\ w.rx = dev.rx /\ w.tx = dev.tx /\ w.out = dev.out /\ w.sent = dev.sent
      /\ w.call = dev.call /\ w.runs = dev.runs /\ w.garbled = dev.garbled
      /\ w.resp = r /\ w.all = r
  BY <1>4, AnswerEffect DEF Device
<1> HIDE DEF w
<1>7. /\ x \in Devices(app.call) /\ ~x.job
      /\ x.rx = w.rx /\ x.tx = w.tx /\ x.out = w.out /\ x.sent = w.sent
      /\ x.call = w.call /\ x.runs = w.runs /\ x.garbled = w.garbled
      /\ x.resp = w.resp /\ x.all = w.all
  BY <1>6 DEF Devices
<1>8. dev' = Offer(x)
  BY <1>1 DEF r, w
<1> HIDE DEF x
<1>9. DeviceSound(x)
  <2>1. \A f : From(dev, f) => From(x, f)
    BY <1>6, <1>7 DEF From
  <2> QED  BY <1>5, <1>6, <1>7, <2>1 DEF DeviceSound
<1>10. dev' \in Devices(app.call) /\ DeviceSound(dev') /\ Offered(x, dev')
  BY <1>7, <1>8, <1>9, OfferedIs, OfferSound
<1>11. dev.job
  BY DEF DevRun
<1> QED  BY <1>2, <1>4, <1>5, <1>6, <1>7, <1>10, <1>11 DEF Ran, Device

\* A step of the physical layer moves no frame, writes one or reads one.
Untouched ==
  /\ dev' = dev /\ (unsynced => unsynced') /\ (lost => lost')
  /\ unsynced' \in {unsynced, TRUE}
  /\ unsynced' = unsynced \/ (pl.act = "write" /\ pl.out.seq = "resync")
  /\ pl'.in \in {pl.in, NoFrame} /\ (Holding' => Holding /\ pl'.in = pl.in)
  /\ Pending => Pending' \/ unsynced' \/ lost'
Written ==
  /\ todo = Pal /\ pl.frame = "rxtx" /\ pl.act = "write"
  /\ todo' = Nothing /\ timer' = "guard" /\ pl' = pl /\ lost' = lost
  /\ \/ dev' \in Receive(dev, pl.out, app.call) /\ unsynced' = unsynced
     \/ /\ dev' \in Receive(dev, [pl.out EXCEPT !.good = FALSE], app.call) \cup {dev}
        /\ unsynced' = (unsynced \/ pl.out.seq = "resync")
Fetched ==
  /\ todo = Pal /\ pl.frame = "rxtx" /\ pl.act = "read" /\ pl.cmd = "read" /\ dev.out # <<>>
  /\ todo' = Nothing /\ timer' = "guard" /\ UNCHANGED <<lost, unsynced>>
  /\ dev' = [dev EXCEPT !.out = Tail(@)]
  /\ \E g \in {Head(dev.out)} \cup Corrupt(Head(dev.out)) : pl' = [pl EXCEPT !.in = g]

\* It is the layer itself that is called next, or the data link layer with what was read.
Chained ==
  \/ todo' \in {Nothing, Pal, Pl}
  \/ /\ todo'.to = "dl" /\ todo'.event \in {"ok", "error", "fatal"} /\ todo'.frame \in {NoFrame, pl.in}
     /\ todo'.event = "ok" /\ pl.act = "read" /\ pl.frame # "init"
          => todo'.frame = pl.in /\ pl.frame = "rxtx" /\ todo = Pl
     /\ todo'.event = "error" => pl.act = "read" \/ pl.frame = "init"

\* The layers above are not called.
LayersWait ==
  /\ UNCHANGED <<dl, resyncs, tl, api, app>> /\ pl'.act = pl.act /\ pl'.out = pl.out
  /\ todo \in {Nothing, Pal, Pl} /\ (todo = Nothing => timer # "none")

\* The data register is only used for frames of a call.
LEMMA DataInCall ==
  ASSUME IInv, Typed, Registers, BeforeCalls, todo = Pal, pl.reg = "DATA"
  PROVE  pl.frame = "rxtx" /\ app.call > 0
<1>1. pl.frame \in {"init", "avail", "rxtx"}
  BY DEF Registers
<1>2. app.call # 0
  BY DEF BeforeCalls, Unused
<1>3. pl.frame = "init" => app.does = "opening"
  BY DEF IInv, FrameState
<1>4. pl.frame # "init"
  BY <1>2, <1>3 DEF BeforeCalls
<1>5. pl.frame # "avail"
  BY DEF Registers
<1> QED  BY <1>1, <1>2, <1>4, <1>5 DEF Typed

\* A transfer that went through.
LEMMA PalOkEffect ==
  ASSUME IInv, Typed, Registers, BeforeCalls, PalOk(app.call)
  PROVE  /\ pl'.act = pl.act /\ pl'.out = pl.out /\ pl'.frame = pl.frame
         /\ todo' = Nothing /\ timer' = "guard" /\ lost' = lost
         /\ Written \/ Fetched \/ Untouched
<1> USE PlFields DEF IInv
<1>1. todo = Pal /\ todo' = Nothing /\ timer' = "guard" /\ lost' = lost /\ Transfer(app.call)
  BY DEF PalOk
<1>2. CASE WritesFrame /\ pl' = pl /\ Transfer(app.call)
  <2>1. pl.frame = "rxtx" /\ pl.regact = "write" /\ pl.regact = pl.act
    BY <1>1, <1>2, DataInCall DEF WritesFrame, Registers
  <2>2. Written
    BY <1>1, <1>2, <2>1 DEF Written, Transfer, WritesFrame
  <2> QED  BY <1>1, <1>2, <2>2
<1>3. CASE /\ pl.cmd = "read" /\ pl.reg = "DATA"
           /\ \E g \in {Head(dev.out)} \cup Corrupt(Head(dev.out)) : pl' = [pl EXCEPT !.in = g]
           /\ dev' = [dev EXCEPT !.out = Tail(@)] /\ UNCHANGED unsynced
  <2>1. pl.frame = "rxtx"
    BY <1>1, <1>3, DataInCall
  <2>2. pl.act = "read" /\ dev.out # <<>>
    BY <1>1, <1>3, <2>1, TodoIs DEF Registers, Holding, UnderWay
  <2>3. Fetched
    BY <1>1, <1>3, <2>1, <2>2 DEF Fetched
  <2> QED  BY <1>1, <1>3, <2>3
<1>4. CASE /\ ~WritesFrame /\ ~(pl.cmd = "read" /\ pl.reg = "DATA")
           /\ dev' = dev /\ unsynced' = unsynced
           /\ pl' = pl \/ \E v : pl' = [pl EXCEPT !.val = v, !.in = NoFrame]
  <2>1. pl'.act = pl.act /\ pl'.out = pl.out /\ pl'.frame = pl.frame
    BY <1>4
  <2>2. ~(pl.frame = "rxtx" /\ pl.act = "write")
    BY <1>4 DEF WritesFrame, Registers
  <2>3. Pending => Pending'
    BY <1>1, <2>1, <2>2, TodoIs DEF Pending, Unwritten
  <2>4. pl'.in \in {pl.in, NoFrame} /\ ~Holding'
    <3>1. pl'.cmd = pl.cmd /\ pl'.in \in {pl.in, NoFrame}
      BY <1>4
    <3>2. ~(pl.frame = "rxtx" /\ pl.cmd = "read")
      BY <1>4 DEF Registers
    <3> QED  BY <2>1, <3>1, <3>2 DEF Holding
  <2> QED  BY <1>1, <1>4, <2>1, <2>3, <2>4 DEF Untouched
<1> QED
  <2>1. CASE WritesFrame
    BY <1>1, <1>2, <2>1 DEF Transfer, WritesFrame
  <2>2. CASE pl.cmd = "read" /\ pl.reg = "DATA"
    BY <1>1, <1>3, <2>2 DEF Transfer, WritesFrame
  <2>3. CASE ~WritesFrame /\ ~(pl.cmd = "read" /\ pl.reg = "DATA")
    BY <1>1, <1>4, <2>3 DEF Transfer
  <2> QED  BY <2>1, <2>2, <2>3

\* Every step of the physical layer is of these kinds.
LEMMA BusEffects ==
  ASSUME IInv, Typed, Registers, BeforeCalls, BusStep
  PROVE  LayersWait /\ Chained /\ (Written \/ Fetched \/ Untouched)
<1> USE PlFields, TodoIs DEF IInv
<1>a. UNCHANGED <<dl, resyncs, tl, api, app>>
  BY DEF BusStep, linkVars, Stays
<1>b. todo # Nothing => timer = "none"
  BY DEF UnderWay
<1>1. CASE PalOk(app.call)
  BY <1>1, <1>a, PalOkEffect DEF LayersWait, Chained, PalOk
<1>2. CASE PalError
  <2>1. /\ todo = Pal /\ todo' = Nothing /\ timer' = "poll" /\ pl' = [pl EXCEPT !.retry = @ - 1]
        /\ UNCHANGED <<dev, lost, unsynced>>
    BY <1>2 DEF PalError
  <2>2. Pending => Pending'
    BY <2>1 DEF Pending, Unwritten
  <2>3. ~Holding' /\ pl'.in = pl.in
    BY <2>1 DEF Holding
  <2> QED  BY <1>a, <2>1, <2>2, <2>3 DEF LayersWait, Chained, Untouched
<1>3. CASE PalFatal
  <2>1. /\ todo = Pal /\ pl' = [pl EXCEPT !.frame = "ready"] /\ UNCHANGED <<dev, lost>>
        /\ todo' = Dl("fatal", NoFrame)
        /\ unsynced' = (unsynced \/ (pl.act = "write" /\ pl.out.seq = "resync"))
    BY <1>3 DEF PalFatal
  <2>2. Pending => unsynced'
    BY <2>1 DEF Pending, Unwritten
  <2>3. /\ unsynced' \in {unsynced, TRUE} /\ (unsynced => unsynced')
        /\ unsynced' = unsynced \/ (pl.act = "write" /\ pl.out.seq = "resync")
    BY <2>1 DEF Typed
  <2>4. ~Holding' /\ pl'.in = pl.in
    BY <2>1 DEF Holding
  <2> QED  BY <1>a, <2>1, <2>2, <2>3, <2>4 DEF LayersWait, Chained, Untouched, Dl
<1>4. CASE PalRefused
  <2>1. /\ todo = Pal /\ todo' = Nothing /\ pl' = pl /\ timer' = timer /\ lost'
        /\ UNCHANGED <<dev, unsynced>>
    BY <1>4 DEF PalRefused, ChainEnds
  <2>2. ~Holding'
    BY <1>b, <2>1 DEF Holding
  <2> QED  BY <1>a, <2>1, <2>2 DEF LayersWait, Chained, Untouched
<1>5. CASE PollCallback
  <2>1. /\ todo = Nothing /\ timer = "poll" /\ todo' = Pal /\ UNCHANGED <<dev, lost, unsynced, pl>>
    BY <1>5 DEF PollCallback, Fire
  <2>2. Pending => Pending'
    BY <2>1 DEF Pending, Unwritten
  <2>3. ~Holding'
    BY <1>5, <2>1 DEF Holding, PollCallback
  <2> QED  BY <1>a, <2>1, <2>2, <2>3 DEF LayersWait, Chained, Untouched
<1>6. CASE GuardCallback
  <2>1. /\ todo = Nothing /\ timer = "guard" /\ todo' \in {Pal, Pl} /\ UNCHANGED <<dev, lost, unsynced>>
        /\ pl' = pl \/ pl' = [pl EXCEPT !.cmd = "read"]
    BY <1>6 DEF GuardCallback, Fire
  <2>2. pl'.act = pl.act /\ pl'.out = pl.out /\ pl'.frame = pl.frame
    BY <2>1
  <2>3. Pending => Pending'
    BY <2>1, <2>2 DEF Pending, Unwritten
  <2>4. Holding' => Holding
    <3>1. CASE pl.regact = "read" /\ pl.cmd = "write"
      BY <1>6, <2>1, <3>1 DEF GuardCallback, Holding
    <3>2. CASE ~(pl.regact = "read" /\ pl.cmd = "write")
      BY <1>6, <2>1, <3>2 DEF GuardCallback, Holding
    <3> QED  BY <3>1, <3>2
  <2>5. pl'.in = pl.in
    BY <2>1
  <2> QED  BY <1>a, <2>1, <2>2, <2>3, <2>4, <2>5 DEF LayersWait, Chained, Untouched
<1>7. CASE StatusPollCallback
  <2>1. /\ todo = Nothing /\ timer = "status" /\ todo' = Pal /\ UNCHANGED <<dev, lost, unsynced>>
        /\ pl'.act = pl.act /\ pl'.out = pl.out /\ pl'.frame = pl.frame
    BY <1>7 DEF StatusPollCallback, Fire, ReadRegister
  <2>2. Pending => Pending'
    BY <2>1 DEF Pending, Unwritten
  <2>3. ~Holding' /\ pl'.in = pl.in
    BY <1>7 DEF StatusPollCallback, Fire, ReadRegister, Holding
  <2> QED  BY <1>a, <2>1, <2>2, <2>3 DEF LayersWait, Chained, Untouched
<1>8. CASE PlReady \/ PlWriteFrame \/ PlReadFrame
  <2>1. /\ todo = Pl /\ todo' = Pal /\ UNCHANGED <<dev, lost, unsynced>>
        /\ pl'.act = pl.act /\ pl'.out = pl.out
    BY <1>8 DEF PlReady, PlWriteFrame, PlReadFrame, InPl, ReadRegister, WriteRegister, PlKeeps
  <2>2. pl.act = "write" => pl'.frame \in {"avail", "rxtx"}
    BY <1>8 DEF PlReady, PlWriteFrame, PlReadFrame, InPl, ReadRegister, WriteRegister
  <2>3. Pending => Pending'
    BY <2>1, <2>2 DEF Pending, Unwritten
  <2>4. ~Holding' /\ pl'.in = pl.in
    <3>1. pl'.frame = "avail" \/ pl'.cmd = "write"
      BY <1>8 DEF PlReady, PlWriteFrame, PlReadFrame, ReadRegister, WriteRegister
    <3>2. timer' = "none" /\ pl'.in = pl.in
      BY <1>8, <1>b DEF PlReady, PlWriteFrame, PlReadFrame, InPl, ReadRegister, WriteRegister
    <3> QED  BY <3>1, <3>2 DEF Holding
  <2> QED  BY <1>a, <2>1, <2>3, <2>4 DEF LayersWait, Chained, Untouched
<1>9. CASE PlNotReady(dl.rxonly)
  <2>1. /\ todo = Pl /\ pl.act = "read" /\ pl.frame = "avail" /\ UNCHANGED <<dev, lost, unsynced>>
        /\ pl'.act = pl.act /\ pl'.out = pl.out
        /\ todo' = Nothing \/ todo' = Dl("error", NoFrame)
    BY <1>9 DEF PlNotReady, InPl, PlKeeps, ChainEnds
  <2>2. ~Holding' /\ pl'.in = pl.in
    <3>1. pl'.frame # "rxtx" /\ pl'.in = pl.in
      BY <1>9, <2>1 DEF PlNotReady
    <3> QED  BY <3>1 DEF Holding
  <2>3. ~Pending
    BY <2>1 DEF Pending, Unwritten
  <2> QED  BY <1>a, <2>1, <2>2, <2>3 DEF LayersWait, Chained, Untouched, Dl
<1>10. CASE PlDone
  <2>1. /\ todo = Pl /\ pl.frame = "rxtx" /\ UNCHANGED <<dev, lost, unsynced>>
        /\ pl'.act = pl.act /\ pl'.out = pl.out
        /\ todo' = Dl("ok", IF pl.act = "read" THEN pl.in ELSE NoFrame)
    BY <1>10 DEF PlDone, InPl, PlKeeps
  <2>2. ~Pending
    BY <1>b, <2>1, Zenon DEF Pending, Unwritten, UnderWay
  <2>3. ~Holding' /\ pl'.in = pl.in
    <3>1. pl'.frame = "ready" /\ pl'.in = pl.in
      BY <1>10 DEF PlDone
    <3> QED  BY <3>1 DEF Holding
  <2> QED  BY <1>a, <2>1, <2>2, <2>3 DEF LayersWait, Chained, Untouched, Dl
<1>11. ASSUME todo = Pl, pl.frame = "init", UNCHANGED <<dev, lost, unsynced>>,
              pl'.act = pl.act, pl'.out = pl.out, pl'.in = pl.in, pl'.frame # "rxtx",
              \/ todo' \in {Pal, Pl}
              \/ \E e \in {"ok", "error"} : todo' = Dl(e, NoFrame)
       PROVE  LayersWait /\ Chained /\ Untouched
  <2>1. ~Pending
    BY <1>11 DEF Pending, Unwritten
  <2>2. ~Holding'
    BY <1>11 DEF Holding
  <2> QED  BY <1>a, <1>11, <2>1, <2>2 DEF LayersWait, Chained, Untouched, Dl
<1>12. CASE NegoDefault \/ NegoSet \/ NegoRead \/ NegoGetLen
  <2>1. /\ todo = Pl /\ pl.frame = "init" /\ UNCHANGED <<dev, lost, unsynced>> /\ todo' \in {Pal, Pl}
    BY <1>12 DEF NegoDefault, NegoSet, NegoRead, NegoGetLen, Nego, InPl, PlKeeps
  <2>2. pl'.act = pl.act /\ pl'.out = pl.out /\ pl'.in = pl.in /\ pl'.frame # "rxtx"
    BY <1>12, <2>1 DEF NegoDefault, NegoSet, NegoRead, NegoGetLen, ReadRegister, WriteRegister
  <2> QED  BY <1>11, <2>1, <2>2
<1>13. CASE NegoVerify \/ NegoVerifyLen
  <2>1. /\ todo = Pl /\ pl.frame = "init" /\ UNCHANGED <<dev, lost, unsynced>>
    BY <1>13 DEF NegoVerify, NegoVerifyLen, Nego, InPl, PlKeeps
  <2>2. ASSUME NEW ok, NegoEnds(pl, ok)
        PROVE  /\ pl'.act = pl.act /\ pl'.out = pl.out /\ pl'.in = pl.in /\ pl'.frame # "rxtx"
               /\ \E e \in {"ok", "error"} : todo' = Dl(e, NoFrame)
    BY <2>2 DEF NegoEnds
  <2>3. CASE todo' = Pal /\ pl' = [WriteRegister(pl, "LEN") EXCEPT !.nego = "getlen"]
    <3>1. pl'.act = pl.act /\ pl'.out = pl.out /\ pl'.in = pl.in /\ pl'.frame # "rxtx"
      BY <2>1, <2>3 DEF WriteRegister
    <3> QED  BY <1>11, <2>1, <2>3, <3>1
  <2>4. CASE \E ok : NegoEnds(pl, ok)
    BY <1>11, <2>1, <2>2, <2>4
  <2> QED  BY <1>13, <2>3, <2>4 DEF NegoVerify, NegoVerifyLen
<1> QED
  BY <1>1, <1>2, <1>3, <1>4, <1>5, <1>6, <1>7, <1>8, <1>9, <1>10, <1>11, <1>12, <1>13 DEF BusStep

\* The registers are used in their order.
LEMMA RegistersKeep ==
  ASSUME IInv, IInv', Typed, Registers, BeforeCalls, BusStep
  PROVE  Registers'
<1> USE PlFields, TodoIs DEF IInv
<1>a. (todo # Nothing => timer = "none") /\ (todo' # Nothing => timer' = "none")
  BY DEF UnderWay
<1>b. todo = Nothing \/ todo = Pal => todo # Pl
  OBVIOUS
<1>c. ASSUME NEW w, w.to = "dl"
      PROVE  w # Pal /\ w # Pl /\ w # Nothing
  BY <1>c DEF Nothing, Pal, Pl
<1>1. CASE PalOk(app.call)
  <2>1. /\ todo = Pal /\ todo' = Nothing /\ timer' = "guard"
        /\ pl'.act = pl.act /\ pl'.frame = pl.frame /\ pl'.cmd = pl.cmd /\ pl'.regact = pl.regact
        /\ pl'.reg = pl.reg
    BY <1>1 DEF PalOk, Transfer
  <2>2. pl.frame \in {"init", "avail", "rxtx"}
    BY <2>1 DEF Registers
  <2>3. CASE pl.frame = "avail"
    <3>1. pl.reg = "STATE" /\ pl.regact = "read"
      BY <2>3 DEF Registers
    <3>2. pl.cmd = "read" => dev'.out = dev.out /\ pl'.val = (dev.out # <<>>)
      BY <1>1, <3>1 DEF PalOk, Transfer, WritesFrame
    <3> QED  BY <2>1, <2>3, <3>1, <3>2 DEF Registers
  <2>4. CASE pl.frame = "init"
    BY <2>1, <2>4 DEF Registers
  <2>5. CASE pl.frame = "rxtx"
    <3>1. ~Holding /\ timer = "none"
      BY <1>a, <2>1 DEF Holding
    <3>2. /\ pl.reg = "DATA" /\ pl.regact = pl.act
          /\ pl.act = "write" => pl.cmd = "write"
          /\ pl.act = "read" => dev.out # <<>>
      BY <2>5, <3>1 DEF Registers
    <3>3. pl.act = "read" /\ pl.cmd = "write" => dev' = dev
      BY <1>1, <3>2 DEF PalOk, Transfer, WritesFrame
    <3>4. pl.cmd \in {"read", "write"} /\ pl.act \in {"read", "write"}
      BY DEF Registers
    <3> QED  BY <2>1, <2>5, <3>2, <3>3, <3>4 DEF Registers, Holding
  <2> QED  BY <2>2, <2>3, <2>4, <2>5
<1>2. CASE PalError
  <2>1. /\ todo = Pal /\ todo' = Nothing /\ timer' = "poll" /\ dev' = dev
        /\ pl'.act = pl.act /\ pl'.frame = pl.frame /\ pl'.cmd = pl.cmd /\ pl'.regact = pl.regact
        /\ pl'.reg = pl.reg /\ pl'.val = pl.val
    BY <1>2 DEF PalError
  <2>2. ~Holding
    BY <1>a, <2>1 DEF Holding
  <2> QED  BY <2>1, <2>2 DEF Registers
<1>3. CASE PalFatal
  <2>1. /\ todo'.to = "dl" /\ timer' = "none" /\ todo = Pal
        /\ pl'.act = pl.act /\ pl'.frame = "ready" /\ pl'.cmd = pl.cmd /\ pl'.regact = pl.regact
    BY <1>a, <1>3 DEF PalFatal, Dl
  <2> QED  BY <1>c, <2>1 DEF Registers
<1>4. CASE PalRefused
  <2>1. /\ todo' = Nothing /\ timer' = "none" /\ todo = Pal /\ pl' = pl /\ dev' = dev
    BY <1>a, <1>4 DEF PalRefused, ChainEnds
  <2>2. ~Holding
    BY <1>a, <2>1 DEF Holding
  <2> QED  BY <2>1, <2>2 DEF Registers
<1>5. CASE PollCallback
  <2>1. /\ todo' = Pal /\ timer' = "none" /\ timer = "poll" /\ todo = Nothing /\ pl' = pl /\ dev' = dev
    BY <1>5 DEF PollCallback, Fire
  <2>2. ~Holding
    BY <1>a, <2>1 DEF Holding
  <2> QED  BY <2>1, <2>2 DEF Registers, Holding
<1>6. CASE GuardCallback
  <2>1. timer' = "none" /\ timer = "guard" /\ todo = Nothing /\ dev' = dev
    BY <1>6 DEF GuardCallback, Fire
  <2>2. CASE pl.regact = "read" /\ pl.cmd = "write"
    <3>1. /\ todo' = Pal /\ pl'.cmd = "read"
          /\ pl'.act = pl.act /\ pl'.frame = pl.frame /\ pl'.regact = pl.regact
          /\ pl'.reg = pl.reg /\ pl'.val = pl.val
      BY <1>6, <2>2 DEF GuardCallback
    <3>2. ~Holding
      BY <2>2 DEF Holding
    <3> QED  BY <2>1, <2>2, <3>1, <3>2 DEF Registers
  <2>3. CASE ~(pl.regact = "read" /\ pl.cmd = "write")
    <3>1. todo' = Pl /\ pl' = pl
      BY <1>6, <2>3 DEF GuardCallback
    <3> QED  BY <2>1, <2>3, <3>1 DEF Registers, Holding
  <2> QED  BY <2>2, <2>3
<1>7. CASE StatusPollCallback
  <2>1. /\ todo' = Pal /\ timer' = "none" /\ timer = "status"
        /\ pl'.act = pl.act /\ pl'.frame = pl.frame /\ pl'.cmd = "write" /\ pl'.regact = "read"
        /\ pl'.reg = "STATE"
    BY <1>7 DEF StatusPollCallback, Fire, ReadRegister
  <2> QED  BY <2>1 DEF Registers
<1>8. CASE PlReady
  <2>1. /\ todo' = Pal /\ timer' = "none" /\ todo = Pl
        /\ pl'.act = pl.act /\ pl'.frame = "avail" /\ pl'.cmd = "write" /\ pl'.regact = "read"
        /\ pl'.reg = "STATE"
    BY <1>a, <1>8 DEF PlReady, InPl, ReadRegister
  <2> QED  BY <2>1 DEF Registers
<1>9. CASE PlWriteFrame
  <2>1. /\ todo' = Pal /\ timer' = "none" /\ todo = Pl /\ pl.act = "write"
        /\ pl'.act = pl.act /\ pl'.frame = "rxtx" /\ pl'.cmd = "write" /\ pl'.regact = "write"
        /\ pl'.reg = "DATA"
    BY <1>a, <1>9 DEF PlWriteFrame, InPl, WriteRegister
  <2> QED  BY <2>1 DEF Registers
<1>10. CASE PlReadFrame
  <2>1. /\ todo' = Pal /\ timer' = "none" /\ todo = Pl /\ pl.act = "read" /\ pl.frame = "avail" /\ pl.val
        /\ pl'.act = pl.act /\ pl'.frame = "rxtx" /\ pl'.cmd = "write" /\ pl'.regact = "read"
        /\ pl'.reg = "DATA" /\ dev' = dev
    BY <1>a, <1>10 DEF PlReadFrame, InPl, ReadRegister, PlKeeps
  <2>2. dev.out # <<>>
    BY <2>1 DEF Registers
  <2> QED  BY <2>1, <2>2 DEF Registers
<1>11. CASE PlNotReady(dl.rxonly)
  <2>1. /\ todo = Pl /\ pl.act = "read" /\ pl.frame = "avail" /\ ~pl.val /\ dev' = dev
        /\ pl'.act = pl.act /\ pl'.cmd = pl.cmd /\ pl'.regact = pl.regact /\ pl'.reg = pl.reg
        /\ pl'.val = pl.val
    BY <1>11 DEF PlNotReady, InPl, PlKeeps
  <2>2. \/ todo' = Nothing /\ timer' = "status" /\ pl'.frame = pl.frame
        \/ todo'.to = "dl" /\ timer' = "none" /\ pl'.frame = "ready"
    BY <1>a, <1>11 DEF PlNotReady, InPl, ChainEnds, Dl
  <2> QED  BY <1>c, <2>1, <2>2 DEF Registers
<1>12. CASE PlDone
  <2>1. /\ todo'.to = "dl" /\ timer' = "none" /\ todo = Pl
        /\ pl'.act = pl.act /\ pl'.frame = "ready" /\ pl'.cmd = pl.cmd /\ pl'.regact = pl.regact
    BY <1>a, <1>12 DEF PlDone, InPl, Dl
  <2> QED  BY <1>c, <2>1 DEF Registers
<1>13. ASSUME todo = Pl, pl.frame = "init", timer' = "none",
              pl'.act = pl.act, pl'.cmd \in {"read", "write"}, pl'.regact \in {"read", "write"},
              \/ todo' \in {Pal, Pl} /\ pl'.frame = "init"
              \/ todo'.to = "dl" /\ pl'.frame \in {"ready", "uninit"}
       PROVE  Registers'
  BY <1>c, <1>13 DEF Registers
<1>14. CASE NegoDefault \/ NegoSet \/ NegoRead \/ NegoGetLen
  <2>1. /\ todo = Pl /\ pl.frame = "init" /\ timer' = timer /\ todo' \in {Pal, Pl}
    BY <1>14 DEF NegoDefault, NegoSet, NegoRead, NegoGetLen, Nego, InPl
  <2>2. /\ pl'.act = pl.act /\ pl'.cmd \in {"read", "write"} /\ pl'.regact \in {"read", "write"}
        /\ pl'.frame = "init"
    BY <1>14, <2>1 DEF NegoDefault, NegoSet, NegoRead, NegoGetLen, ReadRegister, WriteRegister, Registers
  <2> QED  BY <1>a, <1>13, <2>1, <2>2
<1>15. CASE NegoVerify \/ NegoVerifyLen
  <2>1. /\ todo = Pl /\ pl.frame = "init" /\ timer' = timer
    BY <1>15 DEF NegoVerify, NegoVerifyLen, Nego, InPl
  <2>2. ASSUME NEW ok, NegoEnds(pl, ok)
        PROVE  /\ pl'.act = pl.act /\ pl'.cmd = pl.cmd /\ pl'.regact = pl.regact
               /\ todo'.to = "dl" /\ pl'.frame \in {"ready", "uninit"}
    BY <2>2 DEF NegoEnds, Dl
  <2>3. CASE todo' = Pal /\ pl' = [WriteRegister(pl, "LEN") EXCEPT !.nego = "getlen"]
    <3>1. /\ pl'.act = pl.act /\ pl'.cmd = "write" /\ pl'.regact = "write" /\ pl'.frame = "init"
      BY <2>1, <2>3 DEF WriteRegister
    <3> QED  BY <1>a, <1>13, <2>1, <2>3, <3>1
  <2>4. CASE \E ok : NegoEnds(pl, ok)
    <3>1. pl.cmd \in {"read", "write"} /\ pl.regact \in {"read", "write"}
      BY DEF Registers
    <3> QED  BY <1>a, <1>13, <2>1, <2>2, <2>4, <3>1
  <2> QED  BY <1>15, <2>3, <2>4 DEF NegoVerify, NegoVerifyLen
<1> QED
  BY <1>1, <1>2, <1>3, <1>4, <1>5, <1>6, <1>7, <1>8, <1>9, <1>10, <1>11, <1>12, <1>14, <1>15 DEF BusStep

\* The layers above are not called during the steps of the physical layer.
LEMMA LostEndsBus ==
  ASSUME IInv, IInv', LostEnds, BusStep
  PROVE  LostEnds'
<1> USE TodoIs DEF IInv
<1>1. CASE PalRefused
  <2>1. todo = Pal /\ todo' = Nothing /\ timer' = timer /\ UNCHANGED app
    BY <1>1 DEF PalRefused, ChainEnds, BusStep, Stays
  <2>2. timer = "none" /\ ~Flagged
    BY <2>1 DEF UnderWay
  <2>3. app.does \in {"opening", "waiting"}
    BY <2>1, <2>2 DEF UnderWay
  <2> QED  BY <2>1, <2>2, <2>3 DEF LostEnds, Flagged
<1>2. CASE ~PalRefused
  <2>1. lost' = lost /\ ~(todo = Nothing /\ timer = "none")
    BY <1>2, Nothing # Pl DEF BusStep, PalOk, PalError, PalFatal, PollCallback, GuardCallback,
       StatusPollCallback, Fire, PlReady, PlWriteFrame, PlReadFrame, PlNotReady, PlDone, NegoDefault,
       NegoSet, NegoRead, NegoVerify, NegoGetLen, NegoVerifyLen, Nego, InPl, PlKeeps
  <2> QED  BY <2>1 DEF LostEnds
<1> QED  BY <1>1, <1>2

\* A damaged frame is still a frame, and its checksum tells.
LEMMA CorruptTyped ==
  ASSUME NEW n \in Nat, NEW f \in Frames(n), NEW g \in Corrupt(f)
  PROVE  g \in Frames(n) /\ ~g.good
<1>1. CASE \E k \in {"short", "data", "ctrl"} : g = [f EXCEPT !.good = FALSE, !.kind = k]
  BY <1>1 DEF Frames
<1>2. CASE g = [f EXCEPT !.good = FALSE, !.kind = "ctrl", !.seq = "resync"]
  BY <1>2 DEF Frames
<1> QED  BY <1>1, <1>2 DEF Corrupt

\* The frame on the wire is one the stack has built.
LEMMA WrittenFrame ==
  ASSUME IInv, Typed, Registers, BeforeCalls, OutKnown, TxKnown, Written
  PROVE  /\ app.call \in Nat /\ app.call > 0 /\ OutIs /\ TxIs /\ pl.out \in Frames(app.call) /\ pl.out.good
         /\ pl.out.kind # "ctrl" => /\ pl.out.seq = "ack" /\ pl.out.fr = dl.tx /\ pl.out.ack = dl.rx
                                    /\ pl.out.body = dl.txbuf /\ ~dl.resynced
         /\ pl.out.body.pctr \in Chaining \cup {"crc", "none"}
         /\ pl.out.kind # "ctrl" => pl.out.body.pctr \in Chaining \cup {"crc"}
<1>1. app.call # 0
  BY DEF Written, BeforeCalls, Unused
<1>2. app.call > 0 /\ app.call \in Nat /\ pl.out \in Frames(app.call)
  BY <1>1 DEF Typed
<1>3. OutIs /\ TxIs
  BY <1>2 DEF Written, OutKnown, TxKnown
<1>4. /\ pl.out.good
      /\ pl.out.kind # "ctrl" => /\ pl.out.seq = "ack" /\ pl.out.fr = dl.tx /\ pl.out.ack = dl.rx
                                 /\ pl.out.body = dl.txbuf /\ ~dl.resynced
  BY <1>3 DEF OutIs, Frame
<1>5. dl.txbuf.pctr \in Chaining \cup {"crc"}
  <2>1. CASE dl.txbuf = Body(Pctr(tl.offset, app.frags), app.call) /\ tl.offset > 0
    <3>1. tl.offset \in 1..app.frags /\ app.frags \in Nat
      BY <2>1 DEF Typed
    <3>2. Pctr(tl.offset, app.frags) \in Chaining
      BY <3>1, PctrIs DEF Chaining
    <3> QED  BY <2>1, <3>2 DEF Body
  <2> QED  BY <1>3, <2>1 DEF TxIs, CrcBody, Body, Chaining
<1> QED  BY <1>2, <1>3, <1>4, <1>5 DEF Frames, Bodies

\* Writing to the device.
LEMMA WrittenEffect ==
  ASSUME IInv, Typed, Registers, BeforeCalls, OutKnown, TxKnown, Received, Written
  PROVE  /\ dev' \in Device /\ DeviceSound(dev')
         /\ \/ Heard(dev, dev', pl.out, app.call) /\ unsynced' = unsynced
            \/ OnlyOut(dev, dev') /\ unsynced' = (unsynced \/ pl.out.seq = "resync")
<1>1. /\ app.call \in Nat /\ dev \in Device /\ DeviceSound(dev) /\ pl.out \in Frames(app.call)
  BY DEF Typed, Received, Device
<1>2. CASE dev' \in Receive(dev, pl.out, app.call) /\ unsynced' = unsynced
  BY <1>1, <1>2, WrittenFrame, ReceiveEffect
<1>3. CASE /\ dev' \in Receive(dev, [pl.out EXCEPT !.good = FALSE], app.call)
           /\ unsynced' = (unsynced \/ pl.out.seq = "resync")
  <2> DEFINE f == [pl.out EXCEPT !.good = FALSE]
  <2>1. f \in Frames(app.call) /\ ~f.good
    BY <1>1 DEF Frames
  <2> HIDE DEF f
  <2>2. dev' \in Receive(dev, f, app.call)
    BY <1>3 DEF f
  <2>3. dev' \in Device /\ DeviceSound(dev') /\ Heard(dev, dev', f, app.call)
    BY <1>1, <2>1, <2>2, ReceiveEffect
  <2> QED  BY <1>3, <2>1, <2>3 DEF Heard
<1>4. CASE dev' = dev /\ unsynced' = (unsynced \/ pl.out.seq = "resync")
  BY <1>1, <1>4 DEF OnlyOut
<1> QED  BY <1>2, <1>3, <1>4 DEF Written

\* Reading from the device.
LEMMA FetchedEffect ==
  ASSUME IInv, Typed, Received, Fetched
  PROVE  /\ dev' \in Device /\ DeviceSound(dev') /\ OnlyOut(dev, dev')
         /\ pl'.in \in Frames(app.call) /\ From(dev', pl'.in)
<1>1. /\ app.call \in Nat /\ dev \in Device /\ DeviceSound(dev) /\ dev.out \in Seq(Frames(app.call))
      /\ dev.out # <<>>
  BY DEF Typed, Received, Device, Devices, Fetched
<1>2. /\ Tail(dev.out) \in Seq(Frames(app.call)) /\ Head(dev.out) = dev.out[1]
      /\ dev.out[1] \in Frames(app.call) /\ Len(Tail(dev.out)) = Len(dev.out) - 1
      /\ \A i \in 1..Len(Tail(dev.out)) : Tail(dev.out)[i] = dev.out[i + 1]
      /\ Len(dev.out) \in Nat /\ 1 \in 1..Len(dev.out)
  <2>1. Len(dev.out) \in Nat /\ Len(dev.out) > 0 /\ Head(dev.out) = dev.out[1]
    BY <1>1
  <2>2. dev.out[1] \in Frames(app.call)
    BY <1>1, <2>1
  <2>3. /\ Tail(dev.out) \in Seq(Frames(app.call)) /\ Len(Tail(dev.out)) = Len(dev.out) - 1
        /\ \A i \in 1..Len(Tail(dev.out)) : Tail(dev.out)[i] = dev.out[i + 1]
    BY <1>1, HeadTailProperties
  <2> QED  BY <2>1, <2>2, <2>3
<1>3. dev' \in Device /\ OnlyOut(dev, dev') /\ dev'.out = Tail(dev.out)
  BY <1>1, <1>2 DEF Fetched, Device, Devices, OnlyOut
<1>4. \A f : From(dev, f) => From(dev', f)
  BY <1>3 DEF OnlyOut, From
<1>5. \A i \in 1..Len(dev'.out) : dev'.out[i].good /\ From(dev', dev'.out[i])
  <2>1. \A i \in 1..Len(Tail(dev.out)) : i + 1 \in 1..Len(dev.out)
    BY <1>2
  <2> QED  BY <1>1, <1>2, <1>3, <1>4, <2>1 DEF DeviceSound
<1>6. Known(dev')
  BY <1>1, <1>3, SoundKnown DEF Known, OnlyOut
<1>7. PICK g \in {Head(dev.out)} \cup Corrupt(Head(dev.out)) : pl' = [pl EXCEPT !.in = g]
  BY DEF Fetched
<1>8. g \in Frames(app.call) /\ From(dev', g)
  <2>1. CASE g = Head(dev.out)
    BY <1>1, <1>2, <1>4, <2>1 DEF DeviceSound
  <2>2. CASE g \in Corrupt(Head(dev.out))
    BY <1>1, <1>2, <2>2, CorruptTyped DEF From
  <2> QED  BY <2>1, <2>2
<1>9. pl'.in = g
  <2>1. "in" \in DOMAIN pl
    BY PlFields DEF IInv
  <2> QED  BY <1>7, <2>1
<1> QED  BY <1>3, <1>5, <1>6, <1>8, <1>9 DEF Known, DeviceSound

\* Structure, part by part, during the steps of the physical layer: the types ...
LEMMA TypedBus ==
  ASSUME IInv, Structure, BusStep
  PROVE  Typed'
<1> USE DEF Structure
<1>1. LayersWait /\ Chained /\ (Written \/ Fetched \/ Untouched)
  BY BusEffects
<1>2. dev' \in Devices(app.call) /\ unsynced' \in BOOLEAN /\ pl'.in \in Frames(app.call)
  <2>1. CASE Written
    <3>1. dev' \in Devices(app.call) /\ (unsynced' = unsynced \/ unsynced' = (unsynced \/ pl.out.seq = "resync"))
      BY <2>1, WrittenEffect DEF Device
    <3> QED  BY <2>1, <3>1 DEF Written, Typed
  <2>2. CASE Fetched
    BY <2>2, FetchedEffect DEF Fetched, Typed, Device
  <2>3. CASE Untouched
    BY <2>3, NoBodyTyped DEF Untouched, Typed
  <2> QED  BY <1>1, <2>1, <2>2, <2>3
<1>3. todo'.to = "dl" => todo'.frame \in Frames(app.call)
  <2>1. NoFrame \in Frames(app.call) /\ pl.in \in Frames(app.call)
    BY NoBodyTyped DEF Typed
  <2> QED  BY <1>1, <2>1, TodoIs DEF Chained
<1>4. todo'.to # "tl"
  BY <1>1, TodoIs DEF Chained
<1> QED  BY <1>1, <1>2, <1>3, <1>4 DEF LayersWait, Typed

\* Before the first call the negotiation is all there is.
LEMMA NegotiatesOnly ==
  ASSUME IInv, Registers, Unused, BusStep
  PROVE  /\ pl'.reg # "DATA" /\ pl'.frame \in {"uninit", "init", "ready"}
         /\ todo' = Pl => pl'.frame = "init"
<1> USE PlFields, TodoIs DEF IInv, Unused
<1>0. ASSUME NEW w, w.to = "dl"
      PROVE  w # Pl
  BY <1>0 DEF Pl
<1>1. CASE PalOk(app.call)
  BY <1>1 DEF PalOk, Transfer
<1>2. CASE PalError \/ PalRefused
  BY <1>2 DEF PalError, PalRefused, ChainEnds
<1>3. CASE PalFatal
  <2>1. todo'.to = "dl" /\ pl'.reg = pl.reg /\ pl'.frame = "ready"
    BY <1>3 DEF PalFatal, Dl
  <2> QED  BY <1>0, <2>1
<1>4. CASE PollCallback \/ GuardCallback \/ StatusPollCallback
  <2>1. timer \in {"poll", "guard", "status"}
    BY <1>4 DEF PollCallback, GuardCallback, StatusPollCallback, Fire
  <2>2. pl.frame = "init"
    BY <2>1 DEF Registers
  <2> QED  BY <1>4, <2>2 DEF PollCallback, GuardCallback, StatusPollCallback, ReadRegister
<1>5. CASE PlReady \/ PlWriteFrame \/ PlReadFrame \/ PlNotReady(dl.rxonly) \/ PlDone
  BY <1>5 DEF PlReady, PlWriteFrame, PlReadFrame, PlNotReady, PlDone, InPl
<1>6. CASE NegoDefault \/ NegoSet \/ NegoRead \/ NegoGetLen
  <2>1. pl.frame = "init"
    BY <1>6 DEF NegoDefault, NegoSet, NegoRead, NegoGetLen, Nego, InPl
  <2> QED  BY <1>6, <2>1 DEF NegoDefault, NegoSet, NegoRead, NegoGetLen, ReadRegister, WriteRegister
<1>7. CASE NegoVerify \/ NegoVerifyLen
  <2>1. pl.frame = "init"
    BY <1>7 DEF NegoVerify, NegoVerifyLen, Nego, InPl
  <2>2. ASSUME NEW ok, NegoEnds(pl, ok)
        PROVE  todo'.to = "dl" /\ pl'.reg = pl.reg /\ pl'.frame \in {"ready", "uninit"}
    BY <2>2 DEF NegoEnds, Dl
  <2>3. CASE todo' = Pal /\ pl' = [WriteRegister(pl, "LEN") EXCEPT !.nego = "getlen"]
    BY <2>1, <2>3 DEF WriteRegister
  <2>4. CASE \E ok : NegoEnds(pl, ok)
    BY <1>0, <2>2, <2>4
  <2> QED  BY <1>7, <2>3, <2>4 DEF NegoVerify, NegoVerifyLen
<1> QED
  BY <1>1, <1>2, <1>3, <1>4, <1>5, <1>6, <1>7 DEF BusStep

\* ... the time before the first call ...
LEMMA BeforeCallsBus ==
  ASSUME IInv, Structure, BusStep
  PROVE  BeforeCalls'
<1> USE DEF Structure
<1>1. LayersWait /\ Chained /\ (Written \/ Fetched \/ Untouched)
  BY BusEffects
<1>2. ASSUME app.call = 0
      PROVE  Unused'
  <2>1. Unused
    BY <1>2 DEF BeforeCalls
  <2>2. Untouched
    BY <1>1, <2>1 DEF Unused, Written, Fetched
  <2>3. dev' = dev /\ unsynced' = unsynced
    BY <2>1, <2>2 DEF Unused, Untouched
  <2>4. todo'.to # "tl"
    BY <1>1, TodoIs DEF Chained
  <2> QED  BY <1>1, <2>1, <2>3, <2>4, NegotiatesOnly DEF LayersWait, Unused
<1> QED  BY <1>1, <1>2 DEF LayersWait, BeforeCalls

\* ... the layers above ...
LEMMA LayersBus ==
  ASSUME IInv, Structure, BusStep
  PROVE  OutKnown' /\ LinkKnown' /\ TlKnown' /\ TxKnown'
<1> USE TodoIs DEF Structure
<1>1. LayersWait /\ Chained
  BY BusEffects
<1>2. OutKnown' /\ TxKnown'
  BY <1>1 DEF LayersWait, OutKnown, OutIs, TxKnown, TxIs
<1>3. todo'.to # "tl" /\ todo.to # "tl" /\ todo.to # "dl"
  BY <1>1 DEF Chained, LayersWait
<1>4. TlKnown'
  BY <1>1, <1>3 DEF LayersWait, TlKnown
<1>5. app.call > 0 => dl.state # "idle"
  BY <1>1 DEF LayersWait, LinkKnown
<1>6. /\ dl.state \notin {"rx_df", "rx_cf"}
      /\ dl.resynced => pl.act = "write" /\ dl.state \in {"resend", "error", "idle"}
      /\ dl.state \in {"ack", "tx"} => pl.act = "write"
      /\ dl.state = "rx" => pl.act = "read"
      /\ dl.state = "ack" => dl.rxbuf # NoBody
      /\ ~dl.error
      /\ dl.state \in {"idle", "tx", "rx", "ack", "nack", "resend", "discard", "error"}
  BY <1>3 DEF LinkKnown
<1>7. /\ todo'.to = "dl" => todo'.event \in {"ok", "error", "fatal"}
      /\ todo'.to = "dl" /\ todo'.event = "error" => pl.act = "read" \/ pl.frame = "init"
  BY <1>1 DEF Chained
<1>8. pl.frame = "init" => app.call = 0
  BY DEF IInv, FrameState, BeforeCalls
<1>9. app.call > 0 => app.call # 0
  BY DEF Typed
<1> QED  BY <1>1, <1>2, <1>4, <1>5, <1>6, <1>7, <1>8, <1>9 DEF LayersWait, LinkKnown

\* ... and the frames of the device.
LEMMA ReceivedBus ==
  ASSUME IInv, Structure, BusStep
  PROVE  Received'
<1> USE TodoIs DEF Structure
<1>1. LayersWait /\ Chained /\ (Written \/ Fetched \/ Untouched)
  BY BusEffects
<1>2. CASE Written
  <2>1. DeviceSound(dev')
    BY <1>2, WrittenEffect
  <2>2. ~Holding' /\ todo'.to # "dl"
    BY <1>2 DEF Written, Holding
  <2> QED  BY <2>1, <2>2 DEF Received
<1>3. CASE Fetched
  <2>1. DeviceSound(dev') /\ From(dev', pl'.in) /\ todo'.to # "dl"
    BY <1>3, FetchedEffect DEF Fetched
  <2> QED  BY <2>1 DEF Received
<1>4. CASE Untouched
  <2>1. todo'.to = "dl" /\ todo'.event = "ok" /\ pl'.act = "read" => From(dev', todo'.frame)
    <3> SUFFICES ASSUME todo'.to = "dl", todo'.event = "ok", pl.act = "read"
                 PROVE  From(dev, todo'.frame)
      BY <1>1, <1>4 DEF LayersWait, Untouched
    <3>1. app.call # 0
      BY DEF BeforeCalls, Unused
    <3>2. pl.frame # "init"
      BY <3>1 DEF IInv, FrameState, BeforeCalls
    <3>3. todo'.frame = pl.in /\ pl.frame = "rxtx" /\ todo = Pl
      BY <1>1, <3>2 DEF Chained
    <3>4. Holding
      BY <3>3 DEF Registers, Holding
    <3> QED  BY <3>3, <3>4 DEF Received
  <2>2. dev' = dev /\ (Holding' => Holding /\ pl'.in = pl.in)
    BY <1>4 DEF Untouched
  <2> QED  BY <2>1, <2>2 DEF Received
<1> QED  BY <1>1, <1>2, <1>3, <1>4

\* All of them.
LEMMA StructureBus ==
  ASSUME IInv, IInv', Structure, BusStep
  PROVE  Structure'
BY TypedBus, LostEndsBus, RegistersKeep, BeforeCallsBus, LayersBus, ReceivedBus DEF Structure

\* Nothing that the protocol is about changes, except that it may be given up.
Quiet ==
  /\ OnlyOut(dev, dev') /\ UNCHANGED <<dl, tl, resyncs>>
  /\ app'.call = app.call /\ app'.frags = app.frags
  /\ InStep' => InStep /\ (Pending => Pending')
  /\ todo'.to = "tl" => todo' = todo

\* Then the two ends know of each other what they knew before.
LEMMA QuietKeeps ==
  ASSUME Numbers, Owned, Cleaned, Runs, Quiet
  PROVE  Numbers' /\ Owned' /\ Cleaned' /\ Runs'
<1>1. (InStep' => InStep) /\ (AtRest' => AtRest)
  BY DEF Quiet, AtRest
<1>2. Numbers'
  BY <1>1 DEF Numbers, Quiet, OnlyOut
<1>3. \A b : Own(b) => Own(b)'
  BY DEF Own, Quiet
<1>4. Owned'
  BY <1>1 DEF Owned, Quiet, OnlyOut, AllOwn, Own
<1>5. (Clean => Clean') /\ (Regular' <=> Regular)
  BY DEF Clean, Regular, Quiet, OnlyOut
<1>6. Cleaned'
  BY <1>1, <1>5 DEF Cleaned, Quiet, OnlyOut
<1>7. Runs'
  BY DEF Runs, CanRun, Quiet, OnlyOut
<1> QED  BY <1>2, <1>4, <1>6, <1>7

-----------------------------------------------------------------------------
(* What the two ends know of each other while frames move *)

\* After an acknowledgement the device may offer the next fragment.
AfterAck ==
  /\ dev'.rx = dev.rx /\ dev'.job = dev.job /\ dev'.all = dev.all /\ dev'.call = dev.call
  /\ dev'.runs = dev.runs /\ dev'.garbled = dev.garbled
  /\ \/ dev'.tx = dev.tx /\ dev'.resp = dev.resp /\ (dev'.sent = dev.sent \/ (dev'.sent = NoFrame /\ dl.rx = dev.tx))
     \/ /\ dl.rx = dev.tx /\ dev'.tx = Succ(dev.tx) /\ dev'.sent # NoFrame
        /\ Len(dev.resp) > 0 /\ dev'.sent.body = dev.resp[1] /\ dev'.resp = Tail(dev.resp)

\* After a new data frame the device has taken a fragment of the command.
AfterData ==
  /\ pl.out.kind = "data" /\ ~dl.resynced /\ dl.tx = Succ(dev.rx) /\ dev'.rx = dl.tx
  /\ \E x \in Device :
       /\ x.rx = dl.tx /\ x.tx = dev.tx
       /\ x.sent = IF dl.rx = dev.tx THEN NoFrame ELSE dev.sent
       /\ \/ Completed(dev, x, dl.txbuf, app.call) \/ Spoiled(dev, x, app.call)
          \/ Repeated(dev, x, dl.txbuf) \/ Gathered(dev, x, dl.txbuf)
       /\ IF x.job THEN OnlyOut(x, dev') ELSE Offered(x, dev')

AfterResync == Pending /\ dl.resynced /\ dl.tx = 3 /\ dl.rx = 3 /\ Synced(dev, dev') /\ unsynced' = unsynced

\* A write leaves the layers above alone, and no re-sync is under way after it.
WrittenKeeps == todo' = Nothing /\ UNCHANGED <<dl, tl, app, resyncs, lost>> /\ ~Pending'

\* What a write may be.
LEMMA WrittenIs ==
  ASSUME IInv, Structure, Numbers, BusStep, Written
  PROVE  /\ WrittenKeeps
         /\ \/ Quiet
            \/ AfterResync
            \/ unsynced' = unsynced /\ ~Pending /\ (AtRest => AfterAck)
            \/ unsynced' = unsynced /\ ~Pending /\ (AtRest => AfterData)
<1> USE DEF Structure
<1>1. LayersWait
  BY BusEffects
<1>2. /\ dev' \in Device /\ DeviceSound(dev')
      /\ \/ Heard(dev, dev', pl.out, app.call) /\ unsynced' = unsynced
         \/ OnlyOut(dev, dev') /\ unsynced' = (unsynced \/ pl.out.seq = "resync")
  BY WrittenEffect
<1>3. /\ app.call \in Nat /\ OutIs /\ pl.out \in Frames(app.call) /\ pl.out.good
      /\ pl.out.kind # "ctrl" => /\ pl.out.seq = "ack" /\ pl.out.fr = dl.tx /\ pl.out.ack = dl.rx
                                 /\ pl.out.body = dl.txbuf /\ ~dl.resynced
  BY WrittenFrame
<1>4. WrittenKeeps
  <2>1. ~Pending'
    BY TodoIs DEF Written, Pending, Unwritten
  <2> QED  BY <1>1, <2>1 DEF LayersWait, Written, WrittenKeeps
<1>5. Pending <=> pl.out.seq = "resync"
  BY DEF Written, Pending, Unwritten
<1>6. CASE OnlyOut(dev, dev') /\ (pl.out.seq = "resync" => unsynced') /\ (unsynced => unsynced')
  <2>1. InStep' => InStep /\ ~Pending
    BY <1>5, <1>6 DEF InStep, Written
  <2>2. todo'.to # "tl"
    BY TodoIs DEF Written
  <2>3. Quiet
    BY <1>1, <1>6, <2>1, <2>2 DEF Quiet, LayersWait
  <2> QED  BY <1>4, <2>3
<1>7. CASE pl.out.seq = "resync" /\ Synced(dev, dev') /\ unsynced' = unsynced
  BY <1>3, <1>4, <1>5, <1>7 DEF AfterResync, OutIs, Frame
<1>8. dl.rx \in Nr /\ dl.tx \in Nr /\ dev.tx \in Nr /\ dev.rx \in Nr /\ dev \in Devices(app.call)
  BY DEF Typed, Devices
<1>9. dev.sent # NoFrame => dev.sent.fr = dev.tx
  <2>1. dev.sent # NoFrame => dev.sent = Frame("data", "ack", dev.tx, dev.sent.ack, dev.sent.body)
    BY DEF Received, DeviceSound
  <2> QED  BY <2>1 DEF Frame
<1>10. AtRest /\ dev.sent = NoFrame => dl.rx = dev.tx
  BY DEF Numbers
<1>11. ASSUME pl.out.kind = "ctrl", pl.out.seq = "ack", unsynced' = unsynced,
              NEW x \in Devices(app.call), Heeds(dev, x, pl.out.ack), Offered(x, dev'), AtRest
       PROVE  AfterAck
  <2>1. pl.out.ack = dl.rx
    BY <1>3, <1>11 DEF OutIs, Frame
  <2>2. x.sent = IF dl.rx = dev.tx THEN NoFrame ELSE dev.sent
    BY <1>9, <1>10, <1>11, <2>1 DEF Heeds
  <2>3. CASE x.resp = <<>> \/ x.sent # NoFrame
    BY <1>11, <2>2, <2>3 DEF Heeds, Offered, AfterAck
  <2>4. CASE ~(x.resp = <<>> \/ x.sent # NoFrame)
    <3>1. dl.rx = dev.tx
      BY <1>10, <1>11, <2>2, <2>4
    <3> QED  BY <1>11, <2>4, <3>1 DEF Heeds, Offered, AfterAck
  <2> QED  BY <2>3, <2>4
<1>12. ASSUME pl.out.kind # "ctrl", pl.out.seq # "resync", unsynced' = unsynced, AtRest,
              NEW x \in Devices(app.call), Takes(dev, x, pl.out, app.call),
              IF x.job THEN OnlyOut(x, dev') ELSE Offered(x, dev')
       PROVE  AfterData
  <2>1. /\ pl.out.fr = dl.tx /\ pl.out.ack = dl.rx /\ pl.out.body = dl.txbuf /\ ~dl.resynced
        /\ pl.out.kind = "data"
    BY <1>3, <1>12 DEF OutIs, Frame
  <2>2. x.sent = IF dl.rx = dev.tx THEN NoFrame ELSE dev.sent
    BY <1>9, <1>10, <1>12, <2>1 DEF Takes
  <2>3. dl.tx = Succ(dev.rx) /\ x.rx = dl.tx /\ x.tx = dev.tx
    BY <1>12, <2>1 DEF Takes
  <2>4. dev'.rx = dl.tx
    BY <1>12, <2>3 DEF OnlyOut, Offered
  <2>5. \/ Completed(dev, x, dl.txbuf, app.call) \/ Spoiled(dev, x, app.call)
        \/ Repeated(dev, x, dl.txbuf) \/ Gathered(dev, x, dl.txbuf)
    BY <1>12, <2>1 DEF Takes
  <2> QED  BY <1>12, <2>1, <2>2, <2>3, <2>4, <2>5 DEF AfterData, Device
<1>13. CASE Heard(dev, dev', pl.out, app.call) /\ unsynced' = unsynced
  BY <1>3, <1>4, <1>5, <1>6, <1>7, <1>11, <1>12, <1>13 DEF Heard
<1>14. CASE OnlyOut(dev, dev') /\ unsynced' = (unsynced \/ pl.out.seq = "resync")
  BY <1>6, <1>14
<1> QED  BY <1>2, <1>13, <1>14

\* What the layers above are doing while a frame is on the wire.
LEMMA WhileWritten ==
  ASSUME IInv, Structure, Written
  PROVE  /\ app.call > 0 /\ dl.state # "idle" /\ tl.state \in {"tx", "rx"} /\ TxIs
         /\ dl.tx \in Nr /\ dl.rx \in Nr /\ dev.tx \in Nr /\ dev.rx \in Nr /\ dev \in Device
<1> USE TodoIs DEF Structure
<1>1. app.call > 0 /\ TxIs
  BY WrittenFrame
<1>2. dl.state # "idle"
  BY <1>1 DEF Written, LinkKnown
<1>3. tl.state \in {"tx", "rx"}
  BY <1>2 DEF TlKnown
<1> QED  BY <1>1, <1>2, <1>3 DEF Typed, Devices, Device

\* A fragment that completes the command is its last one, a chaining error follows a whole
\* command.
LEMMA TxbufIs ==
  ASSUME Typed, TxIs
  PROVE  /\ Last(dl.txbuf) => tl.offset = app.frags
         /\ dl.txbuf.pctr \in {"first", "inter"} => tl.offset < app.frags
         /\ dl.txbuf.pctr = "error" => tl.merr > 0 /\ tl.done /\ tl.offset = app.frags
<1>1. CASE dl.txbuf = Body(Pctr(tl.offset, app.frags), app.call) /\ tl.offset > 0
  <2>1. tl.offset \in 1..app.frags /\ app.frags \in Nat /\ tl.offset \in Nat
    BY <1>1 DEF Typed
  <2>2. /\ Pctr(tl.offset, app.frags) \in {"no", "first", "inter", "last"}
        /\ Pctr(tl.offset, app.frags) \in {"no", "last"} <=> tl.offset = app.frags
    BY <2>1, PctrIs
  <2>3. dl.txbuf.pctr = Pctr(tl.offset, app.frags)
    BY <1>1 DEF Body
  <2>4. tl.offset # app.frags => tl.offset < app.frags
    BY <2>1
  <2> QED  BY <2>2, <2>3, <2>4 DEF Last
<1>2. CASE dl.txbuf = CrcBody
  BY <1>2 DEF CrcBody, Body, Last
<1>3. CASE dl.txbuf.pctr = "error" /\ tl.merr > 0 /\ tl.done /\ tl.offset = app.frags
  BY <1>3 DEF Last
<1> QED  BY <1>1, <1>2, <1>3 DEF TxIs

\* The device runs a command for every new last fragment.
LEMMA RunsWritten ==
  ASSUME IInv, Structure, Runs, BusStep, Written
  PROVE  Runs'
<1> USE DEF Structure
<1>1. UNCHANGED <<dl, resyncs, tl, app>>
  BY BusEffects DEF LayersWait
<1>2. Heard(dev, dev', pl.out, app.call) \/ OnlyOut(dev, dev')
  BY WrittenEffect
<1>3. /\ OutIs /\ TxIs
      /\ pl.out.kind # "ctrl" => /\ pl.out.fr = dl.tx /\ pl.out.body = dl.txbuf /\ ~dl.resynced
  BY WrittenFrame
<1>4. /\ resyncs \in Nat /\ tl.cerr \in Nat /\ dev.runs \in Nat
      /\ dl.tx \in Nr /\ dev.rx \in Nr /\ app.frags \in Nat /\ tl.offset \in Nat
  BY DEF Typed, Devices
<1>5. CASE dev'.runs = dev.runs /\ (CanRun' => CanRun)
  BY <1>1, <1>4, <1>5 DEF Runs
<1>6. CASE dev'.runs = dev.runs /\ dev'.rx = dev.rx
  <2>1. CanRun' => CanRun
    BY <1>1, <1>6 DEF CanRun
  <2> QED  BY <1>5, <1>6, <2>1
<1>7. CASE pl.out.seq = "resync" /\ Synced(dev, dev')
  <2>1. dl.resynced
    BY <1>3, <1>7 DEF OutIs, Frame
  <2> QED  BY <1>5, <1>7, <2>1 DEF CanRun, Synced
<1>8. ASSUME NEW x, Takes(dev, x, pl.out, app.call), IF x.job THEN OnlyOut(x, dev') ELSE Offered(x, dev'),
             pl.out.kind # "ctrl"
      PROVE  Runs'
  <2>1. dev'.rx = dl.tx /\ dev'.runs = x.runs /\ dl.tx = Succ(dev.rx) /\ ~dl.resynced
    BY <1>3, <1>8 DEF Takes, OnlyOut, Offered
  <2>2. CASE x.runs = dev.runs
    <3>1. CanRun' => CanRun
      BY <1>1, <2>1 DEF CanRun
    <3> QED  BY <1>5, <2>1, <2>2, <3>1
  <2>3. CASE Last(dl.txbuf) /\ x.runs = dev.runs + 1
    <3>1. dl.tx # dev.rx
      BY <1>4, <2>1, Circle
    <3>2. CanRun
      BY <2>3, <3>1 DEF CanRun
    <3>3. ~(tl.offset < app.frags)
      BY <1>3, <1>4, <2>3, TxbufIs
    <3>4. ~CanRun'
      BY <1>1, <2>1, <3>3 DEF CanRun
    <3> QED  BY <1>1, <1>4, <2>1, <2>3, <3>2, <3>4 DEF Runs
  <2> QED  BY <1>3, <1>8, <2>2, <2>3 DEF Takes, Completed, Spoiled, Repeated, Gathered
<1> QED  BY <1>2, <1>6, <1>7, <1>8 DEF Heard, OnlyOut, Heeds, Offered

-----------------------------------------------------------------------------
(* The protocol is kept by what is written, and by the device *)

\* The device is in step again.
LEMMA ResyncKeeps ==
  ASSUME Numbers, Owned, Cleaned, LinkKnown, WrittenKeeps, AfterResync
  PROVE  Numbers' /\ Owned' /\ Cleaned'
<1> USE TodoIs DEF WrittenKeeps, AfterResync, Synced
<1>1. (InStep' <=> InStep) /\ (AtRest' <=> InStep')
  BY DEF InStep, AtRest
<1>2. dl.state # "ack"
  BY DEF LinkKnown
<1>3. Numbers'
  BY DEF Numbers
<1>4. Owned'
  <2>1. \A b : Own(b) => Own(b)'
    BY DEF Own
  <2>2. AllOwn(dev.resp)'
    BY DEF AllOwn
  <2>3. (InStep /\ tl.done => AllOwn(dev.all))'
    BY <1>1, <2>1 DEF Owned, AllOwn
  <2>4. (InStep /\ todo.to = "tl" => FALSE)'
    OBVIOUS
  <2> QED  BY <1>1, <1>2, <2>2, <2>3, <2>4 DEF Owned
<1>5. Cleaned'
  <2>1. Clean'
    BY DEF Clean
  <2> QED  BY <1>2, <2>1 DEF Cleaned
<1> QED  BY <1>3, <1>4, <1>5

\* The device has heard of the fragment it sent before.
LEMMA AckKeeps ==
  ASSUME Numbers, Owned, Cleaned, Typed, WrittenKeeps, unsynced' = unsynced, ~Pending,
         AtRest => AfterAck
  PROVE  Numbers' /\ Owned' /\ Cleaned'
<1> USE TodoIs DEF WrittenKeeps
<1>1. (InStep' <=> InStep) /\ (AtRest' <=> AtRest) /\ (InStep <=> AtRest)
  BY DEF InStep, AtRest
<1>2. CASE ~AtRest
  BY <1>1, <1>2 DEF Numbers, Owned, Cleaned
<1>3. CASE AtRest
  <2> USE <1>1, <1>3
  <2>0. /\ dev'.rx = dev.rx /\ dev'.job = dev.job /\ dev'.all = dev.all /\ dev'.call = dev.call
        /\ dev'.garbled = dev.garbled
    BY DEF AfterAck
  <2>1. CASE /\ dev'.tx = dev.tx /\ dev'.resp = dev.resp
             /\ dev'.sent = dev.sent \/ (dev'.sent = NoFrame /\ dl.rx = dev.tx)
    <3>1. Numbers'
      BY <2>0, <2>1 DEF Numbers
    <3>2. Owned'
      BY <2>0, <2>1 DEF Owned, AllOwn, Own
    <3>3. (Clean => Clean') /\ (Regular' <=> Regular)
      BY <2>0, <2>1 DEF Clean, Regular
    <3>4. Cleaned'
      BY <2>0, <2>1, <3>3 DEF Cleaned
    <3> QED  BY <3>1, <3>2, <3>4
  <2>2. CASE /\ dl.rx = dev.tx /\ dev'.tx = Succ(dev.tx) /\ dev'.sent # NoFrame
             /\ Len(dev.resp) > 0 /\ dev'.sent.body = dev.resp[1] /\ dev'.resp = Tail(dev.resp)
    <3>1. Numbers'
      BY <2>0, <2>2 DEF Numbers
    <3>2. /\ dev.resp # <<>> /\ Len(dev'.resp) = Len(dev.resp) - 1 /\ Len(dev.resp) \in Nat
          /\ \A i \in 1..Len(dev'.resp) : dev'.resp[i] = dev.resp[i + 1]
      <4>1. dev.resp \in Seq(Bodies(app.call)) /\ dev.resp # <<>>
        BY <2>2 DEF Typed, Devices
      <4> QED  BY <2>2, <4>1, HeadTailProperties
    <3>3. 1 \in 1..Len(dev.resp) /\ \A i \in 1..Len(dev'.resp) : i + 1 \in 1..Len(dev.resp)
      BY <2>2, <3>2
    <3>4. Owned'
      <4>1. Own(dev.resp[1]) /\ \A i \in 1..Len(dev'.resp) : Own(dev'.resp[i])
        BY <3>2, <3>3 DEF Owned, AllOwn
      <4> QED  BY <2>0, <2>2, <4>1 DEF Owned, AllOwn, Own
    <3>5. ~Clean /\ (Regular' <=> Regular)
      BY <2>0, <3>2 DEF Clean, Regular
    <3>6. ASSUME Regular
          PROVE  /\ ~dev.job /\ dev'.rx = dl.tx /\ ~(tl.offset < app.frags)
                 /\ \A i \in 1..Len(dev'.resp) : Last(dev'.resp[i]) => i = Len(dev'.resp)
                 /\ Last(dev.resp[1]) => dev'.resp = <<>>
      <4>1. ~dev.job /\ dev.rx = dl.tx /\ ~(tl.offset < app.frags)
        BY <3>2, <3>5, <3>6 DEF Cleaned
      <4>2. \A i \in 1..Len(dev.resp) : Last(dev.resp[i]) => i = Len(dev.resp)
        BY <3>6 DEF Cleaned
      <4>3. \A i \in 1..Len(dev'.resp) : Last(dev'.resp[i]) => i = Len(dev'.resp)
        <5> TAKE i \in 1..Len(dev'.resp)
        <5>1. Last(dev'.resp[i]) => i + 1 = Len(dev.resp)
          BY <3>2, <3>3, <4>2
        <5> QED  BY <3>2, <5>1
      <4>4. Last(dev.resp[1]) => Len(dev'.resp) = 0
        <5>1. Last(dev.resp[1]) => Len(dev.resp) = 1
          BY <3>3, <4>2
        <5> QED  BY <3>2, <5>1
      <4>5. Len(dev'.resp) = 0 => dev'.resp = <<>>
        <5>1. dev'.resp \in Seq(Bodies(app.call))
          BY <2>2 DEF Typed, Devices
        <5> QED  BY <5>1
      <4> QED  BY <2>0, <4>1, <4>3, <4>4, <4>5
    <3>7. Cleaned'
      BY <2>0, <2>2, <3>5, <3>6 DEF Cleaned
    <3> QED  BY <3>1, <3>4, <3>7
  <2> QED  BY <2>1, <2>2 DEF AfterAck
<1> QED  BY <1>2, <1>3

\* The device has taken a fragment of the command.
LEMMA DataKeeps ==
  ASSUME IInv, Structure, Numbers, Owned, Cleaned, Written, WrittenKeeps, unsynced' = unsynced, ~Pending,
         AtRest => AfterData
  PROVE  Numbers' /\ Owned' /\ Cleaned'
<1> USE TodoIs DEF WrittenKeeps
<1>1. (InStep' <=> InStep) /\ (AtRest' <=> AtRest) /\ (InStep <=> AtRest)
  BY DEF InStep, AtRest
<1>2. CASE ~AtRest
  BY <1>1, <1>2 DEF Numbers, Owned, Cleaned
<1>3. CASE AtRest
  <2> USE <1>1, <1>3
  <2>1. /\ dl.state # "idle" /\ tl.state \in {"tx", "rx"} /\ TxIs
        /\ dl.tx \in Nr /\ dl.rx \in Nr /\ dev.tx \in Nr /\ dev.rx \in Nr
    BY WhileWritten
  <2>2. PICK x \in Device :
          /\ x.rx = dl.tx /\ x.tx = dev.tx
          /\ x.sent = IF dl.rx = dev.tx THEN NoFrame ELSE dev.sent
          /\ \/ Completed(dev, x, dl.txbuf, app.call) \/ Spoiled(dev, x, app.call)
             \/ Repeated(dev, x, dl.txbuf) \/ Gathered(dev, x, dl.txbuf)
          /\ IF x.job THEN OnlyOut(x, dev') ELSE Offered(x, dev')
    BY DEF AfterData
  <2>3. ~dl.resynced /\ dl.tx = Succ(dev.rx) /\ dev'.rx = dl.tx /\ dl.tx # dev.rx
    BY <2>1, Circle DEF AfterData
  <2>4. dl.state # "ack"
    BY <2>1, <2>3 DEF Numbers
  <2>5. /\ dev.sent = NoFrame => dl.rx = dev.tx
        /\ dl.rx = dev.tx \/ Succ(dl.rx) = dev.tx
        /\ x.sent = NoFrame => dl.rx = x.tx
    BY <2>2 DEF Numbers
  <2>6. /\ dev'.job = x.job /\ dev'.all = x.all /\ dev'.call = x.call /\ dev'.garbled = x.garbled
        /\ \/ dev'.tx = x.tx /\ dev'.sent = x.sent /\ dev'.resp = x.resp
           \/ /\ dev'.tx = Succ(x.tx) /\ dev'.sent # NoFrame /\ x.sent = NoFrame /\ x.resp # <<>>
              /\ Len(x.resp) > 0 /\ dev'.sent.body = x.resp[1] /\ dev'.resp = Tail(x.resp)
    BY <2>2 DEF OnlyOut, Offered
  <2>7. Numbers'
    BY <2>2, <2>3, <2>4, <2>5, <2>6 DEF Numbers
  <2>8. /\ Last(dl.txbuf) => tl.offset = app.frags
        /\ dl.txbuf.pctr \in {"first", "inter"} => tl.offset < app.frags
        /\ dl.txbuf.pctr = "error" => tl.merr > 0 /\ tl.done /\ tl.offset = app.frags
    BY <2>1, TxbufIs DEF Structure
  <2>9. Owned'
    <3>1. AllOwn(dev.resp) /\ (tl.done => AllOwn(dev.all)) /\ (dev.job => dev.call = app.call)
      BY DEF Owned
    <3>2. /\ AllOwn(x.resp)
          /\ tl.offset = app.frags \/ tl.done => AllOwn(x.all)
          /\ x.job => x.call = app.call
      <4>1. CASE Completed(dev, x, dl.txbuf, app.call)
        BY <4>1 DEF Completed, AllOwn
      <4>2. CASE Spoiled(dev, x, app.call)
        BY <3>1, <4>2 DEF Spoiled, AllOwn, Own, Chaining
      <4>3. CASE Repeated(dev, x, dl.txbuf)
        BY <2>8, <3>1, <4>3 DEF Repeated
      <4>4. CASE Gathered(dev, x, dl.txbuf)
        <5>1. tl.offset # app.frags
          BY <2>8, <4>4 DEF Gathered, Structure, Typed
        <5> QED  BY <3>1, <4>4, <5>1 DEF Gathered, AllOwn
      <4> QED  BY <2>2, <4>1, <4>2, <4>3, <4>4
    <3>3. AllOwn(dev'.resp)
      <4>1. CASE dev'.resp = x.resp
        BY <3>2, <4>1
      <4>2. CASE x.resp # <<>> /\ dev'.resp = Tail(x.resp)
        <5>1. /\ Len(dev'.resp) = Len(x.resp) - 1 /\ Len(x.resp) \in Nat
              /\ \A i \in 1..Len(dev'.resp) : dev'.resp[i] = x.resp[i + 1]
          <6>1. x.resp \in Seq(Bodies(app.call)) /\ x.resp # <<>>
            BY <2>2, <4>2 DEF Device, Devices
          <6> QED  BY <4>2, <6>1, HeadTailProperties
        <5>2. \A i \in 1..Len(dev'.resp) : i + 1 \in 1..Len(x.resp)
          BY <5>1
        <5> QED  BY <3>2, <5>1, <5>2 DEF AllOwn
      <4> QED  BY <2>6, <4>1, <4>2
    <3>4. dev'.sent # NoFrame /\ dl.rx # dev'.tx => Own(dev'.sent.body)
      <4>1. CASE dev'.sent = x.sent /\ dev'.tx = x.tx
        BY <2>2, <4>1 DEF Owned
      <4>2. CASE dev'.sent.body = x.resp[1] /\ Len(x.resp) > 0
        <5>1. Len(x.resp) \in Nat
          BY <2>2 DEF Device, Devices
        <5>2. 1 \in 1..Len(x.resp)
          BY <4>2, <5>1
        <5> QED  BY <3>2, <4>2, <5>2 DEF AllOwn
      <4> QED  BY <2>6, <4>1, <4>2
    <3>5. /\ (\A b : Own(b) => Own(b)')
          /\ (AllOwn(dev'.resp) => AllOwn(dev.resp)') /\ (AllOwn(dev'.all) => AllOwn(dev.all)')
      BY DEF AllOwn, Own
    <3> QED  BY <2>4, <2>6, <3>2, <3>3, <3>4, <3>5 DEF Owned
  <2>10. ASSUME Regular'
         PROVE  /\ Regular /\ dev'.resp = <<>> /\ (dev'.sent = NoFrame)
                /\ (tl.offset < app.frags => ~dev'.job)
    <3>1. tl.cerr = 0 /\ tl.merr = 0 /\ ~x.garbled
      BY <2>6, <2>10 DEF Regular
    <3>2. Completed(dev, x, dl.txbuf, app.call) \/ Gathered(dev, x, dl.txbuf)
      BY <2>2, <2>8, <3>1 DEF Spoiled, Repeated
    <3>3. Regular
      BY <3>1, <3>2 DEF Regular, Completed, Gathered
    <3>4. Clean
      BY <2>3, <3>3 DEF Cleaned
    <3>5. x.sent = NoFrame /\ x.resp = <<>>
      BY <2>2, <3>2, <3>4 DEF Clean, Completed, Gathered
    <3>6. tl.offset < app.frags => ~x.job
      <4>1. CASE Completed(dev, x, dl.txbuf, app.call)
        BY <2>8, <4>1 DEF Completed, Structure, Typed
      <4>2. CASE Gathered(dev, x, dl.txbuf)
        BY <3>4, <4>2 DEF Gathered, Clean
      <4> QED  BY <3>2, <4>1, <4>2
    <3> QED  BY <2>6, <3>3, <3>5, <3>6
  <2>11. Cleaned'
    <3>1. Regular' => (~dev'.job => Clean')
      BY <2>10 DEF Clean
    <3>2. tl.state # "error" /\ tl.state # "idle"
      BY <2>1
    <3> QED  BY <2>3, <2>4, <2>10, <3>1, <3>2 DEF Cleaned
  <2> QED  BY <2>7, <2>9, <2>11
<1> QED  BY <1>2, <1>3

\* The frames on the bus, whatever becomes of them.
LEMMA ProtocolBus ==
  ASSUME IInv, Structure, Protocol, BusStep
  PROVE  Protocol'
<1> USE TodoIs DEF Protocol
<1>1. LayersWait /\ Chained /\ (Written \/ Fetched \/ Untouched)
  BY BusEffects DEF Structure
<1>2. Delivered'
  <2>1. todo'.to # "api" /\ UNCHANGED <<tl, app>>
    BY <1>1 DEF LayersWait, Chained
  <2>2. InStep' => InStep
    BY <1>1 DEF InStep, Written, Fetched, Untouched
  <2> QED  BY <2>1, <2>2 DEF Delivered
<1>3. CASE Quiet
  BY <1>2, <1>3, QuietKeeps
<1>4. CASE Written
  <2>1. Runs'
    BY <1>4, RunsWritten
  <2>2. WrittenKeeps
    BY <1>4, WrittenIs
  <2>3. CASE AfterResync
    BY <1>2, <2>1, <2>2, <2>3, ResyncKeeps DEF Structure
  <2>4. CASE unsynced' = unsynced /\ ~Pending /\ (AtRest => AfterAck)
    BY <1>2, <2>1, <2>2, <2>4, AckKeeps DEF Structure
  <2>5. CASE unsynced' = unsynced /\ ~Pending /\ (AtRest => AfterData)
    BY <1>2, <1>4, <2>1, <2>2, <2>5, DataKeeps
  <2> QED  BY <1>3, <1>4, <2>3, <2>4, <2>5, WrittenIs
<1>5. CASE Fetched
  <2>1. OnlyOut(dev, dev')
    BY <1>5, FetchedEffect DEF Structure
  <2>2. ~Pending /\ todo'.to # "tl" /\ (InStep' => InStep)
    BY <1>5 DEF Fetched, Pending, Unwritten, InStep
  <2> QED  BY <1>1, <1>3, <2>1, <2>2 DEF LayersWait, Quiet
<1>6. CASE Untouched
  <2>1. OnlyOut(dev, dev')
    BY <1>6 DEF Untouched, OnlyOut
  <2>2. InStep' => InStep /\ (Pending => Pending')
    BY <1>6 DEF Untouched, InStep
  <2>3. todo'.to # "tl"
    BY <1>1 DEF Chained
  <2> QED  BY <1>1, <1>3, <2>1, <2>2, <2>3 DEF LayersWait, Quiet
<1> QED  BY <1>1, <1>4, <1>5, <1>6

\* What the device had ready stays ready.
LEMMA RunTells ==
  ASSUME app.call \in Nat, dev \in Device, MaxRespFrags \in Nat, DevRun, dev.out # <<>>
  PROVE  dev'.out # <<>>
<1>1. PICK m \in 1..MaxRespFrags :
        LET r == [i \in 1..m |-> Body(Pctr(i, m), dev.call)]
        IN  dev' = Offer([Answer(dev, r) EXCEPT !.job = FALSE])
  BY DEF DevRun
<1> DEFINE r == [i \in 1..m |-> Body(Pctr(i, m), dev.call)]
           x == [Answer(dev, r) EXCEPT !.job = FALSE]
<1>2. "out" \in DOMAIN dev
  BY DEF Device, Devices
<1>3. x.out = dev.out
  BY <1>2 DEF Answer
<1>4. dev' = Offer(x)
  BY <1>1
<1> HIDE DEF x
<1>5. CASE dev' = x
  BY <1>3, <1>5
<1>6. CASE dev' # x
  <2> DEFINE f == Frame("data", "ack", Succ(x.tx), x.rx, Head(x.resp))
  <2>1. dev' = [x EXCEPT !.tx = Succ(x.tx), !.sent = f, !.resp = Tail(x.resp), !.out = Append(x.out, f)]
    BY <1>4, <1>6 DEF Offer
  <2> HIDE DEF f
  <2>2. dev.out \in Seq(Frames(app.call)) /\ "out" \in DOMAIN x
    BY <1>2 DEF Device, Devices, x, Answer
  <2>3. dev'.out = Append(dev.out, f)
    BY <1>3, <2>1, <2>2
  <2> QED  BY <2>2, <2>3
<1> QED  BY <1>5, <1>6

\* The state of the stack while the device finishes its command.
LEMMA WhileRun ==
  ASSUME IInv, Structure, DeviceStep
  PROVE  /\ app.call > 0 /\ app.call \in Nat /\ dev \in Device /\ dev.job /\ todo = Pal /\ timer = "none"
         /\ dl.state # "idle" /\ tl.state \in {"tx", "rx"}
         /\ UNCHANGED <<bus, timer, todo, who, tail, pl, late, faults, lost, unsynced, overtaken, dl, resyncs, tl, api, app>>
         /\ dev' \in Device /\ DeviceSound(dev') /\ Ran(dev, dev') /\ (dev.out # <<>> => dev'.out # <<>>)
<1> USE TodoIs DEF Structure
<1>1. todo = Pal /\ dev.job /\ DevRun /\ timer = "none"
  BY DEF DeviceStep, DevRun, IInv, UnderWay
<1>2. app.call \in Nat /\ dev \in Device /\ DeviceSound(dev)
  BY DEF Typed, Device, Received
<1>3. app.call # 0
  BY <1>1 DEF BeforeCalls, Unused
<1>4. app.call > 0 /\ dl.state # "idle"
  BY <1>1, <1>2, <1>3 DEF LinkKnown
<1>5. tl.state \in {"tx", "rx"}
  BY <1>4 DEF TlKnown
<1>6. dev' \in Device /\ DeviceSound(dev') /\ Ran(dev, dev') /\ (dev.out # <<>> => dev'.out # <<>>)
  BY <1>1, <1>2, RunEffect, RunTells, ResponseAssumption
<1> QED  BY <1>1, <1>2, <1>4, <1>5, <1>6 DEF DeviceStep, linkVars, Stays

\* Structure while the device finishes its command.
LEMMA StructureDevice ==
  ASSUME IInv, Structure, DeviceStep
  PROVE  Structure'
<1> USE TodoIs, WhileRun DEF Structure
<1>1. Typed'
  BY DEF Typed, Device
<1>2. LostEnds'
  BY DEF LostEnds
<1>3. Registers'
  BY DEF Registers, Holding
<1>4. BeforeCalls'
  BY DEF BeforeCalls
<1>5. OutKnown' /\ TxKnown'
  BY DEF OutKnown, OutIs, TxKnown, TxIs
<1>6. LinkKnown' /\ TlKnown'
  BY DEF LinkKnown, TlKnown
<1>7. Received'
  BY DEF Received, Holding
<1> QED  BY <1>1, <1>2, <1>3, <1>4, <1>5, <1>6, <1>7

\* The response belongs to the call the command was taken in.
LEMMA ProtocolDevice ==
  ASSUME IInv, Structure, Protocol, DeviceStep
  PROVE  Protocol'
<1> USE TodoIs DEF Protocol
<1>1. /\ app.call \in Nat /\ dev \in Device /\ dev.job /\ todo = Pal
      /\ dl.state # "idle" /\ tl.state \in {"tx", "rx"}
      /\ UNCHANGED <<todo, pl, timer, lost, unsynced, dl, resyncs, tl, app>> /\ Ran(dev, dev')
  BY WhileRun
<1>2. PICK x \in Device :
         /\ x.rx = dev.rx /\ x.tx = dev.tx /\ x.sent = dev.sent /\ ~x.job /\ x.call = dev.call
         /\ x.runs = dev.runs /\ x.garbled = dev.garbled /\ x.all = x.resp /\ Len(x.resp) > 0
         /\ \A i \in 1..Len(x.resp) : x.resp[i].pctr \in Chaining /\ x.resp[i].call = dev.call
                                      /\ (Last(x.resp[i]) <=> i = Len(x.resp))
         /\ Offered(x, dev')
  BY <1>1 DEF Ran
<1>3. /\ dev'.rx = dev.rx /\ ~dev'.job /\ dev'.all = x.resp /\ dev'.runs = dev.runs
      /\ dev'.garbled = dev.garbled
      /\ \/ dev'.tx = dev.tx /\ dev'.sent = dev.sent /\ dev'.resp = x.resp
         \/ /\ dev.sent = NoFrame /\ dev'.tx = Succ(dev.tx) /\ dev'.sent # NoFrame
            /\ dev'.sent.body = x.resp[1] /\ dev'.resp = Tail(x.resp)
  BY <1>2 DEF Offered
<1>4. (InStep' <=> InStep) /\ (AtRest' <=> AtRest) /\ (AtRest => InStep)
  BY <1>1 DEF InStep, AtRest, Pending, Unwritten
<1>5. Len(x.resp) \in Nat /\ x.resp # <<>> /\ x.resp \in Seq(Bodies(app.call)) /\ 1 \in 1..Len(x.resp)
  BY <1>2 DEF Device, Devices
<1>6. \/ dev'.resp = x.resp
      \/ /\ Len(dev'.resp) = Len(x.resp) - 1
         /\ \A i \in 1..Len(dev'.resp) : dev'.resp[i] = x.resp[i + 1] /\ i + 1 \in 1..Len(x.resp)
  <2>1. CASE dev'.resp = Tail(x.resp)
    <3>1. /\ Len(dev'.resp) = Len(x.resp) - 1
          /\ \A i \in 1..Len(dev'.resp) : dev'.resp[i] = x.resp[i + 1]
      BY <1>5, <2>1, HeadTailProperties
    <3>2. \A i \in 1..Len(dev'.resp) : i + 1 \in 1..Len(x.resp)
      BY <1>5, <3>1
    <3> QED  BY <3>1, <3>2
  <2> QED  BY <1>3, <2>1
<1>7. Numbers'
  BY <1>1, <1>3, <1>4 DEF Numbers
<1>8. Owned'
  <2>1. InStep => AllOwn(x.resp)
    BY <1>1, <1>2 DEF Owned, AllOwn, Own
  <2>2. InStep => AllOwn(dev'.resp)
    BY <1>6, <2>1 DEF AllOwn
  <2>3. AtRest /\ dev'.sent # NoFrame /\ dl.rx # dev'.tx => Own(dev'.sent.body)
    BY <1>3, <1>4, <1>5, <2>1 DEF Owned, AllOwn
  <2>4. /\ (\A b : Own(b) => Own(b)')
        /\ (AllOwn(dev'.resp) => AllOwn(dev.resp)') /\ (AllOwn(dev'.all) => AllOwn(dev.all)')
    BY <1>1 DEF AllOwn, Own
  <2> QED  BY <1>1, <1>3, <1>4, <2>1, <2>2, <2>3, <2>4 DEF Owned
<1>9. ~Clean /\ (Regular' <=> Regular)
  BY <1>1, <1>3 DEF Clean, Regular
<1>10. ASSUME Regular, AtRest
       PROVE  /\ dev'.rx = dl.tx /\ ~(tl.offset < app.frags) /\ dev.tx = dl.rx
              /\ \A i \in 1..Len(dev'.resp) : Last(dev'.resp[i]) => i = Len(dev'.resp)
              /\ Last(x.resp[1]) /\ dev'.resp = Tail(x.resp) => dev'.resp = <<>>
  <2>1. dev.rx = dl.tx /\ ~(tl.offset < app.frags)
    BY <1>9, <1>10 DEF Cleaned
  <2>2. dev.tx = dl.rx
    BY <1>1, <1>10 DEF Cleaned, Numbers
  <2>3. \A i \in 1..Len(dev'.resp) : Last(dev'.resp[i]) => i = Len(dev'.resp)
    <3>1. CASE dev'.resp = x.resp
      BY <1>2, <3>1
    <3>2. CASE /\ Len(dev'.resp) = Len(x.resp) - 1
               /\ \A i \in 1..Len(dev'.resp) : dev'.resp[i] = x.resp[i + 1] /\ i + 1 \in 1..Len(x.resp)
      <4> TAKE i \in 1..Len(dev'.resp)
      <4>1. Last(dev'.resp[i]) => i + 1 = Len(x.resp)
        BY <1>2, <3>2
      <4> QED  BY <1>5, <3>2, <4>1
    <3> QED  BY <1>6, <3>1, <3>2
  <2>4. Last(x.resp[1]) /\ dev'.resp = Tail(x.resp) => dev'.resp = <<>>
    <3>1. Last(x.resp[1]) => Len(x.resp) = 1
      BY <1>2, <1>5
    <3>2. /\ Len(Tail(x.resp)) = Len(x.resp) - 1 /\ Tail(x.resp) \in Seq(Bodies(app.call))
      BY <1>5, HeadTailProperties
    <3>3. Len(x.resp) = 1 => Len(Tail(x.resp)) = 0
      BY <3>2
    <3>4. Len(Tail(x.resp)) = 0 => Tail(x.resp) = <<>>
      <4>1. \A s \in Seq(Bodies(app.call)) : Len(s) = 0 => s = <<>>
        OBVIOUS
      <4> QED  BY <3>2, <4>1
    <3> QED  BY <3>1, <3>3, <3>4
  <2> QED  BY <1>3, <2>1, <2>2, <2>3, <2>4
<1>11. Cleaned'
  BY <1>1, <1>3, <1>4, <1>9, <1>10 DEF Cleaned
<1>12. Runs'
  <2>1. CanRun' <=> CanRun
    BY <1>1, <1>3 DEF CanRun
  <2> QED  BY <1>1, <1>3, <2>1 DEF Runs
<1>13. Delivered'
  BY <1>1, <1>4 DEF Delivered
<1> QED  BY <1>7, <1>8, <1>11, <1>12, <1>13

\* Before the first call there is nothing the protocol is about.
LEMMA UnusedProtocol ==
  ASSUME Typed, BeforeCalls, app.call = 0
  PROVE  Protocol
<1> USE DEF Unused
<1>1. Unused
  BY DEF BeforeCalls
<1>2. dl.rx = 3 /\ dl.tx = 3 /\ ~dl.resynced /\ dl.state = "idle" /\ dl.txbuf = NoBody
  BY <1>1 DEF DlInitial
<1>3. Numbers
  BY <1>1, <1>2 DEF Numbers
<1>4. AllOwn(<<>>)
  BY DEF AllOwn
<1>5. Owned
  BY <1>1, <1>2, <1>4 DEF Owned
<1>6. Delivered
  BY <1>1 DEF Delivered, BeforeCalls
<1>7. Clean
  BY <1>1 DEF Clean
<1>8. Cleaned
  BY <1>1, <1>2, <1>7 DEF Cleaned
<1>9. Runs
  BY <1>1, <1>2 DEF Runs
<1> QED  BY <1>3, <1>5, <1>6, <1>8, <1>9 DEF Protocol

-----------------------------------------------------------------------------
(* The protocol is kept by the data link layer *)

\* What the data link layer may do during a call.
LinkBusy ==
  /\ todo.to = "dl" /\ timer = "none" /\ pl.frame = "ready" /\ dl.state # "idle"
  /\ UNCHANGED <<dev, timer, lost, unsynced, tl, api, app>>
  /\ pl'.frame = "ready" /\ pl'.in = pl.in /\ pl'.cmd = pl.cmd /\ pl'.regact = pl.regact
  /\ dl'.rxonly = dl.rxonly /\ ~dl'.error

\* The numbers stay.
NumbersKept == dl'.tx = dl.tx /\ dl'.rx = dl.rx /\ dl'.resynced = dl.resynced /\ resyncs' = resyncs

\* The layer looks at what it was told ...
Looks ==
  /\ NumbersKept /\ todo' = todo /\ pl'.act = pl.act /\ pl'.out = pl.out
  /\ dl'.txbuf = dl.txbuf /\ dl'.rxbuf = dl.rxbuf
  /\ dl'.state \in {"rx_df", "rx_cf", "nack", "discard", "resend", "error"}
  /\ dl'.state \in {"rx_df", "rx_cf"} => todo.event = "ok" /\ pl.act = "read"
  /\ dl'.state = "rx_df" => todo.frame.kind # "ctrl"
  /\ dl.resynced => dl'.state = "error"

\* ... awaits a frame ...
Awaits ==
  /\ NumbersKept /\ todo' = Pl /\ pl'.act = "read" /\ pl'.out = pl.out /\ ~dl.resynced
  /\ dl'.txbuf = dl.txbuf /\ dl'.rxbuf = dl.rxbuf /\ dl'.state = "rx"

\* ... answers with a control frame for the frame taken before, or none ...
Acks ==
  /\ NumbersKept /\ todo' = Pl /\ pl'.act = "write" /\ ~dl.resynced
  /\ dl'.txbuf = CrcBody /\ dl'.rxbuf = dl.rxbuf
  /\ \/ dl'.state = "discard" /\ pl'.out = Frame("ctrl", "ack", 0, dl.rx, NoBody)
     \/ dl'.state = "tx" /\ pl'.out = Frame("ctrl", "nack", 0, Succ(dl.rx), NoBody)

\* ... takes a fragment of the response ...
Accepts ==
  /\ dl.state = "rx_df"
  /\ dl'.tx = dl.tx /\ dl'.rx = Succ(dl.rx) /\ ~dl.resynced /\ dl'.resynced = FALSE /\ resyncs' = resyncs
  /\ todo' = Pl /\ pl'.act = "write" /\ dl'.txbuf = CrcBody /\ dl'.state = "ack"
  /\ pl'.out = Frame("ctrl", "ack", 0, dl'.rx, NoBody)
  /\ dl'.rxbuf = todo.frame.body /\ todo.frame.fr = Succ(dl.rx) /\ todo.frame.ack = dl.tx
  /\ todo.frame.good /\ todo.frame.seq # "resync" /\ todo.frame.seq # "nack"

\* ... re-syncs ...
Resyncs ==
  /\ dl'.tx = 3 /\ dl'.rx = 3 /\ dl'.resynced = TRUE /\ resyncs' = resyncs + (IF resyncs < 3 THEN 1 ELSE 0)
  /\ todo' = Pl /\ pl'.act = "write" /\ dl'.txbuf = dl.txbuf /\ dl'.rxbuf = dl.rxbuf
  /\ dl'.state \in {"resend", "error"} /\ pl'.out = Frame("ctrl", "resync", 0, 0, NoBody)

\* ... sends its fragment again, under a new number after a re-sync ...
Resends ==
  /\ dl'.tx = (IF dl.resynced THEN Succ(dl.tx) ELSE dl.tx) /\ dl'.rx = dl.rx /\ dl'.resynced = FALSE
  /\ resyncs' = resyncs /\ todo' = Pl /\ pl'.act = "write"
  /\ dl'.txbuf = dl.txbuf /\ dl'.rxbuf = dl.rxbuf /\ dl'.state = "tx"
  /\ pl'.out = Frame("data", "ack", dl'.tx, dl.rx, dl.txbuf)

\* ... or tells the transport layer.
Tops ==
  /\ NumbersKept /\ pl'.act = pl.act /\ pl'.out = pl.out
  /\ dl'.txbuf = dl.txbuf /\ dl'.rxbuf = dl.rxbuf /\ dl'.state = "idle"
  /\ \/ /\ dl.state = "rx_cf" /\ ~dl.rxonly /\ todo' = Tl({"tx"}, NoBody)
        /\ todo.frame.good /\ todo.frame.ack = dl.tx /\ todo.frame.seq \notin {"resync", "nack"}
     \/ dl.state = "ack" /\ todo' = Tl(IF dl.rxonly THEN {"rx"} ELSE {"tx", "rx"}, dl.rxbuf)
     \/ dl.resynced /\ todo' = Tl({"error"}, NoBody)

\* A frame that is built is handed on.
LEMMA TransmitIs ==
  ASSUME Fields, pl.frame = "ready", NEW f, Transmit(f)
  PROVE  /\ todo' = Pl /\ pl'.act = "write" /\ pl'.out = f
         /\ pl'.frame = pl.frame /\ pl'.in = pl.in /\ pl'.cmd = pl.cmd /\ pl'.regact = pl.regact
<1>1. todo' = Pl /\ pl' = [pl EXCEPT !.act = "write", !.out = f]
  BY DEF Transmit, PlAccepts
<1> QED  BY <1>1, PlFields

\* A frame that is awaited.
LEMMA AwaitIs ==
  ASSUME Fields, pl.frame = "ready", NEW d, StartReceive(d)
  PROVE  /\ todo' = Pl /\ pl'.act = "read" /\ pl'.out = pl.out /\ dl' = d
         /\ pl'.frame = pl.frame /\ pl'.in = pl.in /\ pl'.cmd = pl.cmd /\ pl'.regact = pl.regact
<1>1. /\ todo' = Pl /\ dl' = d
      /\ \E n : pl' = [pl EXCEPT !.act = "read", !.polls = n]
  BY DEF StartReceive, PlAccepts
<1> QED  BY <1>1, PlFields

\* The fields of the layer that most steps leave alone.
DlLike(d) ==
  /\ d.tx = dl.tx /\ d.rx = dl.rx /\ d.resynced = dl.resynced /\ d.error = dl.error
  /\ d.rxonly = dl.rxonly /\ d.txbuf = dl.txbuf /\ d.rxbuf = dl.rxbuf

\* They stay when the state and the count of retransmissions change.
LEMMA DlStates ==
  ASSUME Fields, NEW s, NEW n
  PROVE  /\ DlLike([dl EXCEPT !.state = s]) /\ [dl EXCEPT !.state = s].state = s
         /\ DlLike([dl EXCEPT !.retrans = n, !.state = s])
         /\ [dl EXCEPT !.retrans = n, !.state = s].state = s
         /\ DOMAIN [dl EXCEPT !.state = s] = DOMAIN dl
         /\ DOMAIN [dl EXCEPT !.retrans = n, !.state = s] = DOMAIN dl
BY PlFields DEF DlLike

\* A control frame, a re-sync and a data frame.
LEMMA ControlIs ==
  ASSUME Fields, pl.frame = "ready", NEW d, DOMAIN d = DOMAIN dl, NEW s, SendControl(d, s)
  PROVE  /\ dl'.txbuf = CrcBody /\ dl'.state = d.state /\ dl'.tx = d.tx /\ dl'.rx = d.rx
         /\ dl'.resynced = d.resynced /\ dl'.error = d.error /\ dl'.rxonly = d.rxonly
         /\ dl'.rxbuf = d.rxbuf
         /\ todo' = Pl /\ pl'.act = "write"
         /\ pl'.out = Frame("ctrl", s, 0, IF s = "nack" THEN Succ(d.rx) ELSE d.rx, NoBody)
         /\ pl'.frame = pl.frame /\ pl'.in = pl.in /\ pl'.cmd = pl.cmd /\ pl'.regact = pl.regact
<1>1. /\ dl' = [d EXCEPT !.txbuf = CrcBody]
      /\ Transmit(Frame("ctrl", s, 0, IF s = "nack" THEN Succ(d.rx) ELSE d.rx, NoBody))
  BY DEF SendControl
<1>2. /\ dl'.txbuf = CrcBody /\ dl'.state = d.state /\ dl'.tx = d.tx /\ dl'.rx = d.rx
      /\ dl'.resynced = d.resynced /\ dl'.error = d.error /\ dl'.rxonly = d.rxonly
      /\ dl'.rxbuf = d.rxbuf
  BY <1>1, PlFields
<1> QED  BY <1>1, <1>2, TransmitIs

\* A re-sync puts the numbers back and is counted.
LEMMA ResyncIs ==
  ASSUME Fields, pl.frame = "ready", NEW s, ~dl.error, SendResync(dl, s)
  PROVE  /\ dl'.tx = 3 /\ dl'.rx = 3 /\ dl'.resynced = TRUE /\ dl'.state = s /\ ~dl'.error
         /\ dl'.rxonly = dl.rxonly /\ dl'.txbuf = dl.txbuf /\ dl'.rxbuf = dl.rxbuf
         /\ resyncs' = resyncs + (IF resyncs < 3 THEN 1 ELSE 0)
         /\ todo' = Pl /\ pl'.act = "write" /\ pl'.out = Frame("ctrl", "resync", 0, 0, NoBody)
         /\ pl'.frame = pl.frame /\ pl'.in = pl.in /\ pl'.cmd = pl.cmd /\ pl'.regact = pl.regact
<1>1. /\ \E x, y : (~x) /\ dl' = [dl EXCEPT !.tx = 3, !.rx = 3, !.resynced = TRUE, !.state = s,
                                            !.error = x, !.retrans = y]
      /\ resyncs' = resyncs + (IF resyncs < 3 THEN 1 ELSE 0)
      /\ Transmit(Frame("ctrl", "resync", 0, 0, NoBody))
  BY DEF SendResync
<1>2. /\ dl'.tx = 3 /\ dl'.rx = 3 /\ dl'.resynced = TRUE /\ dl'.state = s /\ ~dl'.error
      /\ dl'.rxonly = dl.rxonly /\ dl'.txbuf = dl.txbuf /\ dl'.rxbuf = dl.rxbuf
  BY <1>1, PlFields
<1> QED  BY <1>1, <1>2, TransmitIs

\* A fragment is sent again under its number, or under a new one after a re-sync.
LEMMA AgainIs ==
  ASSUME Fields, pl.frame = "ready", NEW d, DOMAIN d = DOMAIN dl, SendData(d, TRUE)
  PROVE  /\ dl'.tx = (IF d.resynced THEN Succ(d.tx) ELSE d.tx) /\ dl'.rx = d.rx /\ dl'.resynced = FALSE
         /\ dl'.state = d.state /\ dl'.error = d.error /\ dl'.rxonly = d.rxonly
         /\ dl'.txbuf = d.txbuf /\ dl'.rxbuf = d.rxbuf
         /\ todo' = Pl /\ pl'.act = "write" /\ pl'.out = Frame("data", "ack", dl'.tx, d.rx, d.txbuf)
         /\ pl'.frame = pl.frame /\ pl'.in = pl.in /\ pl'.cmd = pl.cmd /\ pl'.regact = pl.regact
<1> DEFINE n == IF d.resynced THEN Succ(d.tx) ELSE d.tx
<1>1. /\ dl' = [d EXCEPT !.tx = n, !.resynced = FALSE]
      /\ Transmit(Frame("data", "ack", n, d.rx, d.txbuf))
  BY DEF SendData
<1> HIDE DEF n
<1>2. /\ dl'.tx = n /\ dl'.rx = d.rx /\ dl'.resynced = FALSE
      /\ dl'.state = d.state /\ dl'.error = d.error /\ dl'.rxonly = d.rxonly
      /\ dl'.txbuf = d.txbuf /\ dl'.rxbuf = d.rxbuf
  BY <1>1, PlFields
<1>3. /\ todo' = Pl /\ pl'.act = "write" /\ pl'.out = Frame("data", "ack", n, d.rx, d.txbuf)
      /\ pl'.frame = pl.frame /\ pl'.in = pl.in /\ pl'.cmd = pl.cmd /\ pl'.regact = pl.regact
  BY <1>1, TransmitIs
<1> QED  BY <1>2, <1>3 DEF n

\* These are all.
LinkDoes == Looks \/ Awaits \/ Acks \/ Accepts \/ Resyncs \/ Resends \/ Tops

\* A good frame is not a re-sync of the device, which never sends one.
LEMMA LinkIs ==
  ASSUME IInv, Structure, LinkStep, app.call > 0
  PROVE  LinkBusy /\ LinkDoes
<1> USE PlFields, TodoIs DEF IInv
<1>a. /\ todo.to = "dl" /\ UNCHANGED <<dev, timer, lost, unsynced, tl, api, app>> /\ timer = "none"
  <2>1. todo.to = "dl" /\ UNCHANGED <<dev, timer, lost, unsynced, tl, api, app>>
    BY DEF LinkStep, DlIdle, DlSent, DlReceived, DlDataFrame, DlControlFrame, DlDiscard, DlAck,
           DlNack, DlResend, DlError, InDl, LinkKeeps, Stays
  <2> QED  BY <2>1 DEF UnderWay
<1>b. dl.state # "idle" /\ ~dl.error /\ LinkKnown /\ Received
  BY <1>a DEF Structure, LinkKnown
<1>c. pl.frame = "ready"
  BY <1>a, <1>b, LinkCalled
<1>d. PlAccepts
  BY <1>c DEF PlAccepts
<1>e. todo.event = "error" => pl.act = "read"
  BY <1>a, <1>b DEF LinkKnown
<1> DEFINE Held == /\ pl'.frame = pl.frame /\ pl'.in = pl.in /\ pl'.cmd = pl.cmd
                   /\ pl'.regact = pl.regact /\ dl'.rxonly = dl.rxonly /\ ~dl'.error
<1>f. Held => LinkBusy
  BY <1>a, <1>b, <1>c DEF LinkBusy
<1>g. ASSUME NEW s, Loop([dl EXCEPT !.state = s]), NoResync
      PROVE  /\ Held /\ NumbersKept /\ todo' = todo /\ pl'.act = pl.act /\ pl'.out = pl.out
             /\ dl'.txbuf = dl.txbuf /\ dl'.rxbuf = dl.rxbuf /\ dl'.state = s
  BY <1>b, <1>g, DlStates DEF Loop, NoResync, NumbersKept, DlLike
<1> USE DEF NoResync
<1>1. CASE DlSent
  <2>1. dl.state = "tx"
    BY <1>1 DEF DlSent, InDl
  <2>2. pl.act = "write" /\ ~dl.resynced
    BY <1>b, <2>1 DEF LinkKnown
  <2>3. todo.event # "error"
    BY <1>e, <2>2
  <2>4. StartReceive([dl EXCEPT !.state = "rx"]) /\ resyncs' = resyncs
    BY <1>1, <1>d, <2>3 DEF DlSent
  <2>5. Held /\ Awaits
    BY <1>b, <1>c, <2>2, <2>4, AwaitIs, DlStates DEF Awaits, NumbersKept, DlLike
  <2> QED  BY <1>f, <2>5 DEF LinkDoes
<1>2. CASE DlReceived
  <2>1. dl.state = "rx" /\ todo.event # "fatal" /\ resyncs' = resyncs
    BY <1>2, <1>b DEF DlReceived, InDl
  <2>2. pl.act = "read" /\ ~dl.resynced /\ (todo.event # "error" => todo.event = "ok")
    BY <1>a, <1>b, <2>1 DEF LinkKnown
  <2>3. PICK s : /\ s = CASE todo.event = "error" -> "resend"
                          [] todo.event # "error" /\ todo.frame.kind = "short" -> "nack"
                          [] todo.event # "error" /\ todo.frame.kind = "ctrl" -> "rx_cf"
                          [] OTHER -> "rx_df"
                 /\ Loop([dl EXCEPT !.state = s])
    BY <1>2 DEF DlReceived
  <2>4. /\ s \in {"resend", "nack", "rx_cf", "rx_df"}
        /\ s \in {"rx_cf", "rx_df"} => todo.event # "error"
        /\ s = "rx_df" => todo.frame.kind # "ctrl"
    BY <2>3
  <2>5. Held /\ Looks
    BY <1>g, <2>1, <2>2, <2>3, <2>4 DEF Looks
  <2> QED  BY <1>f, <2>5 DEF LinkDoes
<1>3. CASE DlDataFrame
  <2>1. dl.state = "rx_df" /\ resyncs' = resyncs
    BY <1>3 DEF DlDataFrame, InDl
  <2>2. ~dl.resynced
    BY <1>b, <2>1 DEF LinkKnown
  <2>3. CASE \E s \in {"nack", "discard", "resend"} : Loop([dl EXCEPT !.state = s])
    <3>1. PICK s \in {"nack", "discard", "resend"} : Loop([dl EXCEPT !.state = s])
      BY <2>3
    <3>2. Held /\ Looks
      BY <1>g, <2>1, <2>2, <3>1 DEF Looks
    <3> QED  BY <1>f, <3>2 DEF LinkDoes
  <2>4. CASE SendControl([dl EXCEPT !.state = "discard"], "ack")
    <3>1. /\ dl'.txbuf = CrcBody /\ dl'.state = "discard" /\ dl'.tx = dl.tx /\ dl'.rx = dl.rx
          /\ dl'.resynced = dl.resynced /\ dl'.error = dl.error /\ dl'.rxonly = dl.rxonly
          /\ dl'.rxbuf = dl.rxbuf
          /\ todo' = Pl /\ pl'.act = "write"
          /\ pl'.out = Frame("ctrl", "ack", 0, dl.rx, NoBody)
          /\ pl'.frame = pl.frame /\ pl'.in = pl.in /\ pl'.cmd = pl.cmd /\ pl'.regact = pl.regact
      BY <1>c, <2>4, ControlIs, DlStates DEF DlLike
    <3>2. Held /\ Acks
      BY <1>b, <2>1, <2>2, <3>1 DEF Acks, NumbersKept
    <3> QED  BY <1>f, <3>2 DEF LinkDoes
  <2>5. CASE /\ SendControl([dl EXCEPT !.rx = Succ(dl.rx), !.rxbuf = todo.frame.body,
                                       !.retrans = 0, !.state = "ack"], "ack")
             /\ todo.frame.good /\ todo.frame.seq # "resync" /\ todo.frame.fr = Succ(dl.rx)
             /\ todo.frame.ack = dl.tx /\ todo.frame.seq # "nack"
    <3> DEFINE d == [dl EXCEPT !.rx = Succ(dl.rx), !.rxbuf = todo.frame.body,
                               !.retrans = 0, !.state = "ack"]
    <3>1. /\ DOMAIN d = DOMAIN dl /\ d.state = "ack" /\ d.tx = dl.tx /\ d.rx = Succ(dl.rx)
          /\ d.resynced = dl.resynced /\ d.error = dl.error /\ d.rxonly = dl.rxonly
          /\ d.rxbuf = todo.frame.body
      OBVIOUS
    <3>2. SendControl(d, "ack")
      BY <2>5
    <3> HIDE DEF d
    <3>3. /\ dl'.txbuf = CrcBody /\ dl'.state = d.state /\ dl'.tx = d.tx /\ dl'.rx = d.rx
          /\ dl'.resynced = d.resynced /\ dl'.error = d.error /\ dl'.rxonly = d.rxonly
          /\ dl'.rxbuf = d.rxbuf
          /\ todo' = Pl /\ pl'.act = "write"
          /\ pl'.out = Frame("ctrl", "ack", 0, d.rx, NoBody)
          /\ pl'.frame = pl.frame /\ pl'.in = pl.in /\ pl'.cmd = pl.cmd /\ pl'.regact = pl.regact
      BY <1>c, <3>1, <3>2, ControlIs
    <3>0. dl.resynced = FALSE
      BY <2>2 DEF Structure, Typed
    <3>4. Held /\ Accepts
      BY <3>0, <1>b, <2>1, <2>2, <2>5, <3>1, <3>3 DEF Accepts
    <3> QED  BY <1>f, <3>4 DEF LinkDoes
  <2> QED  BY <1>3, <2>3, <2>4, <2>5 DEF DlDataFrame
<1>4. CASE DlControlFrame
  <2>1. dl.state = "rx_cf"
    BY <1>4 DEF DlControlFrame, InDl
  <2>2. ~dl.resynced /\ pl.act = "read" /\ todo.event = "ok"
    BY <1>b, <2>1 DEF LinkKnown
  <2>3. From(dev, todo.frame)
    BY <1>a, <1>b, <2>2 DEF Received
  <2>4. CASE \E s \in {"discard", "resend"} : Loop([dl EXCEPT !.state = s]) /\ resyncs' = resyncs
    <3>1. PICK s \in {"discard", "resend"} : Loop([dl EXCEPT !.state = s]) /\ resyncs' = resyncs
      BY <2>4
    <3>2. Held /\ Looks
      BY <1>g, <2>2, <3>1 DEF Looks
    <3> QED  BY <1>f, <3>2 DEF LinkDoes
  <2>5. CASE /\ Report([dl EXCEPT !.state = "idle"], {"tx"}, NoBody) /\ resyncs' = resyncs
             /\ ~(dl.rxonly # (todo.frame.seq = "resync")) /\ todo.frame.good
             /\ todo.frame.seq # "resync" /\ todo.frame.ack = dl.tx /\ todo.frame.seq # "nack"
    <3>1. ~dl.rxonly
      BY <2>5
    <3>2. /\ dl' = [dl EXCEPT !.state = "idle"] /\ pl' = pl /\ todo' = Tl({"tx"}, NoBody)
      BY <2>5 DEF Report
    <3>3. Held /\ Tops
      BY <1>b, <2>1, <2>5, <3>1, <3>2, DlStates DEF Tops, NumbersKept, DlLike
    <3> QED  BY <1>f, <3>3 DEF LinkDoes
  <2> QED  BY <1>4, <2>3, <2>4, <2>5 DEF DlControlFrame, From
<1>5. CASE DlDiscard
  <2>1. dl.state = "discard"
    BY <1>5 DEF DlDiscard, InDl
  <2>2. ~dl.resynced
    BY <1>b, <2>1 DEF LinkKnown
  <2>3. StartReceive([dl EXCEPT !.state = "rx"]) /\ resyncs' = resyncs
    BY <1>5 DEF DlDiscard
  <2>4. Held /\ Awaits
    BY <1>b, <1>c, <2>2, <2>3, AwaitIs, DlStates DEF Awaits, NumbersKept, DlLike
  <2> QED  BY <1>f, <2>4 DEF LinkDoes
<1>6. CASE DlAck
  <2>1. dl.state = "ack"
    BY <1>6 DEF DlAck, InDl
  <2>2. pl.act = "write" /\ ~dl.resynced
    BY <1>b, <2>1 DEF LinkKnown
  <2>3. /\ Report([dl EXCEPT !.state = "idle"], IF dl.rxonly THEN {"rx"} ELSE {"tx", "rx"}, dl.rxbuf)
        /\ resyncs' = resyncs
    BY <1>6, <1>e, <2>2 DEF DlAck
  <2>4. /\ dl' = [dl EXCEPT !.state = "idle"] /\ pl' = pl
        /\ todo' = Tl(IF dl.rxonly THEN {"rx"} ELSE {"tx", "rx"}, dl.rxbuf)
    BY <2>3 DEF Report
  <2>5. Held /\ Tops
    BY <1>b, <2>1, <2>3, <2>4, DlStates DEF Tops, NumbersKept, DlLike
  <2> QED  BY <1>f, <2>5 DEF LinkDoes
<1>7. CASE DlNack
  <2>1. dl.state = "nack"
    BY <1>7 DEF DlNack, InDl
  <2>2. ~dl.resynced
    BY <1>b, <2>1 DEF LinkKnown
  <2>3. SendControl([dl EXCEPT !.state = "tx"], "nack") /\ resyncs' = resyncs
    BY <1>7 DEF DlNack
  <2>4. /\ dl'.txbuf = CrcBody /\ dl'.state = "tx" /\ dl'.tx = dl.tx /\ dl'.rx = dl.rx
        /\ dl'.resynced = dl.resynced /\ dl'.error = dl.error /\ dl'.rxonly = dl.rxonly
        /\ dl'.rxbuf = dl.rxbuf
        /\ todo' = Pl /\ pl'.act = "write"
        /\ pl'.out = Frame("ctrl", "nack", 0, Succ(dl.rx), NoBody)
        /\ pl'.frame = pl.frame /\ pl'.in = pl.in /\ pl'.cmd = pl.cmd /\ pl'.regact = pl.regact
    BY <1>c, <2>3, ControlIs, DlStates DEF DlLike
  <2>5. Held /\ Acks
    BY <1>b, <2>2, <2>3, <2>4 DEF Acks, NumbersKept
  <2> QED  BY <1>f, <2>5 DEF LinkDoes
<1>8. CASE DlResend
  <2>1. CASE Loop([dl EXCEPT !.state = "error"]) /\ resyncs' = resyncs
    <3>1. Held /\ Looks
      BY <1>g, <2>1 DEF Looks
    <3> QED  BY <1>f, <3>1 DEF LinkDoes
  <2>2. CASE SendResync(dl, "resend")
    <3>1. Held /\ Resyncs
      BY <1>b, <1>c, <2>2, ResyncIs DEF Resyncs
    <3> QED  BY <1>f, <3>1 DEF LinkDoes
  <2>3. CASE \E n : SendData([dl EXCEPT !.retrans = n, !.state = "tx"], TRUE) /\ resyncs' = resyncs
    <3>1. PICK n : SendData([dl EXCEPT !.retrans = n, !.state = "tx"], TRUE) /\ resyncs' = resyncs
      BY <2>3
    <3> DEFINE d == [dl EXCEPT !.retrans = n, !.state = "tx"]
    <3>2. DOMAIN d = DOMAIN dl /\ DlLike(d) /\ d.state = "tx"
      BY DlStates
    <3>3. SendData(d, TRUE)
      BY <3>1
    <3> HIDE DEF d
    <3>4. /\ dl'.tx = (IF d.resynced THEN Succ(d.tx) ELSE d.tx) /\ dl'.rx = d.rx /\ dl'.resynced = FALSE
          /\ dl'.state = d.state /\ dl'.error = d.error /\ dl'.rxonly = d.rxonly
          /\ dl'.txbuf = d.txbuf /\ dl'.rxbuf = d.rxbuf
          /\ todo' = Pl /\ pl'.act = "write" /\ pl'.out = Frame("data", "ack", dl'.tx, d.rx, d.txbuf)
          /\ pl'.frame = pl.frame /\ pl'.in = pl.in /\ pl'.cmd = pl.cmd /\ pl'.regact = pl.regact
      BY <1>c, <3>2, <3>3, AgainIs
    <3>5. Held /\ Resends
      BY <1>b, <3>1, <3>2, <3>4 DEF Resends, DlLike
    <3> QED  BY <1>f, <3>5 DEF LinkDoes
  <2> QED  BY <1>8, <1>d, <2>1, <2>2, <2>3 DEF DlResend
<1>9. CASE DlError
  <2>1. CASE SendResync(dl, "error")
    <3>1. Held /\ Resyncs
      BY <1>b, <1>c, <2>1, ResyncIs DEF Resyncs
    <3> QED  BY <1>f, <3>1 DEF LinkDoes
  <2>2. CASE Report([dl EXCEPT !.state = "idle"], {"error"}, NoBody) /\ resyncs' = resyncs /\ dl.resynced
    <3>1. dl' = [dl EXCEPT !.state = "idle"] /\ pl' = pl /\ todo' = Tl({"error"}, NoBody)
      BY <2>2 DEF Report
    <3>2. Held /\ Tops
      BY <1>b, <2>2, <3>1, DlStates DEF Tops, NumbersKept, DlLike
    <3> QED  BY <1>f, <3>2 DEF LinkDoes
  <2> QED  BY <1>9, <1>b, <2>1, <2>2 DEF DlError
<1>10. ~DlIdle
  BY <1>b DEF DlIdle, InDl
<1> QED  BY <1>1, <1>2, <1>3, <1>4, <1>5, <1>6, <1>7, <1>8, <1>9, <1>10 DEF LinkStep

\* The layer builds frames of the call, and numbers them on the circle.
LEMMA TypedLink ==
  ASSUME Typed, BeforeCalls, app.call > 0, LinkBusy, LinkDoes
  PROVE  Typed'
<1> USE TodoIs
<1>1. /\ app.call \in Nat /\ dl.tx \in Nr /\ dl.rx \in Nr /\ 0 \in Nr /\ 3 \in Nr
      /\ dl.txbuf \in Bodies(app.call) /\ NoBody \in Bodies(app.call) /\ CrcBody \in Bodies(app.call)
      /\ dl.rxbuf \in Bodies(app.call) /\ pl.out \in Frames(app.call)
      /\ todo.frame \in Frames(app.call) /\ todo.frame.body \in Bodies(app.call)
      /\ Succ(dl.tx) \in Nr /\ Succ(dl.rx) \in Nr
  <2>1. app.call \in Nat /\ dl.tx \in Nr /\ dl.rx \in Nr /\ todo.frame \in Frames(app.call)
    BY DEF Typed, LinkBusy
  <2>2. todo.frame.body \in Bodies(app.call)
    BY <2>1 DEF Frames
  <2> QED  BY <2>1, <2>2, Circle, NoBodyTyped DEF Typed, Nr
<1>f. /\ Frame("ctrl", "ack", 0, dl.rx, NoBody) \in Frames(app.call)
      /\ Frame("ctrl", "ack", 0, Succ(dl.rx), NoBody) \in Frames(app.call)
      /\ Frame("ctrl", "nack", 0, Succ(dl.rx), NoBody) \in Frames(app.call)
      /\ Frame("ctrl", "resync", 0, 0, NoBody) \in Frames(app.call)
      /\ Frame("data", "ack", dl.tx, dl.rx, dl.txbuf) \in Frames(app.call)
      /\ Frame("data", "ack", Succ(dl.tx), dl.rx, dl.txbuf) \in Frames(app.call)
  BY <1>1 DEF Frame, Frames
<1>2. ASSUME dl'.tx \in Nr, dl'.rx \in Nr, dl'.resynced \in BOOLEAN, dl'.txbuf \in Bodies(app.call),
             dl'.rxbuf \in Bodies(app.call), resyncs' \in 0..3, pl'.out \in Frames(app.call),
             todo'.to = "dl" => todo' = todo, todo'.to = "tl" => todo'.body \in Bodies(app.call)
      PROVE  Typed'
  <2>1. /\ app' = app /\ dev' = dev /\ pl'.in = pl.in /\ dl'.rxonly = dl.rxonly /\ tl' = tl
        /\ unsynced' = unsynced
    BY DEF LinkBusy
  <2> QED  BY <1>2, <2>1 DEF Typed
<1>3. CASE Looks
  <2>1. todo'.to # "tl"
    BY <1>3 DEF Looks, LinkBusy
  <2> QED  BY <1>1, <1>2, <1>3, <2>1 DEF Looks, NumbersKept, Typed
<1>4. CASE Awaits
  BY <1>1, <1>2, <1>4 DEF Awaits, NumbersKept, Typed
<1>5. CASE Acks
  <2>1. pl'.out \in Frames(app.call)
    BY <1>5, <1>f DEF Acks
  <2> QED  BY <1>1, <1>2, <1>5, <2>1 DEF Acks, NumbersKept, Typed
<1>6. CASE Accepts
  <2>1. pl'.out \in Frames(app.call)
    BY <1>6, <1>f DEF Accepts
  <2>2. dl'.resynced \in BOOLEAN /\ dl'.tx \in Nr /\ dl'.rx \in Nr
    BY <1>1, <1>6 DEF Accepts, LinkBusy
  <2> QED  BY <1>1, <1>2, <1>6, <2>1, <2>2 DEF Accepts, Typed
<1>7. CASE Resyncs
  <2>1. pl'.out \in Frames(app.call)
    BY <1>7, <1>f DEF Resyncs
  <2>2. resyncs' \in 0..3
    BY <1>7 DEF Resyncs, Typed
  <2> QED  BY <1>1, <1>2, <1>7, <2>1, <2>2 DEF Resyncs
<1>8. CASE Resends
  <2>1. dl'.tx \in Nr
    BY <1>1, <1>8 DEF Resends
  <2>2. pl'.out \in Frames(app.call)
    BY <1>8, <1>f DEF Resends
  <2> QED  BY <1>1, <1>2, <1>8, <2>1, <2>2 DEF Resends, Typed
<1>9. CASE Tops
  <2>1. todo'.to = "tl" /\ todo'.body \in {NoBody, dl.rxbuf}
    BY <1>9 DEF Tops, Tl
  <2> QED  BY <1>1, <1>2, <1>9, <2>1 DEF Tops, NumbersKept, Typed
<1> QED  BY <1>3, <1>4, <1>5, <1>6, <1>7, <1>8, <1>9 DEF LinkDoes

\* What is accepted is the fragment the device has sent and nobody has taken.
LEMMA AcceptedIs ==
  ASSUME Structure, LinkBusy, Accepts
  PROVE  /\ dev.sent # NoFrame /\ dl.tx = dev.rx /\ dl'.rx = dev.tx /\ dl.rx # dev.tx
         /\ Succ(dl.rx) = dev.tx
         /\ dl'.rxbuf = dev.sent.body /\ dl'.rxbuf.pctr \in Chaining
<1> USE DEF Structure
<1>1. todo.event = "ok" /\ pl.act = "read" /\ todo.frame.kind # "ctrl" /\ todo.to = "dl"
  BY DEF LinkBusy, Accepts, LinkKnown
<1>2. From(dev, todo.frame) /\ DeviceSound(dev)
  BY <1>1 DEF Received
<1>3. /\ todo.frame.kind = "data" /\ todo.frame.ack = dev.rx /\ dev.sent # NoFrame
      /\ todo.frame.fr = dev.tx /\ todo.frame.body = dev.sent.body
  BY <1>1, <1>2 DEF Accepts, From
<1>4. dev.sent.body.pctr \in Chaining
  BY <1>2, <1>3 DEF DeviceSound
<1>5. Succ(dl.rx) # dl.rx
  BY Circle DEF Typed
<1> QED  BY <1>3, <1>4, <1>5 DEF Accepts

\* The rest of Structure: the frame to be sent ...
LEMMA OutLink ==
  ASSUME OutKnown, app.call > 0, LinkBusy, LinkDoes
  PROVE  OutKnown'
<1>1. CASE Looks \/ Tops
  BY <1>1 DEF OutKnown, OutIs, Looks, Tops, NumbersKept, LinkBusy
<1>2. CASE Awaits
  BY <1>2 DEF OutKnown, Awaits
<1>3. CASE Acks
  BY <1>3 DEF OutKnown, OutIs, Acks, NumbersKept
<1>4. CASE Accepts
  BY <1>4 DEF OutKnown, OutIs, Accepts
<1>5. CASE Resyncs
  BY <1>5 DEF OutKnown, OutIs, Resyncs
<1>6. CASE Resends
  BY <1>6 DEF OutKnown, OutIs, Resends
<1> QED  BY <1>1, <1>2, <1>3, <1>4, <1>5, <1>6 DEF LinkDoes

\* ... the state of the layer ...
LEMMA LinkLink ==
  ASSUME Structure, app.call > 0, LinkBusy, LinkDoes
  PROVE  LinkKnown'
<1> USE TodoIs DEF Structure
<1>1. LinkKnown /\ todo.to = "dl" /\ app' = app /\ timer' = "none" /\ ~dl'.error
  BY DEF LinkBusy
<1>2. CASE Looks
  BY <1>1, <1>2 DEF LinkKnown, Looks, NumbersKept
<1>3. CASE Awaits
  BY <1>1, <1>3 DEF LinkKnown, Awaits, NumbersKept
<1>4. CASE Acks
  BY <1>1, <1>4 DEF LinkKnown, Acks, NumbersKept
<1>5. CASE Accepts
  <2>1. dl'.rxbuf # NoBody
    BY <1>5, AcceptedIs DEF NoBody, Body, Chaining
  <2> QED  BY <1>1, <1>5, <2>1 DEF LinkKnown, Accepts
<1>6. CASE Resyncs
  BY <1>1, <1>6 DEF LinkKnown, Resyncs
<1>7. CASE Resends
  BY <1>1, <1>7 DEF LinkKnown, Resends
<1>8. CASE Tops
  <2>1. todo'.to = "tl" /\ dl'.state = "idle"
    BY <1>8 DEF Tops, Tl
  <2>2. dl'.resynced => pl'.act = "write"
    BY <1>1, <1>8 DEF Tops, NumbersKept, LinkKnown
  <2> QED  BY <1>1, <2>1, <2>2 DEF LinkKnown
<1> QED  BY <1>2, <1>3, <1>4, <1>5, <1>6, <1>7, <1>8 DEF LinkDoes

\* ... what the layer above is told ...
LEMMA TlLink ==
  ASSUME Structure, app.call > 0, LinkBusy, LinkDoes
  PROVE  TlKnown'
<1> USE TodoIs DEF Structure
<1>1. /\ TlKnown /\ todo.to = "dl" /\ app' = app /\ tl' = tl /\ dl'.rxonly = dl.rxonly /\ dl.state # "idle"
  BY DEF LinkBusy
<1>2. tl.state \in {"tx", "rx"} /\ (tl.state = "tx" => ~dl.rxonly) /\ (tl.state = "rx" => dl.rxonly)
  BY <1>1 DEF TlKnown
<1>3. todo'.to = "tl" => Fed'
  <2> SUFFICES ASSUME todo'.to = "tl"
               PROVE  Fed'
    OBVIOUS
  <2>1. Tops
    BY <1>1 DEF LinkDoes, Looks, Awaits, Acks, Accepts, Resyncs, Resends
  <2>2. dl'.state = "idle" /\ dl'.resynced = dl.resynced
    BY <2>1 DEF Tops, NumbersKept
  <2>3. CASE dl.state = "rx_cf" /\ ~dl.rxonly /\ todo' = Tl({"tx"}, NoBody)
    <3>1. todo'.events = {"tx"} /\ todo'.body = NoBody
      BY <2>3 DEF Tl
    <3>2. ~dl.resynced
      BY <2>3 DEF LinkKnown
    <3> QED  BY <1>1, <1>2, <2>2, <2>3, <3>1, <3>2 DEF Fed
  <2>4. CASE dl.state = "ack" /\ todo' = Tl(IF dl.rxonly THEN {"rx"} ELSE {"tx", "rx"}, dl.rxbuf)
    <3>1. todo'.events = (IF dl.rxonly THEN {"rx"} ELSE {"tx", "rx"}) /\ todo'.body = dl.rxbuf
      BY <2>4 DEF Tl
    <3>2. ~dl.resynced /\ dl.rxbuf # NoBody
      BY <2>4 DEF LinkKnown
    <3> QED  BY <1>1, <1>2, <2>2, <3>1, <3>2 DEF Fed
  <2>5. CASE dl.resynced /\ todo' = Tl({"error"}, NoBody)
    <3>1. todo'.events = {"error"} /\ todo'.body = NoBody
      BY <2>5 DEF Tl
    <3> QED  BY <1>1, <1>2, <2>2, <2>5, <3>1 DEF Fed
  <2> QED  BY <2>1, <2>3, <2>4, <2>5 DEF Tops
<1> QED  BY <1>1, <1>2, <1>3 DEF TlKnown

\* ... the frames of the device ...
LEMMA ReceivedLink ==
  ASSUME Structure, LinkBusy, LinkDoes
  PROVE  Received'
<1> USE TodoIs DEF Structure
<1>1. dev' = dev /\ DeviceSound(dev) /\ ~Holding'
  BY DEF LinkBusy, Received, Holding
<1>2. todo'.to = "dl" => todo' = todo /\ pl'.act = pl.act
  BY DEF LinkDoes, Looks, Awaits, Acks, Accepts, Resyncs, Resends, Tops, Tl
<1> QED  BY <1>1, <1>2 DEF Received

\* ... and all of it.
LEMMA StructureLink ==
  ASSUME IInv, Structure, LinkStep
  PROVE  Structure'
<1> USE TodoIs DEF Structure
<1>0. app.call \in Nat
  BY DEF Typed
<1>1. CASE app.call > 0
  <2>1. LinkBusy /\ LinkDoes
    BY <1>1, LinkIs
  <2>2. Typed'
    BY <1>1, <2>1, TypedLink
  <2>3. LostEnds'
    BY <2>1 DEF LostEnds, LinkBusy
  <2>4. Registers'
    <3>1. todo' # Pal
      BY <2>1 DEF LinkBusy, LinkDoes, Looks, Awaits, Acks, Accepts, Resyncs, Resends, Tops, Tl
    <3>2. pl'.act \in {"read", "write"}
      BY <2>1 DEF LinkDoes, Looks, Awaits, Acks, Accepts, Resyncs, Resends, Tops, Registers
    <3> QED  BY <2>1, <3>1, <3>2 DEF Registers, LinkBusy
  <2>5. BeforeCalls'
    BY <1>0, <1>1, <2>1 DEF BeforeCalls, LinkBusy
  <2>6. TxKnown'
    BY <2>1 DEF TxKnown, TxIs, LinkBusy, LinkDoes, Looks, Awaits, Acks, Accepts, Resyncs, Resends, Tops
  <2> QED  BY <1>1, <2>1, <2>2, <2>3, <2>4, <2>5, <2>6, OutLink, LinkLink, TlLink, ReceivedLink
<1>2. CASE app.call = 0
  <2>1. Unused /\ dl.state = "idle"
    BY <1>2 DEF BeforeCalls, Unused, DlInitial
  <2>2. DlIdle
    BY <2>1 DEF LinkStep, DlSent, DlReceived, DlDataFrame, DlControlFrame, DlDiscard, DlAck,
           DlNack, DlResend, DlError, InDl
  <2>3. /\ todo.to = "dl" /\ UNCHANGED <<dev, timer, lost, unsynced, tl, api, app, dl, pl, resyncs>>
        /\ \E e \in {"tx", "error"} : todo' = Tl({e}, NoBody)
    BY <2>2 DEF LinkStep, DlIdle, InDl, LinkKeeps, Stays, Report, NoResync
  <2>4. PICK e \in {"tx", "error"} : todo' = Tl({e}, NoBody)
    BY <2>3
  <2>5. todo'.to = "tl" /\ todo'.events = {e} /\ todo'.body = NoBody
    BY <2>4 DEF Tl
  <2>6. todo' # Pal /\ todo' # Pl /\ todo' # Nothing
    BY <2>5
  <2>7. Typed'
    BY <1>0, <2>3, <2>5, NoBodyTyped DEF Typed
  <2>8. LostEnds'
    BY <2>3 DEF LostEnds
  <2>9. Registers'
    BY <2>3, <2>5 DEF Registers, Holding
  <2>10. BeforeCalls'
    BY <2>1, <2>3, <2>5, <2>6 DEF BeforeCalls, Unused
  <2>11. OutKnown' /\ TxKnown'
    BY <1>2, <2>3 DEF OutKnown, TxKnown
  <2>12. LinkKnown'
    <3>1. timer = "none"
      BY <2>3 DEF IInv, UnderWay
    <3> QED  BY <1>2, <2>1, <2>3, <2>5, <3>1 DEF LinkKnown
  <2>13. TlKnown'
    <3>1. dl'.state = "idle" /\ ~dl'.resynced /\ tl'.state = "idle" /\ app'.call = 0
      BY <1>2, <2>1, <2>3 DEF Unused, DlInitial
    <3>2. todo'.events = {e} /\ todo'.body = NoBody /\ ("error" \notin todo'.events => e = "tx")
      BY <2>4, <2>5
    <3>3. ~(app'.call > 0)
      BY <3>1
    <3>4. "error" \notin todo'.events => ("rx" \in todo'.events <=> todo'.body # NoBody)
      BY <3>2
    <3>5. Fed'
      BY <3>1, <3>2, <3>3, <3>4 DEF Fed
    <3> QED  BY <2>1, <2>3, <3>5 DEF TlKnown, Unused
  <2>14. Received'
    BY <2>3, <2>5, <2>6 DEF Received, Holding
  <2> QED  BY <2>7, <2>8, <2>9, <2>10, <2>11, <2>12, <2>13, <2>14
<1> QED  BY <1>0, <1>1, <1>2

\* No re-sync is under way while the data link layer is called.
LEMMA LinkCalm ==
  ASSUME LinkBusy
  PROVE  ~Pending /\ (AtRest <=> InStep) /\ (InStep' <=> InStep)
<1>1. ~Unwritten
  BY TodoIs DEF LinkBusy, Unwritten
<1>2. ~Pending
  BY <1>1 DEF Pending
<1> QED  BY <1>2 DEF AtRest, InStep, LinkBusy

\* No more runs are to come.
LEMMA RunsKept ==
  ASSUME Typed, Runs, CanRun' => CanRun, dev'.runs = dev.runs, resyncs' = resyncs, tl'.cerr = tl.cerr
  PROVE  Runs'
<1>1. resyncs \in 0..3 /\ tl.cerr \in {0, 1} /\ dev.runs \in 0..3
  BY DEF Typed, Devices
<1> QED  BY <1>1 DEF Runs

\* The numbers stay, and the fragment is sent again or overwritten by a checksum.
LEMMA SteadyKeeps ==
  ASSUME Typed, Protocol, LinkBusy, NumbersKept, dl'.txbuf \in {dl.txbuf, CrcBody},
         dl'.state \notin {"idle", "ack"}, todo'.to \notin {"tl", "api"}
  PROVE  Protocol'
<1> USE DEF Protocol
<1>1. /\ dev' = dev /\ tl' = tl /\ app' = app /\ (AtRest' => AtRest) /\ (InStep' <=> InStep)
      /\ dl'.tx = dl.tx /\ dl'.rx = dl.rx /\ dl'.resynced = dl.resynced /\ resyncs' = resyncs
  <2>1. AtRest' => InStep'
    BY DEF AtRest
  <2> QED  BY <2>1, LinkCalm DEF LinkBusy, NumbersKept
<1>2. Numbers'
  BY <1>1 DEF Numbers
<1>3. Owned'
  BY <1>1 DEF Owned, Own, AllOwn
<1>4. Delivered'
  BY <1>1 DEF Delivered
<1>5. (Clean => Clean') /\ (Regular' <=> Regular)
  BY <1>1 DEF Clean, Regular
<1>6. Cleaned'
  BY <1>1, <1>5 DEF Cleaned
<1>7. CanRun' => CanRun
  BY <1>1 DEF CanRun, Last, CrcBody, Body
<1>8. Runs'
  BY <1>1, <1>7, RunsKept
<1> QED  BY <1>2, <1>3, <1>4, <1>6, <1>8

\* The fragment the device has sent is taken.
LEMMA AcceptKeeps ==
  ASSUME Structure, Protocol, LinkBusy, Accepts
  PROVE  Protocol'
<1> USE DEF Protocol
<1>1. /\ dev' = dev /\ tl' = tl /\ app' = app /\ resyncs' = resyncs /\ (AtRest <=> InStep)
      /\ (AtRest' => AtRest) /\ (InStep' <=> InStep)
  <2>1. AtRest' => InStep'
    BY DEF AtRest
  <2> QED  BY <2>1, LinkCalm DEF LinkBusy, Accepts
<1>2. /\ dev.sent # NoFrame /\ dl.tx = dev.rx /\ dl'.tx = dev.rx /\ dl'.rx = dev.tx /\ dl.rx # dev.tx
      /\ dl'.rxbuf = dev.sent.body /\ ~dl.resynced /\ ~dl'.resynced /\ dl'.state = "ack"
      /\ todo'.to = "pl" /\ dl'.txbuf = CrcBody
  BY AcceptedIs, TodoIs DEF Accepts
<1>3. ~Clean
  BY <1>2 DEF Clean
<1>4. tl.state \in {"tx", "rx"} /\ tl.offset \in Nat /\ app.frags \in Nat /\ tl.offset <= app.frags
  BY DEF Structure, TlKnown, LinkBusy, Typed
<1>5. Numbers'
  BY <1>1, <1>2 DEF Numbers
<1>6. Owned'
  <2>1. InStep => Own(dev.sent.body)
    BY <1>1, <1>2 DEF Owned
  <2> QED  BY <1>1, <1>2, <2>1 DEF Owned, Own, AllOwn
<1>7. Delivered'
  BY <1>1, <1>2 DEF Delivered
<1>8. Cleaned'
  <2>1. Regular' <=> Regular
    BY <1>1 DEF Regular
  <2>2. AtRest /\ Regular =>
          /\ ~(tl.offset < app.frags) /\ ~dev.job
          /\ \A i \in 1..Len(dev.resp) : Last(dev.resp[i]) => i = Len(dev.resp)
          /\ Last(dev.sent.body) => ~dev.job /\ dev.resp = <<>>
    BY <1>2, <1>3 DEF Cleaned
  <2>3. tl.offset = app.frags \/ tl.offset < app.frags
    BY <1>4
  <2>4. ~dev.job /\ dev.resp = <<>> => Clean'
    BY <1>1, <1>2 DEF Clean
  <2> QED  BY <1>1, <1>2, <1>4, <2>1, <2>2, <2>3, <2>4 DEF Cleaned
<1>9. CanRun' => CanRun
  BY <1>1, <1>2 DEF CanRun, Last, CrcBody, Body
<1>10. Runs'
  BY <1>1, <1>9, RunsKept DEF Structure
<1> QED  BY <1>5, <1>6, <1>7, <1>8, <1>10

\* A re-sync is under way now; the command may be run once more after it.
LEMMA ResyncSent ==
  ASSUME Typed, Protocol, LinkBusy, Resyncs
  PROVE  Protocol'
<1> USE DEF Protocol
<1>1. /\ dev' = dev /\ tl' = tl /\ app' = app /\ (InStep' <=> InStep)
      /\ pl'.frame = "ready" /\ pl'.act = "write" /\ todo' = Pl /\ pl'.out.seq = "resync"
      /\ dl'.state \in {"resend", "error"} /\ todo'.to = "pl"
  BY LinkCalm, TodoIs DEF LinkBusy, Resyncs, Frame
<1>2. ~AtRest'
  BY <1>1 DEF AtRest, Pending, Unwritten
<1>3. Numbers' /\ Owned'
  BY <1>1, <1>2 DEF Numbers, Owned, Own, AllOwn
<1>4. Delivered' /\ Cleaned'
  BY <1>1, <1>2 DEF Delivered, Cleaned
<1>5. Runs'
  <2>1. resyncs \in 0..3 /\ tl.cerr \in {0, 1} /\ dev.runs \in 0..3 /\ resyncs' = resyncs + (IF resyncs < 3 THEN 1 ELSE 0)
    BY DEF Typed, Devices, Resyncs
  <2> HIDE DEF Protocol
  <2>2. resyncs' = 3 \/ (resyncs' = resyncs + 1 /\ dev.runs <= 1 + resyncs + tl.cerr)
    <3>1. resyncs = 3 \/ dev.runs <= 1 + resyncs + tl.cerr
      BY <2>1 DEF Runs, Protocol
    <3> QED  BY <2>1, <3>1
  <2>3. resyncs' = 3 \/ dev.runs + 1 <= 1 + resyncs' + tl.cerr
    BY <2>1, <2>2
  <2> QED  BY <1>1, <2>1, <2>3 DEF Runs
<1> QED  BY <1>3, <1>4, <1>5

\* The first frame after a re-sync has a new number.
LEMMA ResentAfterResync ==
  ASSUME Structure, Protocol, LinkBusy, Resends, dl.resynced, app.call > 0
  PROVE  Protocol'
<1> USE DEF Protocol, Structure
<1>1. /\ dev' = dev /\ tl' = tl /\ app' = app /\ resyncs' = resyncs /\ (AtRest <=> InStep)
      /\ (AtRest' => AtRest) /\ (InStep' <=> InStep)
  <2>1. AtRest' => InStep'
    BY DEF AtRest
  <2> QED  BY <2>1, LinkCalm DEF LinkBusy, Resends
<1>2. dl.tx = 3
  BY DEF LinkKnown, OutKnown, OutIs
<1>3. /\ dl'.tx = 0 /\ dl'.rx = dl.rx /\ ~dl'.resynced /\ dl'.state = "tx" /\ todo'.to = "pl"
  BY <1>2, TodoIs DEF Resends, Succ
<1>4. AtRest => dev.rx = 3
  BY DEF Numbers
<1>5. Numbers'
  BY <1>1, <1>3, <1>4 DEF Numbers, Succ
<1>6. Owned'
  BY <1>1, <1>3, <1>4 DEF Owned, Own, AllOwn
<1>7. Delivered'
  BY <1>1, <1>3 DEF Delivered
<1>8. Cleaned'
  <2>1. AtRest => Clean
    BY DEF Cleaned
  <2>2. (Clean => Clean') /\ (Regular' <=> Regular)
    BY <1>1, <1>3 DEF Clean, Regular
  <2>3. Clean => dev.resp = <<>> /\ ~dev.job /\ (dev.sent = NoFrame \/ dev.tx = dl.rx)
    BY DEF Clean
  <2>4. \A i \in 1..Len(<<>>) : FALSE
    OBVIOUS
  <2> QED  BY <1>1, <1>3, <2>1, <2>2, <2>3, <2>4 DEF Cleaned
<1>9. CanRun
  BY DEF CanRun
<1>10. Runs'
  <2>1. resyncs \in 0..3 /\ tl.cerr \in {0, 1} /\ dev.runs \in 0..3
    BY DEF Typed, Devices
  <2> HIDE DEF Protocol, Structure
  <2>2. Runs
    BY DEF Protocol
  <2> QED  BY <1>1, <1>9, <2>1, <2>2 DEF Runs
<1> QED  BY <1>5, <1>6, <1>7, <1>8, <1>10

\* The transport layer is told; the device has taken the frame, or has been re-synced.
LEMMA TopKeeps ==
  ASSUME Structure, Protocol, LinkBusy, Tops, app.call > 0
  PROVE  Protocol'
<1> USE DEF Protocol, Structure
<1>1. /\ dev' = dev /\ tl' = tl /\ app' = app /\ resyncs' = resyncs /\ (AtRest <=> InStep)
      /\ (AtRest' => AtRest) /\ (InStep' <=> InStep) /\ todo.to = "dl"
      /\ dl'.tx = dl.tx /\ dl'.rx = dl.rx /\ dl'.resynced = dl.resynced /\ dl'.txbuf = dl.txbuf
      /\ dl'.state = "idle"
  <2>1. AtRest' => InStep'
    BY DEF AtRest
  <2> QED  BY <2>1, LinkCalm DEF LinkBusy, Tops, NumbersKept
<1>2. /\ todo'.to = "tl"
      /\ todo'.body # NoBody => dl.state = "ack" /\ todo'.body = dl.rxbuf
  BY DEF Tops, Tl
<1>3. InStep => dl.tx = dev.rx
  <2>1. CASE dl.state = "rx_cf" /\ todo.frame.good /\ todo.frame.ack = dl.tx /\ todo.frame.seq \notin {"resync", "nack"}
    <3>1. todo.event = "ok" /\ pl.act = "read"
      BY <2>1 DEF LinkKnown
    <3>2. From(dev, todo.frame)
      BY <1>1, <3>1 DEF Received
    <3> QED  BY <2>1, <3>2 DEF From
  <2>2. CASE dl.state = "ack"
    BY <2>2 DEF Numbers
  <2>3. CASE dl.resynced
    <3>1. dl.tx = 3
      BY <2>3 DEF LinkKnown, OutKnown, OutIs
    <3> QED  BY <1>1, <2>3, <3>1 DEF Numbers
  <2> QED  BY <2>1, <2>2, <2>3 DEF Tops
<1>4. tl.state \in {"tx", "rx"}
  BY DEF TlKnown, LinkBusy
<1>5. Numbers'
  BY <1>1, <1>3 DEF Numbers
<1>6. Owned'
  <2>1. InStep /\ dl.state = "ack" => Own(dl.rxbuf)
    BY DEF Owned
  <2> QED  BY <1>1, <1>2, <2>1 DEF Owned, Own, AllOwn
<1>7. Delivered'
  BY <1>1, <1>2 DEF Delivered
<1>8. Cleaned'
  <2>1. (Clean => Clean') /\ (Regular' <=> Regular)
    BY <1>1 DEF Clean, Regular
  <2>2. AtRest /\ Regular /\ dl.state = "ack" => tl.offset = app.frags /\ (Last(dl.rxbuf) => Clean)
    BY DEF Cleaned
  <2> QED  BY <1>1, <1>2, <1>4, <2>1, <2>2 DEF Cleaned
<1>9. CanRun' <=> CanRun
  BY <1>1 DEF CanRun
<1>10. Runs'
  BY <1>1, <1>9, RunsKept DEF Structure
<1> QED  BY <1>5, <1>6, <1>7, <1>8, <1>10

\* Whatever the data link layer does, the protocol is kept.
LEMMA ProtocolLink ==
  ASSUME IInv, Structure, Protocol, LinkStep
  PROVE  Protocol'
<1>1. Structure'
  BY StructureLink
<1>2. app.call \in Nat /\ Typed /\ Typed' /\ BeforeCalls'
  BY <1>1 DEF Structure, Typed
<1>3. CASE app.call = 0
  <2>1. app'.call = 0
    BY <1>3 DEF LinkStep, Stays
  <2>2. (Typed /\ BeforeCalls /\ app.call = 0)' => Protocol'
    BY UnusedProtocol, PTL
  <2> QED  BY <1>2, <2>1, <2>2
<1>4. CASE app.call > 0
  <2> USE TodoIs
  <2>1. LinkBusy /\ LinkDoes
    BY <1>4, LinkIs
  <2>2. CASE Looks
    <3>1. todo'.to = "dl"
      BY <2>1, <2>2 DEF LinkBusy, Looks
    <3> QED  BY <2>1, <2>2, <1>2, <3>1, SteadyKeeps DEF Looks
  <2>3. CASE Awaits
    BY <1>2, <2>1, <2>3, SteadyKeeps DEF Awaits
  <2>4. CASE Acks
    BY <1>2, <2>1, <2>4, SteadyKeeps DEF Acks
  <2>5. CASE Resends /\ ~dl.resynced
    <3>1. dl.resynced = FALSE
      BY <1>2, <2>5 DEF Typed
    <3>2. NumbersKept
      BY <2>5, <3>1 DEF Resends, NumbersKept
    <3> QED  BY <2>1, <2>5, <1>2, <3>2, SteadyKeeps DEF Resends
  <2> QED  BY <1>2, <1>4, <2>1, <2>2, <2>3, <2>4, <2>5, AcceptKeeps, ResyncSent, ResentAfterResync, TopKeeps
           DEF LinkDoes
<1> QED  BY <1>2, <1>3, <1>4

-----------------------------------------------------------------------------
(* The protocol is kept by the transport layer *)

\* What the transport layer may do when it is called during a call.
TlBusy ==
  /\ todo.to = "tl" /\ timer = "none" /\ dl.state = "idle" /\ pl.frame \in {"ready", "uninit"}
  /\ UNCHANGED <<dev, timer, lost, unsynced, resyncs, api, app>>
  /\ pl'.frame = pl.frame /\ pl'.in = pl.in /\ pl'.cmd = pl.cmd /\ pl'.regact = pl.regact
  /\ ~dl'.error

\* It turns to another state ...
Turns ==
  /\ UNCHANGED <<pl, dl, todo>> /\ "error" \notin todo.events
  /\ tl'.offset = tl.offset /\ tl'.answer = tl.answer /\ tl'.cerr = tl.cerr /\ tl'.merr = tl.merr
  /\ tl'.event \in {tl.event, "mem"} /\ tl'.total \in {tl.total, 0}
  /\ \/ tl'.state = "rx" /\ tl'.done = TRUE /\ tl.state = "tx" /\ ~(tl.offset < app.frags) /\ "rx" \in todo.events
     \/ /\ tl'.done = tl.done
        /\ \/ tl'.state = "rx" /\ tl.state = "chaining"
           \/ tl'.state = "chaining" /\ tl.state = "rx"
           \/ tl'.state = "resend" /\ (tl.state = "rx" \/ todo.body.pctr = "error")
           \/ tl'.state = "chaining_error" /\ (tl.state = "chaining" \/ (tl.done /\ tl.state = "resend" /\ LongData))
           \/ /\ tl'.state = "error"
              /\ \/ tl.state = "rx" /\ Last(todo.body)
                 \/ tl.state = "tx" /\ tl.offset < app.frags /\ HasData
                 \/ tl.cerr > 0 \/ tl.merr > 0

\* ... reads the next frame of the response ...
Reads ==
  /\ todo' = Pl /\ pl'.act = "read" /\ pl'.out = pl.out /\ "error" \notin todo.events
  /\ dl'.tx = dl.tx /\ dl'.rx = dl.rx /\ dl'.resynced = dl.resynced /\ dl'.txbuf = dl.txbuf
  /\ dl'.rxbuf = dl.rxbuf /\ dl'.rxonly = TRUE /\ dl'.state = "rx"
  /\ tl'.state = "rx" /\ tl'.offset = tl.offset /\ tl'.cerr = tl.cerr /\ tl'.merr = tl.merr
  /\ tl'.event = tl.event
  /\ \/ tl.state = "tx" /\ ~(tl.offset < app.frags) /\ tl'.total = 0 /\ tl'.answer = tl.answer /\ tl'.done = TRUE
     \/ tl.state = "rx" /\ tl' = tl
     \/ tl.state = "chaining" /\ LongData /\ tl'.total = tl.total + 1 /\ tl'.answer = Joined /\ tl'.done = tl.done

\* ... sends a fragment, the first one again, or a chaining error ...
Sends ==
  /\ "error" \notin todo.events /\ todo' = Pl /\ pl'.act = "write"
  /\ pl'.out = Frame("data", "ack", dl'.tx, dl.rx, dl'.txbuf)
  /\ dl'.tx = Succ(dl.tx) /\ dl'.rx = dl.rx /\ dl'.resynced = FALSE
  /\ dl'.rxbuf = dl.rxbuf /\ dl'.rxonly = FALSE /\ dl'.state = "tx"
  /\ tl'.state = "tx" /\ tl'.answer = tl.answer /\ tl'.event = tl.event /\ tl'.done = tl.done
  /\ \/ /\ tl.state = "tx" /\ tl.offset < app.frags /\ tl'.offset = tl.offset + 1
        /\ tl'.total = tl.total /\ tl'.cerr = tl.cerr /\ tl'.merr = tl.merr
        /\ dl'.txbuf = Body(Pctr(tl.offset + 1, app.frags), app.call)
     \/ /\ tl.state = "resend" /\ ~(tl.cerr > 0) /\ tl'.offset = 1 /\ tl'.total = 0 /\ tl'.cerr = 1
        /\ tl'.merr = tl.merr /\ dl'.txbuf = Body(Pctr(1, app.frags), app.call)
     \/ /\ tl.state = "chaining_error" /\ tl'.offset = tl.offset /\ tl'.total = 0 /\ tl'.cerr = tl.cerr
        /\ tl'.merr = 1 /\ dl'.txbuf = Body("error", app.call)

\* ... or reports to the API.
Ends ==
  /\ UNCHANGED <<pl, dl>> /\ todo'.to = "api"
  /\ tl'.offset = tl.offset /\ tl'.cerr = tl.cerr /\ tl'.merr = tl.merr /\ tl'.done = tl.done
  /\ \/ /\ tl.state = "rx" /\ Last(todo.body) /\ "error" \notin todo.events /\ tl'.state = "idle"
        /\ tl'.total = tl.total + 1 /\ tl'.answer = Joined /\ tl'.event = tl.event
     \/ /\ todo'.event # "success" /\ tl'.total = tl.total /\ tl'.answer = tl.answer
        /\ tl'.event \in {"error", "mem"}
        /\ \/ "error" \in todo.events /\ tl'.state = "idle"
           \/ tl.state = "error" /\ "error" \notin todo.events /\ tl'.state \in {"idle", "error"}

\* These are all.
TlDoes == Turns \/ Reads \/ Sends \/ Ends

\* A fragment is handed to the data link layer.
LEMMA FragmentIs ==
  ASSUME Fields, pl.frame = "ready", ~dl.error, NEW b, SendFrame(b)
  PROVE  /\ todo' = Pl /\ pl'.act = "write" /\ pl'.out = Frame("data", "ack", dl'.tx, dl.rx, dl'.txbuf)
         /\ dl'.tx = Succ(dl.tx) /\ dl'.rx = dl.rx /\ dl'.resynced = FALSE /\ dl'.txbuf = b
         /\ dl'.rxbuf = dl.rxbuf /\ dl'.rxonly = FALSE /\ dl'.state = "tx" /\ ~dl'.error
         /\ pl'.frame = pl.frame /\ pl'.in = pl.in /\ pl'.cmd = pl.cmd /\ pl'.regact = pl.regact
<1> DEFINE d == [dl EXCEPT !.state = "tx", !.retrans = 0, !.rxonly = FALSE, !.txbuf = b]
<1>1. SendData(d, FALSE)
  BY DEF SendFrame
<1>2. /\ d.tx = dl.tx /\ d.rx = dl.rx /\ d.txbuf = b /\ d.rxbuf = dl.rxbuf /\ d.rxonly = FALSE
      /\ d.state = "tx" /\ d.error = dl.error /\ DOMAIN d = DOMAIN dl
  BY PlFields
<1> HIDE DEF d
<1>3. /\ dl' = [d EXCEPT !.tx = Succ(d.tx), !.resynced = FALSE]
      /\ Transmit(Frame("data", "ack", Succ(d.tx), d.rx, d.txbuf))
  BY <1>1 DEF SendData
<1>4. /\ dl'.tx = Succ(d.tx) /\ dl'.rx = d.rx /\ dl'.resynced = FALSE
      /\ dl'.state = d.state /\ dl'.error = d.error /\ dl'.rxonly = d.rxonly
      /\ dl'.txbuf = d.txbuf /\ dl'.rxbuf = d.rxbuf
  BY <1>2, <1>3, PlFields
<1>5. /\ todo' = Pl /\ pl'.act = "write" /\ pl'.out = Frame("data", "ack", Succ(d.tx), d.rx, d.txbuf)
      /\ pl'.frame = pl.frame /\ pl'.in = pl.in /\ pl'.cmd = pl.cmd /\ pl'.regact = pl.regact
  BY <1>3, TransmitIs
<1> QED  BY <1>2, <1>4, <1>5

\* The next frame of the response is awaited.
LEMMA ReadIs ==
  ASSUME Fields, pl.frame = "ready", ~dl.error, ReceiveFrame
  PROVE  /\ todo' = Pl /\ pl'.act = "read" /\ pl'.out = pl.out
         /\ dl'.tx = dl.tx /\ dl'.rx = dl.rx /\ dl'.resynced = dl.resynced /\ dl'.txbuf = dl.txbuf
         /\ dl'.rxbuf = dl.rxbuf /\ dl'.rxonly = TRUE /\ dl'.state = "rx" /\ ~dl'.error
         /\ pl'.frame = pl.frame /\ pl'.in = pl.in /\ pl'.cmd = pl.cmd /\ pl'.regact = pl.regact
<1> DEFINE d == [dl EXCEPT !.state = "rx", !.retrans = 0, !.rxonly = TRUE]
<1>1. StartReceive(d)
  BY DEF ReceiveFrame
<1>2. /\ d.tx = dl.tx /\ d.rx = dl.rx /\ d.txbuf = dl.txbuf /\ d.rxbuf = dl.rxbuf /\ d.rxonly = TRUE
      /\ d.state = "rx" /\ d.error = dl.error /\ d.resynced = dl.resynced
  BY PlFields
<1> HIDE DEF d
<1> QED  BY <1>1, <1>2, AwaitIs

\* Called during a call, the transport layer does one of these.
LEMMA TlIs ==
  ASSUME IInv, Structure, TlStep, app.call > 0
  PROVE  TlBusy /\ TlDoes
<1> USE PlFields, TodoIs DEF IInv
<1>a. /\ todo.to = "tl" /\ UNCHANGED <<dev, timer, lost, unsynced, resyncs, api, app>> /\ timer = "none"
  <2>1. todo.to = "tl" /\ UNCHANGED <<dev, timer, lost, unsynced, resyncs, api, app>>
    BY DEF TlStep, TlIdle, TlSent, TlReceived, TlChaining, TlResend, TlChainingError, TlError,
           InTl, TlKeeps
  <2> QED  BY <2>1 DEF UnderWay
<1>b. Fed /\ ~dl.error /\ dl.state = "idle" /\ tl.state # "idle" /\ tl.event \in {"error", "mem"}
      /\ pl.frame \in {"ready", "uninit"}
  <2>1. Fed /\ ~dl.error /\ tl.event \in {"error", "mem"}
    BY <1>a DEF Structure, TlKnown, LinkKnown
  <2> QED  BY <1>a, <2>1 DEF Fed, FrameState
<1>c. "error" \notin todo.events => pl.frame = "ready"
  BY <1>a, TlCalled
<1> DEFINE Held == /\ pl'.frame = pl.frame /\ pl'.in = pl.in /\ pl'.cmd = pl.cmd
                   /\ pl'.regact = pl.regact /\ ~dl'.error
<1>d. Held => TlBusy
  BY <1>a, <1>b DEF TlBusy
<1>e. UNCHANGED <<pl, dl>> => Held
  BY <1>b
<1> HIDE DEF Held
<1>f. ReceiveFrame /\ "error" \notin todo.events =>
        /\ Held /\ todo' = Pl /\ pl'.act = "read" /\ pl'.out = pl.out
        /\ dl'.tx = dl.tx /\ dl'.rx = dl.rx /\ dl'.resynced = dl.resynced /\ dl'.txbuf = dl.txbuf
        /\ dl'.rxbuf = dl.rxbuf /\ dl'.rxonly = TRUE /\ dl'.state = "rx"
  BY <1>b, <1>c, ReadIs DEF Held
<1>g. ASSUME NEW b, SendFrame(b), "error" \notin todo.events
      PROVE  /\ Held /\ todo' = Pl /\ pl'.act = "write" /\ pl'.out = Frame("data", "ack", dl'.tx, dl.rx, dl'.txbuf)
             /\ dl'.tx = Succ(dl.tx) /\ dl'.rx = dl.rx /\ dl'.resynced = FALSE /\ dl'.txbuf = b
             /\ dl'.rxbuf = dl.rxbuf /\ dl'.rxonly = FALSE /\ dl'.state = "tx"
  BY <1>b, <1>c, <1>g, FragmentIs DEF Held
<1>h. "error" \notin todo.events =>
        /\ ~dl.resynced /\ ("rx" \in todo.events <=> HasData)
        /\ tl.state = "tx" => "tx" \in todo.events
        /\ tl.state \in {"rx", "chaining"} => "rx" \in todo.events
  BY <1>b DEF Fed, HasData
<1>1. CASE TlIdle
  BY <1>1, <1>b DEF TlIdle, InTl
<1>2. CASE TlSent
  <2>1. tl.state = "tx" /\ "error" \notin todo.events /\ "tx" \in todo.events
    BY <1>2, <1>h DEF TlSent, InTl
  <2>2. CASE tl.offset < app.frags /\ todo.body.pctr = "error"
    <3>1. TlLoop([tl EXCEPT !.state = "resend"])
      BY <1>2, <2>1, <2>2 DEF TlSent
    <3>2. Turns
      BY <2>1, <2>2, <3>1 DEF Turns, TlLoop
    <3> QED  BY <1>d, <1>e, <3>1, <3>2 DEF TlDoes, TlLoop
  <2>3. CASE tl.offset < app.frags /\ todo.body.pctr # "error" /\ HasData
    <3>1. TlLoop([tl EXCEPT !.state = "error"])
      BY <1>2, <2>1, <2>3 DEF TlSent
    <3>2. Turns
      BY <2>1, <2>3, <3>1 DEF Turns, TlLoop
    <3> QED  BY <1>d, <1>e, <3>1, <3>2 DEF TlDoes, TlLoop
  <2>4. CASE tl.offset < app.frags /\ todo.body.pctr # "error" /\ ~HasData
    <3>1. SendNextFragment(tl, app.frags, app.call)
      BY <1>2, <2>1, <2>4 DEF TlSent
    <3>2. tl' = [tl EXCEPT !.offset = @ + 1] /\ SendFrame(Body(Pctr(tl.offset + 1, app.frags), app.call))
      BY <3>1 DEF SendNextFragment
    <3>3. Sends /\ Held
      BY <1>g, <2>1, <2>4, <3>2 DEF Sends
    <3> QED  BY <1>d, <3>3 DEF TlDoes
  <2>5. CASE ~(tl.offset < app.frags)
    <3> DEFINE t == [tl EXCEPT !.state = "rx", !.total = 0, !.prev = "no", !.done = TRUE]
    <3>1. IF "rx" \in todo.events THEN TlLoop(t) ELSE tl' = t /\ ReceiveFrame
      BY <1>2, <2>1, <2>5 DEF TlSent
    <3>2. /\ t.state = "rx" /\ t.total = 0 /\ t.done = TRUE /\ t.offset = tl.offset /\ t.answer = tl.answer
          /\ t.cerr = tl.cerr /\ t.merr = tl.merr /\ t.event = tl.event
      OBVIOUS
    <3> HIDE DEF t
    <3>3. CASE "rx" \in todo.events
      <4>1. Turns
        BY <2>1, <2>5, <3>1, <3>2, <3>3 DEF Turns, TlLoop
      <4> QED  BY <1>d, <1>e, <3>1, <3>3, <4>1 DEF TlDoes, TlLoop
    <3>4. CASE "rx" \notin todo.events
      <4>1. Reads /\ Held
        BY <1>f, <2>1, <2>5, <3>1, <3>2, <3>4 DEF Reads
      <4> QED  BY <1>d, <4>1 DEF TlDoes
    <3> QED  BY <3>3, <3>4
  <2> QED  BY <2>2, <2>3, <2>4, <2>5
<1>3. CASE TlReceived
  <2>1. tl.state = "rx" /\ "error" \notin todo.events /\ "rx" \in todo.events
    BY <1>3, <1>h DEF TlReceived, InTl
  <2>2. CASE TlLoop([tl EXCEPT !.state = "error"])
    <3>1. todo.body.pctr = "last"
      BY <1>3, <1>b, <2>1, <2>2 DEF TlReceived, DlIsIdle, TlLoop, TlReport, ReceiveFrame
    <3>2. Turns
      BY <2>1, <2>2, <3>1 DEF Turns, TlLoop, Last
    <3> QED  BY <1>d, <1>e, <2>2, <3>2 DEF TlDoes, TlLoop
  <2>3. CASE tl' = tl /\ ReceiveFrame
    <3>1. Reads /\ Held
      BY <1>f, <2>1, <2>3 DEF Reads
    <3> QED  BY <1>d, <3>1 DEF TlDoes
  <2>4. CASE TlLoop([tl EXCEPT !.state = "resend"])
    <3>2. Turns
      BY <2>1, <2>4 DEF Turns, TlLoop
    <3> QED  BY <1>d, <1>e, <2>4, <3>2 DEF TlDoes, TlLoop
  <2>5. CASE /\ todo.body.pctr \in {"no", "last"}
             /\ TlReport([tl EXCEPT !.state = "idle", !.prev = todo.body.pctr, !.total = @ + 1,
                                    !.answer = Joined], "success")
    <3>2. Ends
      BY <2>1, <2>5 DEF Ends, TlReport, Api, Last
    <3> QED  BY <1>d, <1>e, <2>5, <3>2 DEF TlDoes, TlReport
  <2>6. CASE TlLoop([tl EXCEPT !.state = "chaining", !.prev = todo.body.pctr])
    <3>2. Turns
      BY <2>1, <2>6 DEF Turns, TlLoop
    <3> QED  BY <1>d, <1>e, <2>6, <3>2 DEF TlDoes, TlLoop
  <2> QED  BY <1>3, <2>1, <2>2, <2>3, <2>4, <2>5, <2>6 DEF TlReceived
<1>4. CASE TlChaining
  <2>1. tl.state = "chaining" /\ "error" \notin todo.events
    BY <1>4 DEF TlChaining, InTl
  <2>2. CASE ~LongData
    <3>1. TlLoop([tl EXCEPT !.state = "chaining_error"])
      BY <1>4, <2>2 DEF TlChaining
    <3>2. Turns
      BY <2>1, <3>1 DEF Turns, TlLoop
    <3> QED  BY <1>d, <1>e, <3>1, <3>2 DEF TlDoes, TlLoop
  <2>3. CASE LongData /\ tl.total + 1 > app.room
    <3>1. TlLoop([tl EXCEPT !.event = "mem", !.state = "rx"])
      BY <1>4, <2>3 DEF TlChaining
    <3>2. Turns
      BY <2>1, <3>1 DEF Turns, TlLoop
    <3> QED  BY <1>d, <1>e, <3>1, <3>2 DEF TlDoes, TlLoop
  <2>4. CASE LongData /\ ~(tl.total + 1 > app.room)
    <3>1. tl' = [tl EXCEPT !.total = @ + 1, !.state = "rx", !.answer = Joined] /\ ReceiveFrame
      BY <1>4, <2>4 DEF TlChaining
    <3>2. Reads /\ Held
      BY <1>f, <2>1, <2>4, <3>1 DEF Reads
    <3> QED  BY <1>d, <3>2 DEF TlDoes
  <2> QED  BY <2>2, <2>3, <2>4
<1>5. CASE TlResend
  <2>1. tl.state = "resend" /\ "error" \notin todo.events
    BY <1>5 DEF TlResend, InTl
  <2>2. CASE LongData /\ tl.done
    <3>1. TlLoop([tl EXCEPT !.state = "chaining_error"])
      BY <1>5, <2>2 DEF TlResend
    <3>2. Turns
      BY <2>1, <2>2, <3>1 DEF Turns, TlLoop
    <3> QED  BY <1>d, <1>e, <3>1, <3>2 DEF TlDoes, TlLoop
  <2>3. CASE ~(LongData /\ tl.done) /\ tl.cerr > 0
    <3>1. TlLoop([tl EXCEPT !.state = "error"])
      BY <1>5, <2>3 DEF TlResend
    <3>2. Turns
      BY <2>1, <2>3, <3>1 DEF Turns, TlLoop
    <3> QED  BY <1>d, <1>e, <3>1, <3>2 DEF TlDoes, TlLoop
  <2>4. CASE ~(LongData /\ tl.done) /\ ~(tl.cerr > 0)
    <3> DEFINE t == [tl EXCEPT !.cerr = 1, !.offset = 0, !.total = 0, !.state = "tx"]
    <3>1. SendNextFragment(t, app.frags, app.call)
      BY <1>5, <2>4 DEF TlResend
    <3>2. /\ t.state = "tx" /\ t.total = 0 /\ t.done = tl.done /\ t.offset = 0 /\ t.answer = tl.answer
          /\ t.cerr = 1 /\ t.merr = tl.merr /\ t.event = tl.event /\ DOMAIN t = DOMAIN tl
      OBVIOUS
    <3> HIDE DEF t
    <3>3. tl' = [t EXCEPT !.offset = @ + 1] /\ SendFrame(Body(Pctr(t.offset + 1, app.frags), app.call))
      BY <3>1 DEF SendNextFragment
    <3>4. 0 + 1 = 1
      OBVIOUS
    <3>5. Sends /\ Held
      BY <1>g, <2>1, <2>4, <3>2, <3>3, <3>4 DEF Sends
    <3> QED  BY <1>d, <3>5 DEF TlDoes
  <2> QED  BY <2>2, <2>3, <2>4
<1>6. CASE TlChainingError
  <2>1. tl.state = "chaining_error" /\ "error" \notin todo.events
    BY <1>6 DEF TlChainingError, InTl
  <2>2. CASE tl.merr > 0
    <3>1. TlLoop([tl EXCEPT !.state = "error"])
      BY <1>6, <2>2 DEF TlChainingError
    <3>2. Turns
      BY <2>1, <2>2, <3>1 DEF Turns, TlLoop
    <3> QED  BY <1>d, <1>e, <3>1, <3>2 DEF TlDoes, TlLoop
  <2>3. CASE ~(tl.merr > 0)
    <3> DEFINE t == [tl EXCEPT !.merr = 1, !.state = "tx"]
    <3>1. SendChainingError(t)
      BY <1>6, <2>3 DEF TlChainingError
    <3>2. /\ t.state = "tx" /\ t.done = tl.done /\ t.offset = tl.offset /\ t.answer = tl.answer
          /\ t.cerr = tl.cerr /\ t.merr = 1 /\ t.event = tl.event /\ DOMAIN t = DOMAIN tl
      OBVIOUS
    <3> HIDE DEF t
    <3>3. tl' = [t EXCEPT !.total = 0] /\ SendFrame(Body("error", app.call))
      BY <3>1 DEF SendChainingError
    <3>5. Sends /\ Held
      BY <1>g, <2>1, <2>3, <3>2, <3>3 DEF Sends
    <3> QED  BY <1>d, <3>5 DEF TlDoes
  <2> QED  BY <2>2, <2>3
<1>7. CASE TlError
  <2> DEFINE e == IF "error" \in todo.events THEN "error" ELSE tl.event
             s == IF "error" \in todo.events \/ HasData THEN "idle" ELSE "error"
  <2>1. TlReport([tl EXCEPT !.event = e, !.state = s], e)
    BY <1>7 DEF TlError
  <2>2. e \in {"error", "mem"} /\ s \in {"idle", "error"} /\ ("error" \in todo.events => s = "idle")
    BY <1>b
  <2>3. "error" \in todo.events \/ tl.state = "error"
    BY <1>7 DEF TlError, InTl
  <2> HIDE DEF e, s
  <2>4. /\ UNCHANGED <<pl, dl>> /\ todo'.to = "api" /\ todo'.event = e
        /\ tl' = [tl EXCEPT !.event = e, !.state = s]
    BY <2>1 DEF TlReport, Api
  <2>5. Ends
    BY <2>2, <2>3, <2>4 DEF Ends
  <2> QED  BY <1>d, <1>e, <2>4, <2>5 DEF TlDoes
<1> QED  BY <1>1, <1>2, <1>3, <1>4, <1>5, <1>6, <1>7 DEF TlStep

\* The transport layer builds fragments of the call.
LEMMA TypedTl ==
  ASSUME IInv, Structure, app.call > 0, TlBusy, TlDoes
  PROVE  Typed'
<1> USE TodoIs DEF Structure
<1>1. /\ app.call \in Nat /\ dl.tx \in Nr /\ dl.rx \in Nr /\ Succ(dl.tx) \in Nr
      /\ dl.txbuf \in Bodies(app.call) /\ dl.rxbuf \in Bodies(app.call) /\ pl.out \in Frames(app.call)
      /\ dl.resynced \in BOOLEAN /\ dl.rxonly \in BOOLEAN
      /\ todo.body \in Bodies(app.call)
  BY Circle DEF Typed, TlBusy
<1>2. /\ tl.answer \in 0..app.call /\ tl.total \in Nat /\ tl.done \in BOOLEAN /\ tl.offset \in Nat
      /\ app.frags \in Nat \ {0} /\ tl.offset <= app.frags /\ tl.cerr \in {0, 1} /\ tl.merr \in {0, 1}
  BY DEF Typed
<1>3. Joined \in 0..app.call
  BY <1>1 DEF Joined, Bodies
<1>4. ASSUME dl'.tx \in Nr, dl'.rx \in Nr, dl'.resynced \in BOOLEAN, dl'.rxonly \in BOOLEAN,
             dl'.txbuf \in Bodies(app.call), dl'.rxbuf \in Bodies(app.call), pl'.out \in Frames(app.call),
             todo'.to = "tl" => todo' = todo, todo'.to # "dl",
             tl'.answer \in 0..app.call, tl'.total \in Nat, tl'.done \in BOOLEAN, tl'.offset \in Nat,
             tl'.offset <= app.frags, tl'.cerr \in {0, 1}, tl'.merr \in {0, 1}
      PROVE  Typed'
  <2>1. /\ app' = app /\ dev' = dev /\ pl'.in = pl.in /\ resyncs' = resyncs /\ unsynced' = unsynced
    BY DEF TlBusy
  <2> QED  BY <1>4, <2>1 DEF Typed
<1>5. CASE Turns
  <2>1. tl'.total \in Nat /\ tl'.done \in BOOLEAN
    <3>1. tl'.total \in Nat
      BY <1>2, <1>5 DEF Turns
    <3>2. tl'.done = TRUE \/ tl'.done = tl.done
      BY <1>5 DEF Turns
    <3> QED  BY <1>2, <3>1, <3>2
  <2> QED  BY <1>1, <1>2, <1>4, <1>5, <2>1 DEF Turns, TlBusy
<1>6. CASE Reads
  <2>1. tl'.total \in Nat /\ tl'.done \in BOOLEAN /\ tl'.answer \in 0..app.call
    <3>1. tl'.total \in Nat /\ tl'.answer \in 0..app.call
      BY <1>2, <1>3, <1>6 DEF Reads
    <3>2. tl'.done = TRUE \/ tl'.done = tl.done
      BY <1>6 DEF Reads
    <3> QED  BY <1>2, <3>1, <3>2
  <2> QED  BY <1>1, <1>2, <1>4, <1>6, <2>1 DEF Reads
<1>7. CASE Sends
  <2>1. dl'.txbuf \in Bodies(app.call)
    <3>1. \A i \in 1..app.frags : Pctr(i, app.frags) \in Chaining
      BY <1>2, PctrIs DEF Chaining
    <3>2. app.call \in 0..app.call /\ "error" \in Chaining
      BY <1>1 DEF Chaining
    <3>3. tl.offset < app.frags => tl.offset + 1 \in 1..app.frags
      BY <1>2
    <3>4. 1 \in 1..app.frags
      BY <1>2
    <3> QED  BY <1>7, <3>1, <3>2, <3>3, <3>4 DEF Sends, Body, Bodies
  <2>2. dl'.tx \in Nr
    BY <1>1, <1>7 DEF Sends
  <2>3. pl'.out \in Frames(app.call)
    <3>1. Frame("data", "ack", dl'.tx, dl.rx, dl'.txbuf) \in Frames(app.call)
      BY <1>1, <2>1, <2>2 DEF Frame, Frames
    <3> QED  BY <1>7, <3>1 DEF Sends
  <2>4. tl'.offset \in Nat /\ tl'.offset <= app.frags /\ tl'.total \in Nat /\ tl'.cerr \in {0, 1} /\ tl'.merr \in {0, 1}
    BY <1>2, <1>7 DEF Sends
  <2> QED  BY <1>1, <1>2, <1>4, <1>7, <2>1, <2>2, <2>3, <2>4 DEF Sends
<1>8. CASE Ends
  <2>1. tl'.total \in Nat /\ tl'.answer \in 0..app.call
    BY <1>2, <1>3, <1>8 DEF Ends
  <2> QED  BY <1>1, <1>2, <1>4, <1>8, <2>1 DEF Ends
<1> QED  BY <1>5, <1>6, <1>7, <1>8 DEF TlDoes

\* The state of the transport layer and what was done with the command agree.
LEMMA TlTl ==
  ASSUME Structure, app.call > 0, TlBusy, TlDoes
  PROVE  TlKnown'
<1> USE TodoIs DEF Structure
<1>1. /\ TlKnown /\ Fed /\ app' = app /\ tl.event \in {"error", "mem"} /\ tl.state # "idle"
      /\ tl.offset \in Nat /\ app.frags \in Nat /\ tl.offset <= app.frags
  BY DEF TlBusy, TlKnown, Fed, Typed
<1>2. tl.offset < app.frags \/ tl.offset = app.frags
  BY <1>1
<1>3. "error" \notin todo.events =>
        /\ ~dl.resynced /\ ("rx" \in todo.events <=> todo.body # NoBody)
        /\ tl.state \in {"rx", "chaining"} => "rx" \in todo.events
        /\ tl.state = "resend" /\ todo.body.pctr # "error" => tl.offset = app.frags
  BY <1>1 DEF Fed
<1>4. CASE Turns
  <2>1. /\ todo' = todo /\ dl' = dl /\ "error" \notin todo.events /\ dl.state = "idle" /\ todo.to = "tl"
    BY <1>4 DEF Turns, TlBusy
  <2>2. tl'.state \in {"rx", "chaining", "resend", "chaining_error", "error"}
    BY <1>4 DEF Turns
  <2>3. tl'.state \in {"rx", "chaining", "chaining_error"} => tl'.done /\ tl'.offset = app.frags
    BY <1>1, <1>2, <1>3, <1>4, <2>1 DEF Turns, TlKnown, LongData
  <2>4. /\ tl'.state \in {"rx", "chaining"} => "rx" \in todo.events
        /\ tl'.state = "resend" /\ todo.body.pctr # "error" => tl'.offset = app.frags
    BY <1>1, <1>3, <1>4, <2>1 DEF Turns, TlKnown
  <2>5. Fed'
    BY <1>1, <1>3, <2>1, <2>2, <2>4 DEF Fed
  <2>6. (tl'.merr > 0 => tl'.offset = app.frags \/ tl'.cerr > 0) /\ tl'.event \in {"error", "mem"}
    BY <1>1, <1>4 DEF Turns, TlKnown
  <2> QED  BY <1>1, <2>1, <2>2, <2>3, <2>5, <2>6 DEF TlKnown
<1>5. CASE Reads
  <2>1. tl'.state = "rx" /\ dl'.rxonly /\ todo'.to = "pl"
    BY <1>5 DEF Reads
  <2>2. tl'.done /\ tl'.offset = app.frags
    BY <1>1, <1>2, <1>5 DEF Reads, TlKnown
  <2>3. (tl'.merr > 0 => tl'.offset = app.frags \/ tl'.cerr > 0) /\ tl'.event \in {"error", "mem"}
    BY <1>1, <1>5 DEF Reads, TlKnown
  <2> QED  BY <1>1, <2>1, <2>2, <2>3 DEF TlKnown
<1>6. CASE Sends
  <2>1. tl'.state = "tx" /\ ~dl'.rxonly /\ todo'.to = "pl" /\ tl'.event \in {"error", "mem"}
    BY <1>1, <1>6 DEF Sends
  <2>2. tl'.merr > 0 => tl'.offset = app.frags \/ tl'.cerr > 0
    <3>1. tl.merr > 0 => tl.offset = app.frags \/ tl.cerr > 0
      BY <1>1 DEF TlKnown
    <3>2. tl.state = "chaining_error" => tl.offset = app.frags
      BY <1>1 DEF TlKnown
    <3> QED  BY <1>1, <1>6, <3>1, <3>2 DEF Sends
  <2> QED  BY <1>1, <2>1, <2>2 DEF TlKnown
<1>7. CASE Ends
  <2>1. todo'.to = "api" /\ dl'.state = "idle" /\ tl'.state \in {"idle", "error"} /\ tl'.event \in {"error", "mem"}
    BY <1>1, <1>7 DEF Ends, TlBusy
  <2>2. tl'.merr > 0 => tl'.offset = app.frags \/ tl'.cerr > 0
    BY <1>1, <1>7 DEF Ends, TlKnown
  <2> QED  BY <1>1, <2>1, <2>2 DEF TlKnown
<1> QED  BY <1>4, <1>5, <1>6, <1>7 DEF TlDoes

\* The fragment in the transmit buffer is the one the offset counts.
LEMMA TxTl ==
  ASSUME Structure, app.call > 0, TlBusy, TlDoes
  PROVE  OutKnown' /\ TxKnown'
<1> USE DEF Structure
<1>1. /\ app' = app /\ TxIs /\ tl.offset \in Nat /\ tl.done \in BOOLEAN
      /\ (pl.act = "write" => OutIs) /\ app.frags \in Nat
  BY DEF TlBusy, TxKnown, OutKnown, Typed
<1>2. CASE Turns \/ Ends
  <2>1. /\ dl' = dl /\ pl' = pl /\ tl'.offset = tl.offset /\ tl'.merr = tl.merr /\ (tl.done => tl'.done)
    BY <1>2 DEF Turns, Ends
  <2> QED  BY <1>1, <2>1 DEF OutKnown, OutIs, TxKnown, TxIs
<1>3. CASE Reads
  <2>1. /\ dl'.txbuf = dl.txbuf /\ pl'.act = "read" /\ tl'.offset = tl.offset /\ tl'.merr = tl.merr
        /\ (tl.done => tl'.done)
    BY <1>3 DEF Reads
  <2> QED  BY <1>1, <2>1 DEF OutKnown, TxKnown, TxIs
<1>4. CASE Sends
  <2>1. OutKnown'
    BY <1>4 DEF Sends, OutKnown, OutIs
  <2>2. TxIs'
    <3>1. CASE tl.state = "tx" \/ tl.state = "resend"
      <4>1. dl'.txbuf = Body(Pctr(tl'.offset, app.frags), app.call) /\ tl'.offset > 0
        BY <1>1, <1>4, <3>1 DEF Sends
      <4> QED  BY <1>1, <4>1 DEF TxIs
    <3>2. CASE tl.state = "chaining_error"
      <4>1. tl.done /\ tl.offset = app.frags
        BY <3>2 DEF TlKnown
      <4>2. dl'.txbuf.pctr = "error" /\ tl'.merr > 0 /\ tl'.done /\ tl'.offset = app.frags
        BY <1>4, <3>2, <4>1 DEF Sends, Body
      <4> QED  BY <1>1, <4>2 DEF TxIs
    <3> QED  BY <1>4, <3>1, <3>2 DEF Sends
  <2> QED  BY <2>1, <2>2 DEF TxKnown
<1> QED  BY <1>2, <1>3, <1>4 DEF TlDoes

\* All of Structure.
LEMMA StructureTl ==
  ASSUME IInv, Structure, TlStep, app.call > 0
  PROVE  Structure'
<1> USE TodoIs DEF Structure
<1>1. TlBusy /\ TlDoes
  BY TlIs
<1>2. Typed'
  BY <1>1, TypedTl
<1>3. LostEnds'
  <2>1. ~lost
    BY <1>1 DEF LostEnds, TlBusy, Nothing
  <2> QED  BY <1>1, <2>1 DEF LostEnds, TlBusy
<1>4. todo' # Pal /\ timer' = "none" /\ pl'.frame \in {"ready", "uninit"} /\ app' = app /\ dev' = dev
  BY <1>1 DEF TlBusy, TlDoes, Turns, Reads, Sends, Ends
<1>5. Registers'
  <2>1. /\ pl'.act \in {"read", "write"} /\ pl'.cmd = pl.cmd /\ pl'.regact = pl.regact
    BY <1>1 DEF TlBusy, TlDoes, Turns, Reads, Sends, Ends, Registers
  <2> QED  BY <1>4, <2>1 DEF Registers
<1>6. BeforeCalls'
  BY <1>4 DEF BeforeCalls, Typed
<1>7. LinkKnown'
  <2>1. LinkKnown /\ Fed /\ dl.state = "idle" /\ ~dl'.error
    BY <1>1 DEF TlBusy, TlKnown
  <2>2. CASE Turns \/ Ends
    <3>1. dl' = dl /\ pl' = pl /\ todo'.to \in {"tl", "api"}
      BY <1>1, <2>2 DEF Turns, Ends, TlBusy
    <3> QED  BY <1>4, <2>1, <3>1 DEF LinkKnown
  <2>3. CASE Reads
    <3>1. dl'.state = "rx" /\ pl'.act = "read" /\ todo'.to = "pl" /\ ~dl'.resynced
      BY <2>1, <2>3 DEF Reads, Fed
    <3> QED  BY <1>4, <2>1, <3>1 DEF LinkKnown
  <2>4. CASE Sends
    <3>1. dl'.state = "tx" /\ pl'.act = "write" /\ todo'.to = "pl" /\ ~dl'.resynced
      BY <2>4 DEF Sends
    <3> QED  BY <1>4, <2>1, <3>1 DEF LinkKnown
  <2> QED  BY <1>1, <2>2, <2>3, <2>4 DEF TlDoes
<1>8. Received'
  <2>1. todo'.to # "dl"
    BY <1>1 DEF TlBusy, TlDoes, Turns, Reads, Sends, Ends
  <2>2. ~Holding'
    BY <1>4 DEF Holding
  <2> QED  BY <1>4, <2>1, <2>2 DEF Received
<1> QED  BY <1>1, <1>2, <1>3, <1>5, <1>6, <1>7, <1>8, TlTl, TxTl

\* No re-sync is under way while the transport layer is called, and all that was sent is taken.
LEMMA TlCalm ==
  ASSUME Structure, Protocol, TlBusy, app.call > 0
  PROVE  /\ (AtRest <=> InStep) /\ (InStep' <=> InStep) /\ (AtRest' => AtRest)
         /\ (InStep => dl.tx = dev.rx)
         /\ InStep /\ "error" \notin todo.events => ~dl.resynced /\ (tl.offset = app.frags => AllOwn(dev.all))
         /\ InStep /\ todo.body # NoBody => Own(todo.body)
         /\ Fed /\ tl.offset \in Nat /\ app.frags \in Nat /\ tl.offset <= app.frags
<1> USE DEF Protocol, Structure
<1>1. ~Unwritten
  BY TodoIs DEF TlBusy, Unwritten
<1>2. ~Pending
  BY <1>1 DEF Pending
<1>3. (AtRest <=> InStep) /\ (InStep' <=> InStep) /\ (AtRest' => AtRest)
  BY <1>2 DEF AtRest, InStep, TlBusy
<1>4. InStep => dl.tx = dev.rx
  BY DEF Numbers, TlBusy
<1>5. Fed
  BY DEF TlBusy, TlKnown
<1>6. "error" \notin todo.events => ~dl.resynced
  BY <1>5 DEF Fed
<1>7. InStep /\ ~dl.resynced /\ tl.offset = app.frags => AllOwn(dev.all)
  BY <1>3, <1>4 DEF Owned
<1>8. InStep /\ todo.body # NoBody => Own(todo.body)
  BY DEF Owned, TlBusy
<1> QED  BY <1>3, <1>4, <1>5, <1>6, <1>7, <1>8 DEF Typed

\* A new state changes nothing the device knows.
LEMMA TurnKeeps ==
  ASSUME Structure, Protocol, TlBusy, Turns, app.call > 0
  PROVE  Protocol'
<1> USE DEF Protocol, Structure
<1>1. /\ dev' = dev /\ dl' = dl /\ app' = app /\ resyncs' = resyncs /\ todo' = todo
      /\ (AtRest <=> InStep) /\ (InStep' <=> InStep) /\ (AtRest' => AtRest)
      /\ tl'.offset = tl.offset /\ tl'.cerr = tl.cerr /\ tl'.merr = tl.merr
  BY TlCalm DEF TlBusy, Turns
<1>2. Numbers'
  BY <1>1 DEF Numbers
<1>3. Owned'
  <2>1. InStep /\ tl'.done => AllOwn(dev.all)
    <3>1. ~(tl.offset < app.frags) => tl.offset = app.frags
      BY TlCalm
    <3>2. (tl'.done = tl.done) \/ (tl.offset = app.frags /\ "error" \notin todo.events)
      BY <3>1 DEF Turns
    <3> QED  BY <3>2, TlCalm DEF Owned
  <2>2. (AllOwn(dev.all) => AllOwn(dev.all)') /\ (AllOwn(dev.resp) => AllOwn(dev.resp)')
    BY <1>1 DEF AllOwn, Own
  <2>3. \A b : Own(b) => Own(b)'
    BY <1>1 DEF Own
  <2> QED  BY <1>1, <2>1, <2>2, <2>3 DEF Owned
<1>4. Delivered'
  BY <1>1 DEF Delivered, Turns, TlBusy
<1>5. Cleaned'
  <2>1. (Clean => Clean') /\ (Regular' <=> Regular)
    BY <1>1 DEF Clean, Regular
  <2>2. tl'.state # "idle"
    BY DEF Turns
  <2>3. AtRest /\ Regular /\ tl'.state = "error" => Clean
    <3>1. Regular => ~(tl.cerr > 0) /\ ~(tl.merr > 0)
      BY DEF Regular
    <3>2. AtRest /\ Regular /\ HasData => tl.offset = app.frags /\ (Last(todo.body) => Clean)
      BY DEF Cleaned, TlBusy, HasData
    <3>3. Last(todo.body) => HasData
      BY DEF Last, HasData, NoBody, Body
    <3>4. ~(tl.offset < app.frags /\ tl.offset = app.frags)
      BY TlCalm
    <3> QED  BY <3>1, <3>2, <3>3, <3>4 DEF Turns
  <2> QED  BY <1>1, <2>1, <2>2, <2>3 DEF Cleaned
<1>6. CanRun' => CanRun
  BY <1>1 DEF CanRun
<1>7. Runs'
  BY <1>1, <1>6, RunsKept
<1> QED  BY <1>2, <1>3, <1>4, <1>5, <1>7

\* What is joined is of the call.
LEMMA JoinedIs ==
  ASSUME Structure, Protocol, TlBusy, app.call > 0, LongData, InStep
  PROVE  Joined = app.call
<1>1. todo.body.call = app.call
  BY TlCalm DEF LongData, HasData, Own
<1>2. tl.total \in Nat /\ (tl.total > 0 => tl.answer = app.call)
  BY DEF Structure, Typed, Protocol, Delivered
<1>3. tl.total = 0 \/ tl.total > 0
  BY <1>2
<1> QED  BY <1>1, <1>2, <1>3 DEF Joined

\* What was joined belongs to the call.
LEMMA ReadKeeps ==
  ASSUME Structure, Protocol, TlBusy, Reads, app.call > 0
  PROVE  Protocol'
<1> USE DEF Protocol, Structure
<1>1. /\ dev' = dev /\ app' = app /\ resyncs' = resyncs /\ todo'.to = "pl"
      /\ dl'.tx = dl.tx /\ dl'.rx = dl.rx /\ dl'.resynced = dl.resynced /\ dl'.txbuf = dl.txbuf
      /\ dl'.state = "rx" /\ tl'.state = "rx"
      /\ (AtRest <=> InStep) /\ (InStep' <=> InStep) /\ (AtRest' => AtRest)
      /\ tl'.offset = tl.offset /\ tl'.cerr = tl.cerr /\ tl'.merr = tl.merr
  BY TlCalm, TodoIs DEF TlBusy, Reads
<1>2. Numbers'
  BY <1>1 DEF Numbers
<1>3. Owned'
  <2>1. InStep => AllOwn(dev.all)
    <3>1. tl.offset = app.frags /\ "error" \notin todo.events
      BY TlCalm DEF TlKnown, Reads
    <3> QED  BY <3>1, TlCalm
  <2>2. (AllOwn(dev.all) => AllOwn(dev.all)') /\ (AllOwn(dev.resp) => AllOwn(dev.resp)')
    BY <1>1 DEF AllOwn, Own
  <2>3. \A b : Own(b) => Own(b)'
    BY <1>1 DEF Own
  <2> QED  BY <1>1, <2>1, <2>2, <2>3 DEF Owned
<1>4. Delivered'
  <2>1. InStep /\ tl'.total > 0 => tl'.answer = app.call
    <3>1. CASE tl'.total = 0
      BY <3>1
    <3>2. CASE tl' = tl
      BY <3>2 DEF Delivered
    <3>3. CASE LongData /\ tl'.answer = Joined
      BY <3>3, JoinedIs
    <3> QED  BY <3>1, <3>2, <3>3 DEF Reads
  <2>2. app.flag # "success" \/ app.does # "waiting" \/ tl'.answer = tl.answer \/ (InStep => tl'.answer = app.call)
    <3>1. LongData /\ tl'.answer = Joined => (InStep => tl'.answer = app.call)
      BY JoinedIs
    <3> QED  BY <3>1 DEF Reads
  <2> QED  BY <1>1, <2>1, <2>2 DEF Delivered
<1>5. Cleaned'
  <2>1. (Clean => Clean') /\ (Regular' <=> Regular)
    BY <1>1 DEF Clean, Regular
  <2> QED  BY <1>1, <2>1 DEF Cleaned
<1>6. CanRun' => CanRun
  BY <1>1 DEF CanRun
<1>7. Runs'
  BY <1>1, <1>6, RunsKept
<1> QED  BY <1>2, <1>3, <1>4, <1>5, <1>7

\* A new number goes with the next fragment; a chain that begins again may be run again.
LEMMA SendKeeps ==
  ASSUME Structure, Protocol, TlBusy, Sends, app.call > 0
  PROVE  Protocol'
<1> USE DEF Protocol, Structure
<1>1. /\ dev' = dev /\ app' = app /\ resyncs' = resyncs /\ todo'.to = "pl"
      /\ dl'.tx = Succ(dl.tx) /\ dl'.rx = dl.rx /\ ~dl'.resynced /\ ~dl.resynced
      /\ dl'.state = "tx" /\ tl'.state = "tx" /\ tl'.answer = tl.answer /\ tl'.done = tl.done
      /\ (AtRest <=> InStep) /\ (InStep' <=> InStep) /\ (AtRest' => AtRest)
  <2>1. Fed /\ "error" \notin todo.events
    BY TlCalm DEF Sends
  <2>2. ~dl.resynced
    BY <2>1 DEF Fed
  <2> QED  BY <2>2, TlCalm, TodoIs DEF TlBusy, Sends
<1>2. InStep => dl'.tx = Succ(dev.rx) /\ dl'.tx # dev.rx
  <2>1. dev.rx \in Nr
    BY DEF Typed, Devices
  <2> QED  BY <1>1, <2>1, TlCalm, Circle
<1>3. Numbers'
  BY <1>1, <1>2 DEF Numbers
<1>4. Owned'
  <2>2. (AllOwn(dev.all) => AllOwn(dev.all)') /\ (AllOwn(dev.resp) => AllOwn(dev.resp)')
    BY <1>1 DEF AllOwn, Own
  <2>3. \A b : Own(b) => Own(b)'
    BY <1>1 DEF Own
  <2> QED  BY <1>1, <1>2, <2>2, <2>3 DEF Owned
<1>5. Delivered'
  <2>1. tl'.total \in {0, tl.total}
    BY DEF Sends
  <2> QED  BY <1>1, <2>1 DEF Delivered
<1>6. Cleaned'
  <2>1. Clean => Clean'
    BY <1>1 DEF Clean
  <2>2. AtRest /\ Regular' => Clean
    <3>1. tl'.cerr = 1 \/ tl'.merr = 1 => ~Regular'
      BY DEF Regular
    <3>2. tl'.cerr = tl.cerr /\ tl'.merr = tl.merr => (Regular' <=> Regular)
      BY <1>1 DEF Regular
    <3> QED  BY <3>1, <3>2 DEF Sends, Cleaned
  <2>3. Clean => dev.resp = <<>> /\ ~dev.job /\ (dev.sent = NoFrame \/ dev.tx = dl.rx)
    BY DEF Clean
  <2>4. \A i \in 1..Len(<<>>) : FALSE
    OBVIOUS
  <2> QED  BY <1>1, <2>1, <2>2, <2>3, <2>4 DEF Cleaned
<1>7. Runs'
  <2>1. resyncs \in 0..3 /\ tl.cerr \in {0, 1} /\ dev.runs \in 0..3
    BY DEF Typed, Devices
  <2>2. CASE tl.state = "tx" /\ tl.offset < app.frags /\ tl'.cerr = tl.cerr
    <3>1. CanRun
      BY <2>2 DEF CanRun
    <3> QED  BY <1>1, <2>2, <3>1, RunsKept
  <2>3. CASE ~(tl.cerr > 0) /\ tl'.cerr = 1
    <3>1. tl.cerr = 0
      BY <2>1, <2>3
    <3>2. Runs
      OBVIOUS
    <3>3. resyncs = 3 \/ dev.runs <= 1 + resyncs
      BY <2>1, <3>1, <3>2 DEF Runs
    <3> HIDE DEF Protocol, Structure
    <3> QED  BY <1>1, <2>1, <2>3, <3>3 DEF Runs
  <2>4. CASE tl.state = "chaining_error" /\ tl'.offset = tl.offset /\ tl'.cerr = tl.cerr /\ dl'.txbuf = Body("error", app.call)
    <3>1. ~(tl'.offset < app'.frags)
      BY <1>1, <2>4, TlCalm DEF TlKnown
    <3>2. ~Last(dl'.txbuf)
      BY <2>4 DEF Last, Body
    <3>3. ~CanRun'
      BY <1>1, <3>1, <3>2 DEF CanRun
    <3> QED  BY <1>1, <2>4, <3>3, RunsKept
  <2> QED  BY <2>2, <2>3, <2>4 DEF Sends
<1> QED  BY <1>3, <1>4, <1>5, <1>6, <1>7

\* The call ends, and when nothing went astray nothing of it is left in the device.
LEMMA EndKeeps ==
  ASSUME Structure, Protocol, TlBusy, Ends, app.call > 0
  PROVE  Protocol'
<1> USE DEF Protocol, Structure
<1>1. /\ dev' = dev /\ dl' = dl /\ app' = app /\ resyncs' = resyncs /\ todo'.to = "api"
      /\ (AtRest <=> InStep) /\ (InStep' <=> InStep) /\ (AtRest' => AtRest)
      /\ tl'.offset = tl.offset /\ tl'.cerr = tl.cerr /\ tl'.merr = tl.merr /\ tl'.done = tl.done
  BY TlCalm DEF TlBusy, Ends
<1>2. Numbers'
  BY <1>1 DEF Numbers
<1>3. Owned'
  <2>2. (AllOwn(dev.all) => AllOwn(dev.all)') /\ (AllOwn(dev.resp) => AllOwn(dev.resp)')
    BY <1>1 DEF AllOwn, Own
  <2>3. \A b : Own(b) => Own(b)'
    BY <1>1 DEF Own
  <2> QED  BY <1>1, <2>2, <2>3 DEF Owned
<1>a. tl.state = "rx" /\ Last(todo.body) => HasData /\ LongData
  BY DEF Last, HasData, LongData, NoBody, Body
<1>4. Delivered'
  <2>1. CASE tl.state = "rx" /\ Last(todo.body) /\ tl'.answer = Joined
    <3>1. InStep => tl'.answer = app.call
      BY <1>a, <2>1, JoinedIs
    <3> QED  BY <1>1, <3>1 DEF Delivered
  <2>2. CASE todo'.event # "success" /\ tl'.total = tl.total /\ tl'.answer = tl.answer
    BY <1>1, <2>2 DEF Delivered
  <2> QED  BY <2>1, <2>2 DEF Ends
<1>5. Cleaned'
  <2>1. (Clean => Clean') /\ (Regular' <=> Regular)
    BY <1>1 DEF Clean, Regular
  <2>2. AtRest /\ (Regular \/ dl.resynced) => Clean
    <3>1. AtRest /\ dl.resynced => Clean
      BY DEF Cleaned
    <3>2. "error" \in todo.events => dl.resynced
      BY TlCalm DEF Fed
    <3>3. AtRest /\ Regular /\ tl.state = "error" => Clean
      BY DEF Cleaned
    <3>4. AtRest /\ Regular /\ tl.state = "rx" /\ Last(todo.body) => Clean
      BY <1>a DEF Cleaned, HasData, TlBusy
    <3> QED  BY <3>1, <3>2, <3>3, <3>4 DEF Ends
  <2> QED  BY <1>1, <2>1, <2>2 DEF Cleaned
<1>6. CanRun' => CanRun
  BY <1>1 DEF CanRun
<1>7. Runs'
  BY <1>1, <1>6, RunsKept
<1> QED  BY <1>2, <1>3, <1>4, <1>5, <1>7

\* Whatever the transport layer does, the protocol is kept.
LEMMA ProtocolTl ==
  ASSUME IInv, Structure, Protocol, TlStep, app.call > 0
  PROVE  Protocol'
<1>1. TlBusy /\ TlDoes
  BY TlIs
<1> QED  BY <1>1, TurnKeeps, ReadKeeps, SendKeeps, EndKeeps DEF TlDoes

-----------------------------------------------------------------------------
(* The protocol is kept by the caller and the two threads *)

\* A step that only passes the result on, or only concerns the threads.
Still ==
  /\ UNCHANGED <<dev, pl, timer, dl, tl, resyncs, unsynced, lost>>
  /\ app'.call = app.call /\ app'.frags = app.frags
  /\ \/ todo' = todo
     \/ todo.to \in Reporter /\ todo'.to \in {"none", "comms", "ifx"}
  /\ app'.does = "waiting" => app.does = "waiting"
  /\ app'.does \in {"opening", "start"} => app'.does = app.does
  /\ app'.does = "waiting" /\ app'.flag = "success" =>
       app.flag = "success" \/ (todo.to = "api" /\ todo.event = "success")
  /\ lost => UNCHANGED <<todo, app>>

\* It keeps everything.
LEMMA StillKeeps ==
  ASSUME IInv, Structure, Protocol, Still
  PROVE  Structure' /\ Protocol'
<1> USE TodoIs DEF Structure, Protocol
<1>1. /\ UNCHANGED <<dev, pl, timer, dl, tl, resyncs, unsynced, lost>>
      /\ app'.call = app.call /\ app'.frags = app.frags
  BY DEF Still
<1>2. \/ todo' = todo
      \/ /\ todo.to \in Reporter /\ todo'.to \in {"none", "comms", "ifx"} /\ todo' # Pal /\ todo' # Pl
         /\ pl.frame \in {"ready", "uninit"} /\ todo # Pal /\ todo # Pl
  <2>1. todo.to \in Reporter => pl.frame \in {"ready", "uninit"} /\ todo # Pal /\ todo # Pl
    BY DEF IInv, FrameState, Reporter
  <2> QED  BY <2>1 DEF Still
<1>3. Typed'
  BY <1>1, <1>2 DEF Typed
<1>4. LostEnds'
  BY <1>1 DEF LostEnds, Still, Flagged
<1>5. Registers'
  BY <1>1, <1>2 DEF Registers, Holding
<1>6. BeforeCalls'
  <2>1. app.call = 0 => Unused'
    BY <1>1, <1>2 DEF BeforeCalls, Unused
  <2> QED  BY <1>1, <2>1 DEF BeforeCalls, Still
<1>7. OutKnown' /\ TxKnown'
  BY <1>1 DEF OutKnown, OutIs, TxKnown, TxIs
<1>8. LinkKnown'
  BY <1>1, <1>2 DEF LinkKnown, Reporter
<1>9. TlKnown'
  <2>1. todo' = todo => (Fed => Fed')
    BY <1>1 DEF Fed
  <2> QED  BY <1>1, <1>2, <2>1 DEF TlKnown, Reporter
<1>10. Received'
  BY <1>1, <1>2 DEF Received, Holding
<1>11. Quiet
  <2>1. Pending => Pending'
    BY <1>1, <1>2 DEF Pending, Unwritten
  <2>2. InStep' => InStep
    BY <1>1 DEF InStep
  <2>3. OnlyOut(dev, dev')
    BY <1>1 DEF OnlyOut
  <2>4. todo'.to = "tl" => todo' = todo
    BY <1>2
  <2> QED  BY <1>1, <2>1, <2>2, <2>3, <2>4 DEF Quiet
<1>12. Delivered'
  <2>1. InStep' => InStep
    BY <1>1 DEF InStep
  <2>2. todo'.to = "api" => todo' = todo
    BY <1>2
  <2> QED  BY <1>1, <2>1, <2>2 DEF Delivered, Still
<1> QED  BY <1>3, <1>4, <1>5, <1>6, <1>7, <1>8, <1>9, <1>10, <1>11, <1>12, QuietKeeps

\* The report, the steps of the two threads, and time.
LEMMA StillSteps ==
  ASSUME IInv, Structure,
         \/ ApiSetsFlag \/ CommsFrees \/ IfxFrees \/ InitCallback
         \/ TransceiveRefused \/ CallerReleases \/ CallerMarks \/ CallerSees
         \/ Time \/ UNCHANGED vars
  PROVE  Still
<1> USE TodoIs DEF IInv, Structure
<1>a. lost => ~Flagged /\ todo = Nothing /\ app.does \in {"opening", "waiting"}
  BY DEF LostEnds
<1>1. CASE ApiSetsFlag
  <2>1. /\ todo.to = "api" /\ UNCHANGED <<dev, pl, timer, dl, tl, resyncs, unsynced, lost>>
        /\ app' = [app EXCEPT !.flag = todo.event] /\ todo'.to = "comms"
    BY <1>1 DEF ApiSetsFlag, Reporting, linkVars
  <2>2. app'.flag = todo.event /\ app'.does = app.does /\ app'.call = app.call /\ app'.frags = app.frags
    BY <2>1 DEF Fields
  <2> QED  BY <1>a, <2>1, <2>2 DEF Still, Reporter
<1>2. CASE CommsFrees \/ IfxFrees
  <2>1. /\ todo.to \in {"comms", "ifx"} /\ UNCHANGED <<dev, pl, timer, dl, tl, resyncs, unsynced, lost, app>>
        /\ todo'.to \in {"ifx", "none"}
    BY <1>2 DEF CommsFrees, IfxFrees, Reporting, linkVars, ChainEnds
  <2> QED  BY <1>a, <2>1 DEF Still, Reporter
<1>3. CASE InitCallback
  BY <1>3 DEF InitCallback, Fire, Still, linkVars
<1>4. CASE TransceiveRefused
  <2>1. /\ UNCHANGED <<todo, dev, pl, timer, dl, tl, resyncs, unsynced, lost>>
        /\ app.does = "idle" /\ app' = [app EXCEPT !.does = "refused"]
    BY <1>4 DEF TransceiveRefused, busVars, linkVars
  <2>2. app'.flag = app.flag /\ app'.does = "refused" /\ app'.call = app.call /\ app'.frags = app.frags
    BY <2>1 DEF Fields
  <2> QED  BY <1>a, <2>1, <2>2 DEF Still
<1>5. CASE CallerReleases \/ CallerMarks
  BY <1>5 DEF CallerReleases, CallerMarks, Stays, linkVars, Still
<1>6. CASE CallerSees
  <2>1. /\ UNCHANGED <<todo, dev, pl, timer, dl, tl, resyncs, unsynced, lost>> /\ Flagged
        /\ \E d \in {"failed", "idle"} : app' = [app EXCEPT !.does = d]
    BY <1>6 DEF CallerSees, busVars, linkVars, Flagged
  <2>2. app'.flag = app.flag /\ app'.does \in {"failed", "idle"} /\ app'.call = app.call /\ app'.frags = app.frags
    BY <2>1 DEF Fields
  <2> QED  BY <1>a, <2>1, <2>2 DEF Still
<1>7. CASE Time
  BY <1>7 DEF Time, TimePasses, Stays, linkVars, Still
<1>8. CASE UNCHANGED vars
  BY <1>8 DEF vars, busVars, linkVars, Still
<1> QED  BY <1>1, <1>2, <1>3, <1>4, <1>5, <1>6, <1>7, <1>8

\* Before the first call the layers are opened.
LEMMA OpeningKeeps ==
  ASSUME IInv, Structure, app.call = 0,
         TlStep \/ LayersInit \/ Open
  PROVE  Structure' /\ app'.call = 0
<1> USE TodoIs DEF IInv, Structure
<1>a. Unused /\ dl.state = "idle" /\ DeviceSound(dev) /\ app.call \in Nat
  BY DEF BeforeCalls, Unused, DlInitial, Received, Typed
<1>1. CASE TlStep
  <2>1. tl.state = "idle"
    BY <1>a DEF Unused
  <2>2. TlIdle \/ TlError
    BY <1>1, <2>1 DEF TlStep, TlSent, TlReceived, TlChaining, TlResend, TlChainingError, InTl
  <2>3. /\ todo.to = "tl" /\ todo'.to = "api"
        /\ UNCHANGED <<dev, pl, timer, dl, resyncs, unsynced, lost, app>>
    BY <2>2 DEF TlIdle, TlError, InTl, TlKeeps, TlReport, Api
  <2>4. \/ tl' = tl
        \/ \E e \in {"error", "mem"} : tl' = [tl EXCEPT !.event = e, !.state = "idle"]
    <3>1. CASE TlIdle
      BY <3>1 DEF TlIdle, TlReport
    <3>2. CASE TlError
      <4>1. "error" \in todo.events
        BY <2>1, <3>2 DEF TlError, InTl
      <4>2. tl' = [tl EXCEPT !.event = "error", !.state = "idle"]
        BY <3>2, <4>1 DEF TlError, TlReport
      <4> QED  BY <4>2
    <3> QED  BY <2>2, <3>1, <3>2
  <2>5. /\ tl'.state = "idle" /\ tl'.offset = tl.offset /\ tl'.total = tl.total /\ tl'.done = tl.done
        /\ tl'.cerr = tl.cerr /\ tl'.merr = tl.merr /\ tl'.answer = tl.answer /\ tl'.event \in {"error", "mem"}
    BY <2>1, <2>4, PlFields DEF TlKnown
  <2>6. todo' # Pal /\ todo' # Pl /\ todo # Pal /\ todo # Pl /\ timer = "none"
    BY <2>3 DEF UnderWay
  <2>7. Typed'
    BY <2>3, <2>5 DEF Typed
  <2>8. LostEnds' /\ Registers'
    BY <2>3, <2>6 DEF LostEnds, Registers, Holding
  <2>9. BeforeCalls'
    BY <1>a, <2>3, <2>5, <2>6 DEF BeforeCalls, Unused
  <2>10. OutKnown' /\ TxKnown' /\ LinkKnown'
    BY <1>a, <2>3, <2>6 DEF OutKnown, TxKnown, LinkKnown
  <2>11. TlKnown'
    BY <1>a, <2>3, <2>5 DEF TlKnown
  <2>12. Received'
    BY <2>3, <2>6 DEF Received, Holding
  <2> QED  BY <2>3, <2>7, <2>8, <2>9, <2>10, <2>11, <2>12
<1>2. CASE LayersInit
  <2>1. /\ todo = Nothing /\ todo' = Pl /\ timer = "init" /\ timer' = "none"
        /\ UNCHANGED <<dev, resyncs, unsynced, lost, app>> /\ dl' = DlInitial /\ tl' = TlInitial
        /\ pl' = [pl EXCEPT !.nego = "default", !.retry = MaxRetry, !.frame = "init"]
    BY <1>2 DEF LayersInit, Fire
  <2>2. /\ pl'.frame = "init" /\ pl'.reg = pl.reg /\ pl'.act = pl.act /\ pl'.cmd = pl.cmd
        /\ pl'.regact = pl.regact /\ pl'.out = pl.out /\ pl'.in = pl.in
    BY <2>1, PlFields
  <2>3. dl' = dl
    BY <1>a, <2>1 DEF Unused
  <2>4. /\ tl'.state = "idle" /\ tl'.offset = 0 /\ tl'.total = 0 /\ tl'.done = FALSE /\ tl'.event = "error"
        /\ tl'.cerr = 0 /\ tl'.merr = 0 /\ tl'.answer = 0
    BY <2>1 DEF TlInitial
  <2>5. app.frags = 1 /\ tl.offset = 0
    BY <1>a DEF Unused
  <2>6. Typed'
    <3>1. tl'.offset \in Nat /\ tl'.offset <= app.frags /\ tl'.done \in BOOLEAN /\ tl'.answer \in 0..app.call
          /\ tl'.total \in Nat /\ tl'.cerr \in {0, 1} /\ tl'.merr \in {0, 1}
      <4>1. tl'.done \in BOOLEAN
        BY <2>4
      <4>2. tl'.offset \in Nat /\ tl'.offset <= app.frags
        BY <2>4, <2>5
      <4>3. tl'.answer \in 0..app.call /\ tl'.total \in Nat /\ tl'.cerr \in {0, 1} /\ tl'.merr \in {0, 1}
        BY <1>a, <2>4
      <4> QED  BY <4>1, <4>2, <4>3
    <3>2. todo'.to = "pl"
      BY <2>1
    <3> QED  BY <2>1, <2>2, <2>3, <3>1, <3>2 DEF Typed
  <2>7. LostEnds'
    BY <2>1 DEF LostEnds
  <2>8. Registers'
    BY <2>1, <2>2 DEF Registers, Holding
  <2>9. BeforeCalls'
    BY <1>a, <2>1, <2>2, <2>3, <2>4, <2>5 DEF BeforeCalls, Unused
  <2>10. OutKnown' /\ TxKnown' /\ LinkKnown'
    BY <1>a, <2>1, <2>2, <2>3 DEF OutKnown, TxKnown, LinkKnown
  <2>11. TlKnown'
    BY <1>a, <2>1, <2>3, <2>4 DEF TlKnown
  <2>12. Received'
    BY <1>a, <2>1, <2>2 DEF Received, Holding
  <2> QED  BY <2>1, <2>6, <2>7, <2>8, <2>9, <2>10, <2>11, <2>12
<1>3. CASE Open
  <2>1. /\ todo = Nothing /\ timer = "none" /\ timer' = "init"
        /\ UNCHANGED <<todo, dev, pl, resyncs, unsynced, lost, dl, tl>>
        /\ app' = [app EXCEPT !.does = "opening", !.flag = "busy"]
    BY <1>3 DEF Open, linkVars
  <2>2. app'.does = "opening" /\ app'.call = app.call /\ app'.frags = app.frags
    BY <2>1 DEF Fields
  <2>3. ~lost
    BY <1>3 DEF Open, LostEnds
  <2>4. Typed' /\ LostEnds'
    BY <2>1, <2>2, <2>3 DEF Typed, LostEnds
  <2>5. Registers' /\ Received'
    BY <2>1 DEF Registers, Holding, Received
  <2>6. BeforeCalls'
    BY <1>a, <2>1, <2>2 DEF BeforeCalls, Unused
  <2>7. OutKnown' /\ TxKnown' /\ LinkKnown'
    BY <1>a, <2>1, <2>2 DEF OutKnown, TxKnown, LinkKnown
  <2>8. TlKnown'
    BY <1>a, <2>1, <2>2 DEF TlKnown
  <2> QED  BY <2>2, <2>4, <2>5, <2>6, <2>7, <2>8
<1> QED  BY <1>1, <1>2, <1>3

\* What belonged to the calls before belongs to the calls so far.
LEMMA CallsGrow ==
  ASSUME NEW n \in Nat
  PROVE  /\ Bodies(n) \subseteq Bodies(n + 1) /\ Frames(n) \subseteq Frames(n + 1)
         /\ Devices(n) \subseteq Devices(n + 1)
<1>1. 0..n \subseteq 0..(n + 1)
  OBVIOUS
<1>2. Bodies(n) \subseteq Bodies(n + 1)
  BY <1>1 DEF Bodies
<1>3. Frames(n) \subseteq Frames(n + 1)
  BY <1>2 DEF Frames
<1>4. Devices(n) \subseteq Devices(n + 1)
  <2>1. Seq(Frames(n)) \subseteq Seq(Frames(n + 1)) /\ Seq(Bodies(n)) \subseteq Seq(Bodies(n + 1))
    BY <1>2, <1>3
  <2> QED  BY <1>1, <1>3, <2>1 DEF Devices
<1> QED  BY <1>2, <1>3, <1>4

\* A call begins.
Begins(n) ==
  /\ n \in Nat \ {0} /\ app.does = "idle" /\ tl.state = "idle" /\ dl.state = "idle" /\ todo = Nothing
  /\ timer = "none" /\ pl.frame = "ready" /\ ~lost /\ app.call \in Nat
  /\ UNCHANGED <<timer, lost>>
  /\ app'.does = "waiting" /\ app'.flag = "busy" /\ app'.call = app.call + 1 /\ app'.frags = n
  /\ dev' = [dev EXCEPT !.runs = 0, !.garbled = FALSE]
  /\ unsynced' = (unsynced \/ LeftAstray) /\ resyncs' = 0
  /\ tl'.state = "tx" /\ tl'.offset = 1 /\ tl'.total = 0 /\ tl'.done = FALSE /\ tl'.cerr = 0 /\ tl'.merr = 0
  /\ tl'.answer = 0 /\ tl'.event = "error"
  /\ todo' = Pl /\ pl'.act = "write" /\ pl'.out = Frame("data", "ack", dl'.tx, dl.rx, dl'.txbuf)
  /\ pl'.frame = "ready" /\ pl'.in = pl.in /\ pl'.cmd = pl.cmd /\ pl'.regact = pl.regact
  /\ dl'.tx = Succ(dl.tx) /\ dl'.rx = dl.rx /\ dl'.resynced = FALSE
  /\ dl'.txbuf = Body(Pctr(1, n), app.call + 1)
  /\ dl'.rxbuf = dl.rxbuf /\ dl'.rxonly = FALSE /\ dl'.state = "tx" /\ ~dl'.error

\* That is what Transceive does.
LEMMA BeginIs ==
  ASSUME IInv, Structure, NEW n \in Nat \ {0}, NEW r, Transceive(n, r)
  PROVE  Begins(n)
<1> USE TodoIs DEF IInv, Structure
<1>1. /\ app.does = "idle" /\ tl.state = "idle" /\ dl.state = "idle" /\ todo = Nothing
      /\ app' = CommandCall(n, r) /\ resyncs' = 0 /\ UNCHANGED <<timer, lost>>
      /\ dev' = [dev EXCEPT !.runs = 0, !.garbled = FALSE]
      /\ SendNextFragment([TlInitial EXCEPT !.state = "tx"], n, app.call + 1)
      /\ unsynced' = (unsynced \/ LeftAstray)
  BY DEF Transceive, DlIsIdle
<1>2. Flagged /\ timer = "none" /\ pl.frame = "ready" /\ ~lost
  BY <1>1 DEF UnderWay, FrameState, Failing, LostEnds
<1>3. /\ app'.does = "waiting" /\ app'.flag = "busy" /\ app'.call = app.call + 1 /\ app'.frags = n
  BY <1>1 DEF CommandCall, Fields
<1> DEFINE t == [TlInitial EXCEPT !.state = "tx"]
<1>4. /\ t.state = "tx" /\ t.offset = 0 /\ t.total = 0 /\ t.done = FALSE /\ t.cerr = 0 /\ t.merr = 0
      /\ t.answer = 0 /\ t.event = "error" /\ DOMAIN t = DOMAIN TlInitial
      /\ {"state", "offset", "total", "done", "cerr", "merr", "answer", "event"} \subseteq DOMAIN t
  BY DEF TlInitial
<1>5. SendNextFragment(t, n, app.call + 1)
  BY <1>1
<1> HIDE DEF t
<1>6. /\ tl' = [t EXCEPT !.offset = @ + 1] /\ SendFrame(Body(Pctr(t.offset + 1, n), app.call + 1))
  BY <1>5 DEF SendNextFragment
<1>7. 0 + 1 = 1
  OBVIOUS
<1>8. /\ tl'.state = "tx" /\ tl'.offset = 1 /\ tl'.total = 0 /\ tl'.done = FALSE /\ tl'.cerr = 0
      /\ tl'.merr = 0 /\ tl'.answer = 0 /\ tl'.event = "error"
  BY <1>4, <1>6, <1>7
<1>9. SendFrame(Body(Pctr(1, n), app.call + 1))
  BY <1>4, <1>6, <1>7
<1>10. ~dl.error
  BY DEF LinkKnown
<1>11. /\ todo' = Pl /\ pl'.act = "write" /\ pl'.out = Frame("data", "ack", dl'.tx, dl.rx, dl'.txbuf)
       /\ dl'.tx = Succ(dl.tx) /\ dl'.rx = dl.rx /\ dl'.resynced = FALSE
       /\ dl'.txbuf = Body(Pctr(1, n), app.call + 1)
       /\ dl'.rxbuf = dl.rxbuf /\ dl'.rxonly = FALSE /\ dl'.state = "tx" /\ ~dl'.error
       /\ pl'.frame = pl.frame /\ pl'.in = pl.in /\ pl'.cmd = pl.cmd /\ pl'.regact = pl.regact
  BY <1>2, <1>9, <1>10, FragmentIs
<1>12. app.call \in Nat
  BY DEF Typed
<1> QED  BY <1>1, <1>2, <1>3, <1>8, <1>11, <1>12 DEF Begins

\* The device is the same to the new call ...
LEMMA DeviceBegins ==
  ASSUME Typed, Received, NEW n, Begins(n)
  PROVE  /\ dev' \in Devices(app.call) /\ dev'.runs = 0 /\ dev'.garbled = FALSE
         /\ dev'.rx = dev.rx /\ dev'.tx = dev.tx /\ dev'.out = dev.out /\ dev'.sent = dev.sent
         /\ dev'.job = dev.job /\ dev'.resp = dev.resp /\ dev'.all = dev.all /\ dev'.call = dev.call
         /\ DeviceSound(dev')
<1>1. /\ dev' \in Devices(app.call) /\ dev'.runs = 0 /\ dev'.garbled = FALSE
      /\ dev'.rx = dev.rx /\ dev'.tx = dev.tx /\ dev'.out = dev.out /\ dev'.sent = dev.sent
      /\ dev'.job = dev.job /\ dev'.resp = dev.resp /\ dev'.all = dev.all /\ dev'.call = dev.call
  <2>1. dev \in Devices(app.call) /\ dev' = [dev EXCEPT !.runs = 0, !.garbled = FALSE]
    BY DEF Typed, Begins
  <2>2. 0 \in 0..3 /\ FALSE \in BOOLEAN
    OBVIOUS
  <2>3. dev' \in Devices(app.call)
    BY <2>1, <2>2 DEF Devices
  <2>4. dev'.runs = 0 /\ dev'.garbled = FALSE
    BY <2>1 DEF Devices
  <2>5. /\ dev'.rx = dev.rx /\ dev'.tx = dev.tx /\ dev'.out = dev.out /\ dev'.sent = dev.sent
        /\ dev'.job = dev.job /\ dev'.resp = dev.resp /\ dev'.all = dev.all /\ dev'.call = dev.call
    BY <2>1 DEF Devices
  <2> QED  BY <2>3, <2>4, <2>5
<1>2. \A f : From(dev, f) => From(dev', f)
  BY <1>1 DEF From
<1>3. DeviceSound(dev')
  BY <1>1, <1>2 DEF Received, DeviceSound
<1> QED  BY <1>1, <1>3

\* ... the types are kept ...
LEMMA TypedBegins ==
  ASSUME Typed, Received, NEW n, Begins(n)
  PROVE  Typed'
<1> USE TodoIs
<1>1. /\ app.call \in Nat /\ app'.call = app.call + 1 /\ app'.frags = n /\ n \in Nat \ {0}
  BY DEF Begins
<1>2. app'.call \in Nat /\ app'.call \in 0..app'.call
  BY <1>1
<1>3. dev' \in Devices(app'.call)
  BY <1>1, DeviceBegins, CallsGrow
<1>4. pl'.in \in Frames(app'.call) /\ dl.txbuf \in Bodies(app'.call) /\ dl'.rxbuf \in Bodies(app'.call)
  BY <1>1, CallsGrow DEF Typed, Begins
<1>5. dl'.tx \in Nr /\ dl'.rx \in Nr
  BY Circle DEF Typed, Begins
<1>6. dl'.txbuf \in Bodies(app'.call)
  <2>1. Pctr(1, n) \in Chaining /\ 1 <= n
    BY <1>1, PctrIs DEF Chaining
  <2> QED  BY <1>1, <1>2, <2>1 DEF Begins, Body, Bodies
<1>7. pl'.out \in Frames(app'.call)
  <2>1. Frame("data", "ack", dl'.tx, dl.rx, dl'.txbuf) \in Frames(app'.call)
    BY <1>5, <1>6 DEF Frame, Frames, Begins
  <2> QED  BY <2>1 DEF Begins
<1>8. /\ tl'.answer \in 0..app'.call /\ tl'.total \in Nat
      /\ tl'.offset \in Nat /\ app'.frags \in Nat \ {0} /\ tl'.offset <= app'.frags
      /\ tl'.cerr \in {0, 1} /\ tl'.merr \in {0, 1} /\ resyncs' \in 0..3
  BY <1>1, <1>2 DEF Begins
<1>9. tl'.done \in BOOLEAN /\ dl'.resynced \in BOOLEAN /\ dl'.rxonly \in BOOLEAN
  BY DEF Begins
<1>10. unsynced' \in BOOLEAN
  BY DEF Begins
<1>11. todo'.to = "pl"
  BY DEF Begins
<1> QED  BY <1>2, <1>3, <1>4, <1>5, <1>6, <1>7, <1>8, <1>9, <1>10, <1>11 DEF Typed

\* ... and so is the rest of Structure.
LEMMA StructureBegins ==
  ASSUME Structure, NEW n, Begins(n)
  PROVE  Structure'
<1> USE TodoIs DEF Structure
<1>1. Typed'
  BY TypedBegins
<1>2. app'.call \in Nat /\ app'.call > 0 /\ app'.call # 0
  BY DEF Begins
<1>3. LostEnds'
  BY DEF LostEnds, Begins
<1>4. todo' # Pal /\ timer' = "none" /\ todo'.to = "pl" /\ pl'.frame = "ready"
  BY DEF Begins
<1>5. Registers'
  BY <1>4 DEF Registers, Begins
<1>6. BeforeCalls'
  BY <1>2 DEF BeforeCalls, Begins
<1>7. OutKnown'
  BY DEF OutKnown, OutIs, Begins
<1>8. TxKnown'
  <2>1. tl'.offset > 0 /\ dl'.txbuf = Body(Pctr(tl'.offset, app'.frags), app'.call)
    BY DEF Begins
  <2> QED  BY <2>1 DEF TxKnown, TxIs
<1>9. LinkKnown'
  BY <1>4 DEF LinkKnown, Begins
<1>10. TlKnown'
  <2>1. ~(tl'.merr > 0)
    BY DEF Begins
  <2> QED  BY <1>4, <2>1 DEF TlKnown, Begins
<1>11. Received'
  BY <1>4, DeviceBegins DEF Received, Holding
<1> QED  BY <1>1, <1>3, <1>5, <1>6, <1>7, <1>8, <1>9, <1>10, <1>11

\* A call begins with a device that has nothing left to say, unless the call before went astray.
LEMMA ProtocolBegins ==
  ASSUME Structure, Protocol, NEW n, Begins(n)
  PROVE  Protocol'
<1> USE TodoIs DEF Structure, Protocol
<1>1. /\ dev'.rx = dev.rx /\ dev'.tx = dev.tx /\ dev'.sent = dev.sent /\ dev'.runs = 0
      /\ dev'.job = dev.job /\ dev'.resp = dev.resp /\ dev'.all = dev.all
  BY DeviceBegins
<1>2. /\ dl'.tx = Succ(dl.tx) /\ dl'.rx = dl.rx /\ ~dl'.resynced /\ dl'.state = "tx" /\ todo'.to = "pl"
      /\ tl'.state = "tx" /\ ~tl'.done /\ tl'.total = 0 /\ app'.flag = "busy" /\ tl'.cerr = 0 /\ resyncs' = 0
      /\ dl.state = "idle" /\ tl.state = "idle"
  BY DEF Begins
<1>3. ~Unwritten
  BY DEF Begins, Unwritten
<1>4. InStep' => InStep /\ AtRest /\ ~LeftAstray
  <2>1. ~Pending
    BY <1>3 DEF Pending
  <2> QED  BY <2>1 DEF InStep, AtRest, Begins
<1>5. AtRest' => InStep'
  BY DEF AtRest
<1>6. InStep' => Clean
  <2>1. ~LeftAstray => Regular \/ dl.resynced
    <3>1. /\ tl.cerr \in {0, 1} /\ tl.merr \in {0, 1}
      BY DEF Typed
    <3>2. (tl.cerr = 0 \/ tl.cerr > 0) /\ (tl.merr = 0 \/ tl.merr > 0)
      BY <3>1
    <3> QED  BY <3>2 DEF LeftAstray, Regular
  <2> QED  BY <1>2, <1>4, <2>1 DEF Cleaned
<1>7. InStep' => dl'.tx = Succ(dev.rx) /\ dl'.tx # dev.rx
  <2>1. InStep => dl.tx = dev.rx
    BY <1>2 DEF Numbers
  <2>2. dev.rx \in Nr
    BY DEF Typed, Devices
  <2> QED  BY <1>2, <1>4, <2>1, <2>2, Circle
<1>8. Clean => ~dev.job /\ dev.resp = <<>> /\ (dev.sent = NoFrame \/ dev.tx = dl.rx)
  BY DEF Clean
<1>9. Numbers'
  BY <1>1, <1>2, <1>4, <1>5, <1>7 DEF Numbers
<1>10. Owned'
  <2>1. dev'.resp = <<>> => AllOwn(dev.resp)'
    BY DEF AllOwn
  <2> QED  BY <1>1, <1>2, <1>5, <1>6, <1>7, <1>8, <2>1 DEF Owned
<1>11. Delivered'
  BY <1>2 DEF Delivered
<1>12. Cleaned'
  <2>1. Clean => Clean'
    BY <1>1, <1>2 DEF Clean
  <2>2. \A i \in 1..Len(<<>>) : FALSE
    OBVIOUS
  <2> QED  BY <1>1, <1>2, <1>5, <1>6, <1>8, <2>1, <2>2 DEF Cleaned
<1>13. Runs'
  <2> HIDE DEF Structure, Protocol
  <2> QED  BY <1>1, <1>2 DEF Runs
<1> QED  BY <1>9, <1>10, <1>11, <1>12, <1>13

\* A stack that has not been opened has not used anything of the protocol.
LEMMA StructureInit == Init => Structure
<1> SUFFICES ASSUME Init
             PROVE  Structure
  OBVIOUS
<1> USE TodoIs DEF Init, LinkInit, BusInit, DevInit
<1>1. /\ NoFrame \in Frames(0) /\ NoBody \in Bodies(0) /\ <<>> \in Seq(Frames(0)) /\ <<>> \in Seq(Bodies(0))
      /\ 3 \in Nr
  BY NoBodyTyped DEF Nr
<1>2. dev \in Devices(0)
  BY <1>1 DEF Devices
<1>3. /\ dl.tx = 3 /\ dl.rx = 3 /\ dl.resynced = FALSE /\ dl.rxonly = FALSE /\ dl.txbuf = NoBody
      /\ dl.rxbuf = NoBody /\ dl.state = "idle" /\ dl.error = FALSE
  BY DEF DlInitial
<1>4. /\ tl.state = "idle" /\ tl.offset = 0 /\ tl.total = 0 /\ tl.done = FALSE /\ tl.event = "error"
      /\ tl.cerr = 0 /\ tl.merr = 0 /\ tl.answer = 0
  BY DEF TlInitial
<1>5. /\ pl.frame = "uninit" /\ pl.act = "write" /\ pl.out = NoFrame /\ pl.in = NoFrame
      /\ pl.regact = "read" /\ pl.cmd = "write" /\ pl.reg = "STATE" /\ pl.out.seq = "ack"
  BY DEF PlInitial, NoFrame, Frame
<1>6. app.call = 0 /\ app.frags = 1 /\ app.does = "start" /\ todo.to = "none" /\ todo = Nothing
  OBVIOUS
<1>7. Typed
  <2>1. tl.done \in BOOLEAN /\ dl.resynced \in BOOLEAN /\ dl.rxonly \in BOOLEAN /\ unsynced \in BOOLEAN
    BY <1>3, <1>4
  <2>2. /\ tl.answer \in 0..app.call /\ tl.total \in Nat
        /\ tl.offset \in Nat /\ app.frags \in Nat \ {0} /\ tl.offset <= app.frags
        /\ tl.cerr \in {0, 1} /\ tl.merr \in {0, 1} /\ resyncs \in 0..3
    BY <1>4, <1>6
  <2> QED  BY <1>1, <1>2, <1>3, <1>5, <1>6, <2>1, <2>2 DEF Typed
<1>8. LostEnds /\ Registers
  BY <1>5, <1>6 DEF LostEnds, Registers
<1>9. BeforeCalls
  BY <1>3, <1>4, <1>5, <1>6 DEF BeforeCalls, Unused
<1>10. OutKnown /\ TxKnown /\ LinkKnown
  BY <1>3, <1>5, <1>6 DEF OutKnown, TxKnown, LinkKnown
<1>11. TlKnown
  BY <1>3, <1>4, <1>6 DEF TlKnown
<1>12. Received
  BY <1>5, <1>6 DEF Received, DeviceSound, Holding
<1> QED  BY <1>7, <1>8, <1>9, <1>10, <1>11, <1>12 DEF Structure

\* Before it is opened the two ends know the same.
LEMMA SyncedInit == Init => Structure /\ Protocol
<1>1. Init => app.call = 0
  BY DEF Init
<1> QED  BY <1>1, StructureInit, UnusedProtocol DEF Structure

-----------------------------------------------------------------------------
(* A command is run once and answered with its own response *)

\* Every step keeps what the two ends know of each other.
LEMMA SyncedStep ==
  IInv /\ IInv' /\ Structure /\ Protocol /\ [Next]_vars => Structure' /\ Protocol'
<1> SUFFICES ASSUME IInv, IInv', Structure, Protocol, [Next]_vars
             PROVE  Structure' /\ Protocol'
  OBVIOUS
<1>1. CASE BusStep
  BY <1>1, StructureBus, ProtocolBus
<1>2. CASE LinkStep
  BY <1>2, StructureLink, ProtocolLink
<1>3. CASE DeviceStep
  BY <1>3, StructureDevice, ProtocolDevice
<1>4. CASE \/ ApiSetsFlag \/ CommsFrees \/ IfxFrees \/ InitCallback
           \/ TransceiveRefused \/ CallerReleases \/ CallerMarks \/ CallerSees
           \/ Time \/ UNCHANGED vars
  BY <1>4, StillSteps, StillKeeps
<1>5. CASE app.call = 0 /\ (TlStep \/ LayersInit \/ Open)
  <2>1. Structure' /\ app'.call = 0
    BY <1>5, OpeningKeeps
  <2>2. (Typed /\ BeforeCalls /\ app.call = 0)' => Protocol'
    BY UnusedProtocol, PTL
  <2>3. Structure' => Typed' /\ BeforeCalls'
    BY DEF Structure
  <2> QED  BY <2>1, <2>2, <2>3
<1>6. CASE app.call > 0 /\ TlStep
  BY <1>6, StructureTl, ProtocolTl
<1>7. ASSUME NEW z \in Sizes, Transceive(z[1], z[2])
      PROVE  Structure' /\ Protocol'
  <2>1. z[1] \in Nat \ {0}
    BY CommandAssumption
  <2>2. Begins(z[1])
    BY <1>7, <2>1, BeginIs
  <2> QED  BY <2>2, StructureBegins, ProtocolBegins
<1>8. LayersInit \/ Open => app.call = 0
  <2>1. LayersInit => app.does = "opening"
    BY DEF LayersInit, Fire, IInv, UnderWay
  <2> QED  BY <2>1 DEF Open, Structure, BeforeCalls
<1>9. app.call = 0 \/ app.call > 0
  BY DEF Structure, Typed
<1> QED  BY <1>1, <1>2, <1>3, <1>4, <1>5, <1>6, <1>7, <1>8, <1>9
         DEF Next, TransportStep, CallerStep, TlStep

\* Whatever is disturbed on the bus.
LEMMA SyncedAlways == Spec => [](IInv /\ Structure /\ Protocol)
<1>1. Init => Structure /\ Protocol
  BY SyncedInit
<1>2. IInv /\ IInv' /\ Structure /\ Protocol /\ [Next]_vars => Structure' /\ Protocol'
  BY SyncedStep
<1> QED  BY <1>1, <1>2, Invariance, PTL DEF Spec

\* Together they say that a command is run once and answered with its own response.
LEMMA OnceFromSynced ==
  ASSUME Structure, Protocol
  PROVE  RunAndAnsweredOnce
<1> USE DEF Structure
<1>1. RunOncePerSync
  <2>1. resyncs \in 0..3 /\ tl.cerr \in {0, 1} /\ dev.runs \in 0..3
    BY DEF Typed, Devices
  <2>2. Runs
    BY DEF Protocol
  <2> QED  BY <2>1, <2>2 DEF Runs, RunOncePerSync
<1>2. AnswerUnlessUnsynced
  <2>1. app.flag = "success" => ~lost
    BY DEF LostEnds, Flagged
  <2> QED  BY <2>1 DEF Protocol, Delivered, InStep, AnswerUnlessUnsynced
<1> QED  BY <1>1, <1>2 DEF RunAndAnsweredOnce

\* A call without a re-sync and without a repeated chain has its command run at most once,
\* and each of those adds at most one run (counted up to three); a successful call delivered the response to that
\* call unless a re-sync was missed or left out.  However the frames are damaged, lost or
\* repeated, whatever the limits on retries, and however many calls.
THEOREM AlwaysRunAndAnsweredOnce == Spec => []RunAndAnsweredOnce
<1>1. Structure /\ Protocol => RunAndAnsweredOnce
  BY OnceFromSynced
<1> QED  BY <1>1, SyncedAlways, PTL

-----------------------------------------------------------------------------
(* The stack implements the service *)

\* A step that neither asks nor answers, and may lose the synchronisation.
Unasked ==
  /\ app'.does = "waiting" <=> app.does = "waiting"
  /\ app.does = "waiting" => app'.flag = app.flag
  /\ app'.call = app.call
  /\ app.does = "waiting" /\ app.flag = "success" => tl'.answer = tl.answer
  /\ unsynced' \in {unsynced, TRUE}

\* It is no step of the service, or one that loses the synchronisation.
LEMMA UnaskedServes ==
  ASSUME Unasked
  PROVE  Service!LoseSync \/ UNCHANGED Service!vars
BY DEF Unasked, Service!LoseSync, Service!vars

\* The layers work for a caller that has not been answered.
LEMMA LayersServe ==
  ASSUME IInv, Structure, BusStep \/ LinkStep \/ TlStep \/ DeviceStep \/ Time \/ UNCHANGED vars
  PROVE  Unasked
<1> USE DEF IInv
<1>a. Typed /\ unsynced \in BOOLEAN
  BY DEF Structure, Typed
<1>1. CASE BusStep
  <2>1. LayersWait /\ (Written \/ Fetched \/ Untouched)
    BY <1>1, BusEffects DEF Structure
  <2>2. unsynced' \in {unsynced, TRUE}
    BY <1>a, <2>1 DEF Written, Fetched, Untouched
  <2> QED  BY <2>1, <2>2 DEF LayersWait, Unasked
<1>2. CASE LinkStep
  BY <1>2 DEF LinkStep, DlIdle, DlSent, DlReceived, DlDataFrame, DlControlFrame, DlDiscard, DlAck,
           DlNack, DlResend, DlError, InDl, LinkKeeps, Stays, Unasked
<1>3. CASE TlStep
  <2>1. todo.to = "tl" /\ UNCHANGED <<app, unsynced>>
    BY <1>3 DEF TlStep, TlIdle, TlSent, TlReceived, TlChaining, TlResend, TlChainingError, TlError,
                InTl, TlKeeps
  <2>2. app.flag # "success"
    BY <2>1 DEF UnderWay, Flagged
  <2> QED  BY <2>1, <2>2 DEF Unasked
<1>4. CASE DeviceStep \/ Time \/ UNCHANGED vars
  BY <1>4 DEF DeviceStep, Time, TimePasses, Stays, linkVars, vars, busVars, Unasked
<1> QED  BY <1>1, <1>2, <1>3, <1>4

\* The flag is set with the response to the call, or with an error.
LEMMA FlagServes ==
  ASSUME IInv, Structure, Protocol, ApiSetsFlag
  PROVE  Service!Report \/ UNCHANGED Service!vars
<1> USE TodoIs DEF IInv, Structure
<1>1. /\ todo.to = "api" /\ app' = [app EXCEPT !.flag = todo.event] /\ UNCHANGED <<tl, unsynced>>
  BY DEF ApiSetsFlag, Reporting
<1>2. app'.flag = todo.event /\ app'.does = app.does /\ app'.call = app.call
  BY <1>1 DEF Fields
<1>3. todo.event # "busy" /\ app.flag = "busy"
  BY <1>1 DEF ChainKnown, Reporter, UnderWay, Flagged
<1>4. CASE app.does # "waiting"
  BY <1>1, <1>2, <1>4 DEF Service!vars
<1>5. CASE app.does = "waiting"
  <2>1. ~lost
    BY <1>1 DEF LostEnds
  <2>2. tl.answer \in 0..app.call /\ app.call \in Nat
    BY DEF Typed
  <2>3. ~unsynced /\ todo.event = "success" => tl.answer = app.call
    BY <1>1, <1>5, <2>1 DEF Protocol, Delivered, InStep
  <2>4. Service!Report
    BY <1>1, <1>2, <1>3, <1>5, <2>2, <2>3 DEF Service!Report
  <2> QED  BY <2>4
<1> QED  BY <1>4, <1>5

\* The steps of the two threads.
LEMMA ThreadsServe ==
  ASSUME IInv, CommsFrees \/ IfxFrees \/ InitCallback \/ LayersInit \/ Open \/ TransceiveRefused
               \/ CallerReleases \/ CallerMarks
  PROVE  Unasked
<1> USE DEF IInv
<1>1. CASE CommsFrees \/ IfxFrees
  BY <1>1 DEF CommsFrees, IfxFrees, Reporting, Unasked
<1>2. CASE InitCallback
  BY <1>2 DEF InitCallback, Fire, Unasked
<1>3. CASE LayersInit
  <2>1. UNCHANGED <<app, unsynced>> /\ app.does = "opening"
    BY <1>3 DEF LayersInit, Fire, UnderWay
  <2> QED  BY <2>1 DEF Unasked
<1>4. CASE Open
  <2>1. app.does = "start" /\ app' = [app EXCEPT !.does = "opening", !.flag = "busy"] /\ UNCHANGED <<unsynced, tl>>
    BY <1>4 DEF Open
  <2>2. app'.does = "opening" /\ app'.call = app.call
    BY <2>1 DEF Fields
  <2> QED  BY <2>1, <2>2 DEF Unasked
<1>5. CASE TransceiveRefused
  <2>1. app.does = "idle" /\ app' = [app EXCEPT !.does = "refused"] /\ UNCHANGED <<unsynced, tl>>
    BY <1>5 DEF TransceiveRefused, busVars
  <2>2. app'.does = "refused" /\ app'.call = app.call
    BY <2>1 DEF Fields
  <2> QED  BY <2>1, <2>2 DEF Unasked
<1>6. CASE CallerReleases \/ CallerMarks
  BY <1>6 DEF CallerReleases, CallerMarks, Stays, Unasked
<1> QED  BY <1>1, <1>2, <1>3, <1>4, <1>5, <1>6

\* The caller takes the answer ...
LEMMA SeesServes ==
  ASSUME IInv, CallerSees
  PROVE  Service!Take \/ UNCHANGED Service!vars
<1>1. /\ app.does \in {"opening", "waiting"} /\ app.flag # "busy" /\ UNCHANGED <<tl, unsynced>>
      /\ \E d \in {"failed", "idle"} : app' = [app EXCEPT !.does = d]
  BY DEF CallerSees, busVars
<1>2. app'.does \in {"failed", "idle"} /\ app'.call = app.call
  BY <1>1 DEF IInv, Fields
<1>3. CASE app.does = "waiting"
  BY <1>1, <1>2, <1>3 DEF Service!Take
<1>4. CASE app.does = "opening"
  BY <1>1, <1>2, <1>4 DEF Service!vars
<1> QED  BY <1>1, <1>3, <1>4

\* ... and makes the next call.
LEMMA CallServes ==
  ASSUME IInv, Structure, NEW n, NEW r, Transceive(n, r)
  PROVE  Service!Transceive
<1>1. app.does = "idle" /\ app' = CommandCall(n, r) /\ unsynced' = (unsynced \/ LeftAstray)
  BY DEF Transceive
<1>2. app'.does = "waiting" /\ app'.flag = "busy" /\ app'.call = app.call + 1
  BY <1>1 DEF CommandCall, IInv, Fields
<1>3. unsynced' \in {unsynced, TRUE}
  <2>1. unsynced \in BOOLEAN /\ LeftAstray \in BOOLEAN
    BY DEF Structure, Typed, LeftAstray
  <2> QED  BY <1>1, <2>1
<1> QED  BY <1>1, <1>2, <1>3 DEF Service!Transceive

\* Every step of the stack is a step of the service or none.
LEMMA ServiceStep ==
  IInv /\ Structure /\ Protocol /\ [Next]_vars => [Service!Next]_(Service!vars)
<1> SUFFICES ASSUME IInv, Structure, Protocol, [Next]_vars
             PROVE  Service!Next \/ UNCHANGED Service!vars
  OBVIOUS
<1>1. CASE BusStep \/ LinkStep \/ TlStep \/ DeviceStep \/ Time \/ UNCHANGED vars
  BY <1>1, LayersServe, UnaskedServes DEF Service!Next
<1>2. CASE ApiSetsFlag
  BY <1>2, FlagServes DEF Service!Next
<1>3. CASE CommsFrees \/ IfxFrees \/ InitCallback \/ LayersInit \/ Open \/ TransceiveRefused
           \/ CallerReleases \/ CallerMarks
  BY <1>3, ThreadsServe, UnaskedServes DEF Service!Next
<1>4. CASE CallerSees
  BY <1>4, SeesServes DEF Service!Next
<1>5. ASSUME NEW z \in Sizes, Transceive(z[1], z[2])
      PROVE  Service!Next
  BY <1>5, CallServes DEF Service!Next
<1> QED  BY <1>1, <1>2, <1>3, <1>4, <1>5 DEF Next, TransportStep, CallerStep, TlStep

\* The stack implements TransceiveService: calls are made one at a time, each is answered at
\* most once, and a successful answer, from the flag to the moment the caller takes it, is the
\* response to that call unless a re-sync was missed or left out.
THEOREM AlwaysImplementsService == Spec => ImplementsService
<1>1. Init => Service!Init
  BY DEF Init, LinkInit, BusInit, Service!Init
<1>2. IInv /\ Structure /\ Protocol /\ [Next]_vars => [Service!Next]_(Service!vars)
  BY ServiceStep
<1> QED  BY <1>1, <1>2, SyncedAlways, PTL DEF Spec, ImplementsService, Service!Spec
=============================================================================
