# A TLA+ model of the DECADA embedded example (Mbed OS)

The firmware in `src/` runs on an STM32F767 board with an ESP32 as network
interface. It reads sensors, publishes the readings over MQTT/TLS to the DECADA
cloud, and takes commands from it. This directory holds TLA+ modules that model
its control logic, the TLC configurations that check them on small instances,
and proofs checked by TLAPS. `PROJECT.json` lists the runs, the source lines
each definition stands for, the mutated definitions that show a property can
fail, the hazards and the theorems.

## 1. Inventory

Own code is about 6000 lines: `main.cpp`, `threads/`, `src/` and
`sensors-lib/`. Most of the code that keeps state and meets failures is in the
libraries under `lib/` that the firmware is built with; the modules cover both.

| Component | State | Operations | Where it is hard |
|---|---|---|---|
| Sensor thread (`threads/sensor_thread.cpp`) | poll counter, cycle interval, mail in hand | poll, put header/reading/footer in `llp_sensor_mail_box`, take `sensor_control` mails | spins for blocks of a bounded pool; the interval arithmetic; a block freed twice |
| Behavior coordinator (`threads/behavior_coordinator_thread.cpp`) with `SensorProfile` | latest mail, `entity_value_pairs_` | apply a mail, build a packet, put it in `comms_upstream_mail_box` | waits for a block while it holds `stdio_mutex`; stale readings |
| Communications controller (`threads/communications_thread.cpp`) | payload, `pub_ok`, NTP counter | boot the network and `DecadaManager`, publish packets and responses, reconnect | three mailboxes, two mutexes, results that are ignored or kept too long |
| Subscription manager (same file) | - | `yield`, reconnect when the session is closed | uses the client without the mutex |
| Event manager (`threads/event_manager_thread.cpp`), `ParamControl`, `subscription_callback.cpp` | three mailboxes | decode a command, dispatch it, answer | circular waits through full mailboxes, memory never freed, integer arithmetic |
| `DecadaManager` session (`decada_manager.cpp:494-712`) | `mqtt_network_`, `mqtt_client_`, retry counter | Connect, Subscribe, Publish, Reconnect | objects deleted and replaced by two threads |
| `DecadaManager` provisioning, `CryptoEngine` | CSR, signing answer | key pair, CSR, signing, device creation, renewal | several writes to flash, power may fail between them; lost answers |
| `BootManager`, `main.cpp` | login attempts | login, defaults, menu | the same; a legal input that makes the menu unusable |
| `PersistStore` | key-value store in flash | ReadKey, WriteKey | errors are logged only |
| Watchdog | one hardware timer | `kick` from every thread | a live thread masks a stuck one |
| MQTT client (`lib/MQTT`) | session, in-flight message, handlers, keepalive timers | connect, subscribe, unsubscribe, publish, yield, disconnect, packet functions | acknowledgements that are late or of another message, connections that end without a word, lengths at the edges of their encoding |
| HTTP client (`lib/HTTP`) | parser state, response, request | URL, request, send, receive, parse | answers cut anywhere by TCP, framings that must agree, servers that close early |
| JSON (`lib/JsonCpp`) | token position, stack of values, errors | parse, recover, write | nesting, error recovery, integers at the end of their range, escapes |
| OPTIGA I2C stack (`lib/optiga/comms`, `pal`) | four layers of state machines, one registered callback, the bus | open, transceive, callbacks | two threads, callbacks that nest, a device and wire that fail |
| OPTIGA command library (`lib/optiga/cmd`, `crypt`, `util`), `SecureElementTrustX` | one buffer per command, fragments done, hash context | all commands to the chip | fragments over one buffer, partial failures, limits of the chip |
| OPTIGA DTLS client (`lib/optiga/dtls`) | replay windows, epochs, flights, timers, session | Init, Connect, Send, Receive, Disconnect | loss, repetition and reordering; retransmission; clean-up after any failure |
| `TimeEngine`, `conversions.cpp`, `tmp75`, `scd30`, `sps30` | - | conversions, frames, CRC | signs, zeroes, limits |

Interaction: the three telemetry threads and the subscription manager share
`mqtt_mutex`, `stdio_mutex`, `event_flags` and the mailboxes of
`global_params.h`, and the two last ones one `DecadaManager`, which calls the
MQTT client (`yield` calls back into `subscription_callback`, which parses with
JsonCpp) and, while it provisions, the HTTP client. All threads have equal
priority and are preempted at any point. The boot manager runs before any of
them; what it and the provisioning code leave in flash is all that a reset
preserves. `CryptoEngine` and `DecadaManager` may use the secure element, which
runs the command library over the I2C stack, whose callbacks run in a thread of
their own; the DTLS client hands the messages of its handshake to the chip
through the same library. The shipped `mbed_app.json` compiles the secure
element out (`use-secure-element` 0), and the DTLS client needs
`FEATURE_DTLS_MUTUAL_AUTH`, which `AuthLibSettings.h` leaves commented.

What makes the components correct:

* measurement path: no mailbox block is lost or freed twice; a packet carries
  the readings of its own poll; the broker sees polls in order and none twice;
  a completed poll reaches `Publish`;
* command path: blocks have one owner; a command gets one answer, in order; the
  interval in flash is the one the cloud was told of, and not below the bound;
* flash: at every point where power may fail, certificate, key, serial number
  and configuration in flash belong together; a board recovers by itself;
* session: no publication runs in a deleted client; an open session is
  subscribed; a closed one is reopened, or the board restarts;
* MQTT client: a success is one on the server too, up to the answer that the
  end of the connection cut behind its header; nothing is acknowledged
  before it is delivered; every call returns, and a dead connection is noticed;
* HTTP: what is handed over does not depend on where the answer was cut;
* JSON: what is written is read back; what is accepted has the structure of a
  value; integers are exact;
* I2C stack: one call, one answer, of that call; clean for the next one;
* command library: requests are whole, answers stay in their memory, fragments
  add up;
* DTLS: every record once and every number once, flights in order on both
  sides, nothing left open.

`PROJECT.json` lists the hazards at the lines where they bite.

## 2. Modules

| Module | Models | Extends / instance of |
|---|---|---|
| `Telemetry` | sensor, behavior, comms and subscription threads on the way of a reading to the broker | `TelemetryService` (refinement) |
| `TelemetryService` | abstract: what the measurement path promises | |
| `TelemetryProofs` | proofs about `Telemetry` | `Telemetry` |
| `Commands` | a command from the broker through four mailboxes and three threads, and its answer | |
| `Provisioning` | power-on, boot manager, flash, credentials, device creation | |
| `ProvisioningProofs` | proofs about `Provisioning` and `HttpExchange` | `Provisioning`, `HttpExchange` |
| `CommandsProofs`, `MqttSessionProofs`, `MqttClientProofs`, `I2cProofs`, `OcpSessionProofs`, `OptigaProofs` | proofs about `Commands`, `MqttSession`, `MqttClient`, `I2cTransport` (with `I2cSync`), `OcpSession`, `OptigaCrypt` | the module each is about |
| `MqttSession` | the MQTT session objects and the two threads that use them | |
| `MqttPacket`, `MqttClient` | packet functions; client, network and server | `MqttClient` extends `MqttPacket` |
| `HttpUrl`, `HttpParser`, `HttpExchange` | URL and request; response parser; the exchange over a socket | `HttpExchange` extends both |
| `JsonText`, `JsonReader` | tokens, numbers, strings and the writers; the reader with its stack | `JsonReader` extends `JsonText` |
| `I2cDevice`, `I2cBus`, `I2cLink`, `I2cTransport` | chip and wire; physical layer and callbacks; data link; transport, API and caller | each extends the one before |
| `TransceiveService` | abstract: what `optiga_comms_transceive` promises | refined by `I2cTransport` |
| `I2cSync` | what the two ends of the I2C bus know of each other: the invariant of its refinement proof | extends `I2cTransport` |
| `CommandLib`, `OptigaCrypt` | the requests of each command; the calls and loops that use them | `OptigaCrypt` extends `CommandLib` |
| `DtlsRecord`, `DtlsFlights`, `DtlsHandshake`, `OcpSession` | records and windows; reassembly of flights; handshake, network and server; the session API | each extends the one before |
| `MC...` | the modules TLC is run on | |

Definitions called variants in a comment, or named for a mistake, are plausible
mistakes; they are used only to confirm that the properties notice them, never
by a specification.

### Telemetry

Each access to a mailbox, pool or mutex is a step; what a thread does to its
locals in between belongs to the next step. A poll is a number; a mail is a
header (`start`), a reading (`data`) or a footer (`end`) of a poll. `published`
and `resets` are history. `Mail::try_calloc` is a counter of used blocks,
`free` decrements it, and a mail queue has as many places as its pool has
blocks. `DecadaManager::Reconnect` appears only by the mutex of its first
attempt and by its two ends, return or `NVIC_SystemReset`; `MqttSession` has
the rest. The mailbox of responses is an oracle: there is one or there is none
(`CommsNoResponse`, `CommsResponseLockMqtt`).

`TelemetryService` has three parts: at most one poll is open, completed polls
form a queue, and the broker takes the head of the queue or loses it.
The refinement mapping (`Pending`) reconstructs the queue from the packet in
hand, `comms_upstream_mail_box`, the mail in hand and the footers queued in
`llp_sensor_mail_box`.

### Provisioning

The store is a record with one field per key. Each `WriteKey` is one step, so
`Crash` may fall between any two. `ReadKey`/`WriteKey` may fail, which the
wrappers only log; `faults` counts that. A certificate is the key it certifies
and its serial number. `registered` is the cloud's side of device creation.
`PrintMenu` aborts for a password shorter than two characters
(`std::string::replace` throws), `SignAborts` is `Json::Value::get` on an
answer without `data`. `RenewCertificate` is public but has no caller in the
repository; it is included because it writes the same two keys. The serial
number in flash stands for the certificate the CA knows by it: what is renewed
is that one, whichever certificate lies beside it, and `strayed` records that a
renewal stored one that way.

### MqttSession

`MQTTNetwork` and `MQTT::Client` objects have identities and are live or freed;
a client keeps a reference to the network it was made with. `this[t]` is the
client a thread is inside. Creating, connecting, deleting and nulling an object
are separate steps. A call on a freed object or a null pointer is undefined: it
fails or the board faults and reboots (`Fault`). Objects without a reference
are forgotten, so three clients and five networks are enough for two threads;
the leak itself is therefore not visible here. `++failed` and its comparison
are three steps without a lock: the counter is read into a register (`seen`),
written, and compared, as written or as a compiler reads it again. It may
therefore step over its limit (`SteppedOver`) and then has to go round
(`CounterSize`).

### Commands

`mqtt_arrived_mail_box` and `service_response_mail_box` are counters and
queues. `sensor_control_mail_box` is modelled down to the free list of its
memory pool (`heads`, `word`, `mem`), because an accepted command is freed at
`sensor_thread.cpp:41` and again at `:45`: `tainted` records that the second
free came while another control mail was in use. From then on a block may have
two owners, which `BlocksAccounted` and `AnsweredInOrder` except, and
`used_blocks` may be too small, never too large. The write of the interval may
fail, which `WriteKey` only logs: flash then keeps the old one and the sensor
thread goes on with the new one (`failed`). The comms thread goes through a
packet of the measurement path, a response and a reconnection, and waits for
`mqtt_mutex` and `stdio_mutex` before each `Publish` (`CommsWait`); who has the
mutexes is left open here. `written`, `acked`, `answered`, `failed` and `cut` are
history. `StringToInt` is what the older styled
extraction does: it saturates, reads 0 from a word, and leaves an uninitialised
variable alone (any value) at the end of the text.

### MqttClient

One thread calls; a call is written, then the client cycles through what
arrives (`pc`). `net` is the connection with what is under way in both
directions, `server` what the server has got, granted and acknowledged. Server
and network are external: packets are well formed and in order, TCP may cut any
of them in two and ends anywhere, with an orderly close (`recv` gives 0) or an
error. `readPacket` ignores that `decodePacket` failed, so a packet whose end is
lost behind its header byte is one of its type without a body (`ReadHeader`,
`net.torn`): a CONNACK is then a success, a SUBACK grants, a PUBLISH has no topic
and an identifier nobody set. A new connect takes a new network, the client
object stays. Time and server move only where the client waits. `quiet` says
that one of the keepalive timers has run out. After a packet that does not fit,
or whose body comes in pieces, the connection counts as broken: what the client
would make of the rest is not modelled. The packet functions are pure operators; `probe` is an initial value
that every shape of filter and every length around an edge goes through.

### HttpUrl, HttpParser, HttpExchange

Characters are one-letter strings, header names and tokens sequences of letters
given as constants. The parser `q` is all that is known between two buffers and
each state takes one character; a buffer end marks what the callbacks have to
be given (`BufferStart`, `BufferEnd`). `MaxHeader` stands for
`HTTP_MAX_HEADER_SIZE` and `MaxLength` for `ULLONG_MAX`. The server takes the
request in pieces and answers one message or closes, cutting anywhere. URLs are
written from their parts and must come apart as they were.

### JsonText, JsonReader

Texts are sequences of bytes. One call of `readValue`,
`readObject` or `readArray` is an action, `nodes` is the call stack, `slot` the
value being filled, `recover` the skipping of `recoverFromError`. `char` is
unsigned, as on the ARM target. The widths of the integers (`maxInt`,
`maxLargestInt`) and the stack limit are constants.

### I2cDevice, I2cBus, I2cLink, I2cTransport

The caller's thread runs the first transfer of a call and returns through
`pal_i2c_release` and `ifx_i2c_transceive` (`tail`); the event thread runs the
one registered callback (`timer`) and all that follows from it. A chain is one
thread's nested calls: `who` runs it and `todo` is the call it makes next, so
that the two threads interleave between any two layers. `lost` (an operation
refused by `pal_i2c_acquire`), `overtaken` (a callback ran before the caller
had returned), `unsynced` and `resyncs` are history. The wire may disturb a
frame or lose a re-sync and an operation may fail (`MaxFaults`); the chip
follows the protocol. Lengths are counted in fragments.
`TransceiveService` says what its users rely on: one call at a time, one answer
each, and of that call unless a re-sync did not reach the chip, or none was
sent after a call whose chain had to be repeated (`LeftAstray`).

### CommandLib, OptigaCrypt

A buffer is a set of pieces at positions, tagged with what they hold, so that a
gap, an overlap or a piece outside the memory shows. `CommandLib` has, for each
command, what is refused, what is allocated, what is written where and where
the response may go; `OptigaCrypt` the calls that run them, one APDU after
another. The chip is external: it may refuse anything, and the link may lose a
request or an answer. One caller; between two calls of a hash other calls may
use the chip (`Meanwhile`). `Callable` says which calls those are: which command
each API function runs, and that its sizes are numbers.

### DtlsRecord, DtlsFlights, DtlsHandshake, OcpSession

The library's state between calls is `rl` (record layer), `hs` (handshake) and
`ses` (session); `wire`, `seen`, `srv` and `net` are what has left, what was
taken, and the server and the network, which loses, repeats, delays and
reorders datagrams. A handler of a record is a function of these states, as the
C code runs it to its end. Any call into the chip, the socket or the allocator
may fail (`MaxFaults`).

## 3. Runs

| Run | Bounds | Shows |
|---|---|---|
| `telemetry` | pools of 1 and 2 blocks, 3 polls, 1 reset | block accounting, fresh readings, order, refinement of `TelemetryService`; every completed poll reaches `Publish`, or the behavior and comms threads wait for each other (`WaitCycle`): no third way to get stuck |
| `commands` | 2 messages of up to 3 parameters, pools of 1, 2 and 2 blocks, a 16-bit `int`, 1 reset | no block of the three pools leaks and each has one owner, one answer per command in order, what it reports is in flash and in use, and the four mailboxes drain unless the comms thread waits for ever |
| `provisioning` | 2 keys, 3 serial numbers, 2 crashes, 1 failing kv call | certificate and key match, configuration complete, the board gets online again after any crash, until a renewal goes by the serial number of another certificate (`strayed`) |
| `session` | 2 counted retries, a counter of 4 values | `Publish` never runs in a deleted client; an open session is subscribed; a closed one is reopened or the board reboots, if waits for the broker end and the counter does not step over its limit again and again |
| `mqtt` | 2 filters, 2 topics, 1 handler, 3 events of server or network; about 9000 packet-function probes | what succeeds is so on the server, delivery before acknowledgement, every call returns and an ended connection is noticed |
| `http` | 16 answers cut at every place into pieces of 1 to 3 or whole, 990 URLs | the response handed over is faithful or a beginning, refusals have a reason, the parser's assertions hold, URLs come apart, `send` returns |
| `json` | 4117 texts: written values, one-byte damage, numbers at every limit | reading undoes writing, what is accepted has the structure of a value and numbers no looser than section 6 says, integers are exact, each step makes the rest smaller |
| `i2c` | 2 calls of up to 2 fragments, 1 fault, 1 repetition | run once and answered with its own answer, ready for the next call, always answered, refinement of `TransceiveService` |
| `optiga` | every call at the sizes on both sides of a limit of 300 bytes | requests whole and inside their memory, answers fit, fragments add up, calls return |
| `dtls` | a window of 4, 1 extra flight of the server, 2 own repetitions, 1 fault | each record once, numbers once, protected after the change of cipher, flights agree, nothing left behind, calls end |
| `provisioning_kvfault`, `mqtt_yield` | as small as shows the case | the findings of section 6 |

Why the bounds suffice. Telemetry: exhaustion, the wait cycle and a mail behind
another one need one or two blocks, and order and freshness relate two polls; a
reset may fall between any of them. The proofs cover all sizes. Commands: a
double free needs one more mail outstanding; two messages, each with a
value that may be accepted, show an answer that overtakes or repeats, and 16 bits bring the product's overflow into reach with
the values of `MCMessages`. Provisioning: two generations of keys, and a serial number
more than flash and CSR can hold, show any mix-up; `GenerateKeypair` and `SignOk`
choose one that is not in flash, and two crashes fall into one renewal and the
next. Session: the interleavings of two threads and one full round of
retries repeat after `failed` returns to 0; `MaxFailed` is 5 in the code and
`CounterSize` 256, and only the distance to the limit matters; a counter of 4
values can step over a limit of 2 and go round. MQTT: one late packet of each kind, one
reconnection and one more fault need three events. HTTP: the parser's memory is
its state, so pieces of one to three characters put a cut at every place, and
`MaxHeader` lies between the shortest and the longest header of the messages.
JSON: `maxInt` 31 and `maxLargestInt` 127 keep the digits few while the test on
the last digit stays; a stack limit of 3 is met from both sides. I2C: a number
modulo 4 returns after four frames; one fault in the middle of a chained
exchange reaches every recovery state (the safety properties were also
explored with two). OPTIGA: what matters is the distance of a size to the next
cut. DTLS: a window of 4 moves during the handshake; one lost, one repeated
datagram and one failing call meet at every step.

Deadlock checking is off where the bounded inputs, or an end of the modelled
life (a spent request object, a closed session, the wait cycle), let the system
stop. It is on for `session`, `provisioning`, `optiga` and `json`.

Each module also has a type invariant `TypeOK`. It is part of a run, and proved,
for `Telemetry` and `Provisioning`; it is proved for `Commands`, `MqttSession`
and `OcpSession`; the others were checked once with the same configurations. Properties of several conjuncts
(`RecordsOnce`, `PiecesAddUp`, ...) are conjunctions of named parts; each part
can be put in the cfg by itself.

### Fairness

* Threads run: weak fairness of each thread's steps (round-robin scheduling of
  equal priorities).
* Mutexes: strong fairness of lock steps; Mbed hands a mutex to the longest
  waiter.
* `Telemetry`: blocking calls of the transport return. Nothing is assumed of
  the results of `Publish`.
* `Commands`: weak fairness of each of the four threads, but not of the comms
  thread where it waits for a mutex or for a reconnection. `WorkedOff` says what
  follows if such waits end, `[]<>~CommsBlocked`; `WaitCycle` of `Telemetry` and
  a silent broker are the two cases in which they do not.
* `MqttSession`: nothing is assumed of the broker, and a thread that waits for
  it in `recv` (`Waits`, `Yields`) has no fairness, since `recv` has no timeout
  (`MQTTNetwork.h:42`). `Recovers` says what follows if the waits of `Connect`,
  `Subscribe` and `Disconnect` end. Sensors keep producing packets
  (`SF(CommsPublish)`), because only `Publish` and `yield` notice a closed
  session. Both premises of `Recovers` are needed: TLC refutes it without
  either.
* `Provisioning`: entropy, the CA, the device API and the broker succeed again
  and again when asked again and again; the watchdog is a hardware timer.
  Operators and crashes have no fairness.
* `MqttClient`: the client's thread runs and calls `yield` again and again, its
  timers run out. In `mqtt` a connection that the server stopped serving also
  ends some time (TCP's own timeouts); `mqtt_yield` leaves that away.
* `HttpExchange`: the socket takes the request, and the server answers or
  closes: `SendCall` and `ReceiveCall`, which have no timeout in the code.
* `I2cTransport`: the event thread dispatches what is posted, the caller's
  thread runs, the chip finishes its command, and time passes while someone
  waits for it (strong fairness, since a step of the stack may intervene).
* `OptigaCrypt`: the library's steps and the chip's answers, lost or not.
* `DtlsHandshake`, `OcpSession`: sending ends, the clock advances, `OCP_Receive`
  looks at it. Nothing is assumed of the network or the server.
* `JsonReader`: none; `ParseAdvances` is a decreasing measure, and deadlock
  checking shows that parsing does not stop before its end.

## 4. Proofs

For every pool size and any number of polls and resets
(`SizeAssumption`, `BoundAssumption`), `TelemetryProofs` proves `TypeCorrect`,
`SlotsAccounted`, `ReadingsAreFresh`, `DeliveryInOrder` and `Implements`. The
inductive invariant is

    IInv == TypeOK /\ SlotAccounting /\ StreamInv /\ FreshInv /\ OrderInv
            /\ StartInv

`TypeOK` needs `SlotAccounting`: the counters stay natural numbers because a
thread that frees a block has one. Freshness and order are statements about
`published` alone and not inductive. `StreamInv` says the mails between sensor
and behavior thread are a stream of polls in order in which a footer directly
follows a mail of its own poll; `FreshInv` that the profile holds the current
poll's reading or none whenever it may be sent, and the same of every packet on
its way; `OrderInv` that published, held and queued packets are in poll order
and older than every poll still on its way; `StartInv` that a "start" header is
the first mail of its poll and that the profile is not ahead of the mails.

`Implements` is the refinement: `Spec => ImplementsService`, for which
`TelemetryService`'s `pending` is the packets in the hands of the comms thread,
those queued, the one being made and those due for the footers still queued, in
this order (`Held`, `up_box`, `Making`, `Due`). Four facts about such a row say
which steps only move a packet within it (`RowGet`, `RowPut`, `RowMake`), add
one at its end (`RowReport`) or take its first one (`RowHandOver`). What is left
is that a packet due keeps its reading until it is made: a reading applied, or
cleared by a header, belongs to a poll before that of every footer queued behind
it, and here `StartInv` is needed. `FootersOf` is a recursive function; that it
goes through a stream mail by mail is shown by `UpTo`, an induction over the
length stated for sets of numbers.

`ProvisioningProofs` proves `TypeCorrect`, `CertificateUsable` and
`ConfigurationComplete` for any sets of keys and serial numbers and any number
of crashes and faults (`KeysAssumption`, `CrashAssumption`). The invariant

    IInv == TypeOK /\ (faults = 0 => Credentials /\ Configuration)

says for each control point what a crash there leaves in flash: no new key is
written while a certificate is present, the CSR and the signing answer belong
to the key in flash until they are stored, and the parts of the configuration
exist before the flag that vouches for them. `Credentials`, like the theorem,
leaves out what follows a renewal by the wrong serial number (`strayed`).

The module also proves `AssertionsAlwaysHold` of `HttpExchange`, for answers of
any characters cut anywhere and headers of any greatest size (`HttpAssumption`,
`ExchangeAssumption`). `HttpInv` says that the parser of a call `Rests` between
two buffers: its fields are in their ranges and no assertion of it failed
(`Held`), and without an error there holds what its state relies on (`Relied`):
which mark is set, what has been counted, and a content length that is known and
not used up. A buffer is handled by induction over its characters, with the
induction stated for sets of numbers.

`CommandsProofs` proves `TypeCorrect`, `AllBlocksAccounted`, `FlashIsAsAnswered`
and the action property `AnswersInOrder` for mailboxes of any size, any
messages, any width of `int` (`IntMax`), any failing writes and any number of resets
(`SizeAssumption`; `DataAssumption`: an uninitialised value is some integer, and
the interval in flash at first is not below the bound the code accepts). The
invariant

    IInv == TypeOK /\ MailAccounting /\ Hands /\ PoolSound /\ Counted
            /\ Bounded /\ InOrder /\ AboutToWrite /\ IntervalAsAnswered

needs `PoolSound`, because a block is given out from a list kept in the free
blocks themselves: the list leads from free block to free block, no two links to
the same one, and no block in it has an owner. That lasts until the code frees
the block of an accepted command twice (`tainted`), and the theorems say what is
left then: `Counted`, that `used_blocks` counts no block that nobody has, stays. `InOrder` puts the commands in the eight places where one can be,
from the broker back to the callback, into one order; `Bounded` says that what
arrives is newer than all of them.

`MqttSessionProofs` proves `TypeCorrect`, `PublishSafe` and
`SubscribedWhenConnected` for any limit of retries and any width of their
counter (`MaxFailedAssumption`).

    IInv == TypeOK /\ Control /\ DanglesInDelete /\ PublishInLiveClient /\ SubscriptionOwed

`Control` says which parts of a reconnection run under `mqtt_mutex`: the first
attempt does, retries do not but never delete. So `mqtt_client_` dangles only
between the delete and the assignment behind it, where `Publish` cannot be.
`SubscriptionOwed` says that an open session the service topic is not yet
answered for has a thread on its way to subscribe.

`MqttClientProofs` proves `ReportsAreTrue`, `AcksFollowDelivery` and
`AnswersBelong` for any filters, topics, number of handlers and events, without
an assumption. The client never compares the identifier of an answer with that
of its request. It is right only because of

    OneRequest == Attended => Belongs /\ Single /\ Asking

While its session is open, or a call waits, the socket and the read buffer hold
at most one request or one answer, and it is that of the call. A call that gives
up closes the session, and the next connection has a socket of its own, so no
late answer meets another call. `Accepted` says that only a server that has
accepted the connection answers on it; `HandlersClean` that handlers of a clean
session do not outlive it; `Cycling` that a cycle that failed without an answer
cannot report a subscription; `AcksBehind` that a PUBACK is written only for
what has been delivered, or, behind a torn PUBLISH, into a connection that is
over. The exception of the theorem is `net.torn`: an answer of which only the
header came, on a connection that has ended. The resending inside `connect` and the closing of the
session by UNSUBACK are covered.

`I2cProofs` proves `AlwaysLeftReady` for any number of calls, faults, retries
and repetitions, without an assumption.

    IInv == Fields /\ ChainKnown /\ UnderWay /\ ContextsFreed /\ FrameState /\ BusHeld

`ChainKnown` lists the calls between layers the handlers can be at; `UnderWay`
says that a waiting caller has either such a call or an armed timer and never
both; `ContextsFreed` that the contexts are freed behind the flag the caller
polls; `FrameState` when the physical layer takes a frame; `BusHeld` who holds
`pal_i2c` and that only a transfer that failed for good (`GivingUp`) meets its
own lock.

It also proves `AlwaysRunAndAnsweredOnce`, and `AlwaysImplementsService`, the
refinement of `TransceiveService`, for commands of any number of fragments,
responses up to any length (`CommandAssumption`, `ResponseAssumption`), and any
faults, limits on retries and number of calls. Neither follows from where the
chain of calls is: that a command is not run twice and that an answer is of its
call depends on what the stack and the chip each think of the other's frame
numbers. `I2cSync` states it:

    IInv /\ Structure /\ Protocol

`Structure` says where the stack is: which register is in use and for what
(`Registers`; the data register is read only while the chip has a frame), which
of its four frames the data link layer may be sending (`OutIs`) and in which
state (`LinkKnown`), what the transport layer has been told (`Fed`) and how far
the command has gone (`TlKnown`), that the transmit buffer holds the fragment
counted last or the checksum of a control frame (`TxIs`), and that an undamaged
frame acknowledges what the chip has taken and carries what it sent last
(`Received`). `Protocol` relates the two ends, as long as no re-sync is on its
way (`AtRest`) and none was missed or left out: neither is more than one frame
ahead (`Numbers`); all that the chip may still send or repeat is of this call
(`Owned`), and so is what was joined (`Delivered`); before it has the whole
command and after the last fragment of the response it has nothing to say, so
that the next call finds nothing of this one (`Cleaned`); and every run of a
command is paid for by the call, by a re-sync or by a repeated chain (`Runs`).
`Cleaned` holds only while nothing spoiled the command (`Regular`), which is
where `LeftAstray` comes from: without it the step that begins a call does not
keep `Owned`. Each layer's handlers are first brought down to what they do to
these (`LinkDoes`, `TlDoes`, and `Heard` for the chip), and the invariant is
then kept case by case.

`OcpSessionProofs` proves `TypeCorrect`, `RecordsOnceAlways`,
`LeftBehindAlways` and `FlightsAgreeAlways` for any window size (`RecordAssumption`), any packing of the
server's flight 4 into records and datagrams, and any number of repetitions and
failing calls (`HandshakeAssumption`).

    IInv == RecordsInv /\ WindowsInv /\ ServerInv /\ FlightsInv /\ SessionInv

None of the three parts of `RecordsOnce` is inductive. A number is used once
because the next one of each epoch lies above those used in it (`Numbered`),
also in epoch 65535, where an alert lands when a repeated flight 5 broke off
before its first record (`Broken`). That happens once, since the handshake is
over then: `RecordsInv` says that the pending repetition (`retransmit`) exists
only behind a fatal error. Protection and epoch 1 go together (`Epochs`). A
record is taken once because each record taken is below its window or marked in
it (`Window`); a window may start anew behind its highest mark only because
that mark is not below its start. `ServerInv` keeps what is on the wire well
formed, `FlightsInv` says which flights may be listed, and that flight 5 was
sent only with the change of the cipher spec. `SessionInv` ties the phase of the
session to the handshake. The loops over the messages of a flight and of a
record are recursive functions; that they exist, and what they leave, is proved
by induction over the messages. The theorem modules state induction for an
operator; here it is a lemma about sets (`UpTo`), which follows from the
well-foundedness of `<` on the natural numbers.

`FlightsAgree` speaks of the chip, the client and the server at once, and needs

    IInv /\ DoneInv /\ (mode # "exit" => WayInv /\ ListInv)

`DoneInv` says which flights the chip has when the last one handled is known,
and what an authenticated session rests on. A ChangeCipherSpec is the evidence
that the server has sent flight 6 (`WayInv`: every datagram on the way, and every
record read and not yet taken, is as the server built it), and by then it must
have had flight 5; a flight 6 without one cannot be whole (`IsSix`). The hard
part is `FlightSixAwaited`. A record of flight 4 after that flight was handled
frees the list of flight 6, so one must show that no such record is left unless
the server sent flight 4 again: what the nodes of flight 4 hold came in records
the client has taken (`Gathers`), a whole flight 4 has every piece, hence every
record was taken (`Taken4`), and a record taken does not pass the replay window
again (`RecordsOnce`). That step is where `PackingAssumption` comes in: flight 4
starts with its ServerHello, no record or datagram of it is empty, and each piece
of a message is in one record. It also needs the message numbers: the test for a
whole flight does not ask for a CertificateRequest, and without one a server
numbers its last message lower, so a list that lacks it is in sequence only if
the server asks for none (`FourWhole`). `Two`, two datagrams that start with a
ServerHello, is the case left out; a packing that cuts the ServerHello over two
datagrams always is in it.

`OptigaProofs` proves `MemoryAlwaysHolds` and `PiecesAlwaysAddUp` for any calls
of the shapes the program makes, any size of data, objects and messages, and any
limit of the device from 300 bytes to the library's buffer (`OptigaAssumption`;
a message that is put is not just its header, which `PutMessage` takes for
granted).

    MemoryInv == Types /\ (InBounds, Ready, Requested, Loaded, Overwritten and
                 Answered, each where the command is)

`RequestsWellFormed` is about the moment of sending, but a loop writes only part
of a request and trusts what is left of the one before: `Overwritten` says what
a response has spared (the name of an object, the fragments still to be
encrypted), `Ready` that this is what the next request builds on, and `Loaded`
that what the device then finds is `Parcel`. One lemma per command shows that
its `Parcel` lies in a row from the first byte of the payload to the last. The
fragments of a stream are placed by their cuts (`Cuts`), of which there can be
any number, so they are told apart by arithmetic and not by counting.

    PiecesInv == context = fed /\ fed \in Int /\ Progress /\ PiecesAddUp

`Progress` says, per loop, how what the caller has, what the device has and the
loop's counter agree: `Reading`, `Writing`, `Signing`, `Forming`, `Crypting`,
and `Chunk` for an update of a hash, whose context travels to the device, stays
there and comes back. It relies on `MemoryInv`, as the device takes the offsets
and lengths it acts on out of the buffer. `FailingAddsUp` is the case of every
refusal, lost request, lost answer and failed allocation: an answer that is lost
leaves `chip` one fragment ahead of the caller, inside the object's range.

The invariants of all eight were checked with TLC before they were proved, that
of I2C with three faults and two repetitions (`Structure` and `Protocol` with the
bounds of `I2c_stack.cfg`), that of the MQTT client with four
events (1 003 059 states), that of the DTLS client's flights with one fault and
one repetition, and with two repetitions of a flight 4 without a
CertificateRequest (1 687 660 states).

Only model-checked:

* liveness;
* everything about `JsonReader`: it and `JsonText` use RECURSIVE operators,
  where the prover has no arithmetic;
* `PacketFunctions` of `MqttPacket`: whole functions over bytes against their
  definitions, with a recursion over the digits of a length;
* the other properties of `HttpExchange` (`AnswerIsFaithful`, `UrlTakenApart`):
  they compare parser and URLs with reference definitions over whole texts;
* that every call of the command library returns (`CallsReturn`, liveness).

## 5. What is not modelled

* Watchdog: only where it ends the device-creation loop. Any thread's kick
  feeds the one watchdog (`communications_thread.cpp:160`), so after
  `FLAG_MQTT_OK` a live thread masks a stuck one.
* Heap: retries (`decada_manager.cpp:700`), command values
  (`event_manager_thread.cpp:38`) and steps of `OCP_Init` leak; the models
  forget what becomes unreachable.
* TMP75 arithmetic and `conversions.cpp`, time engine: pure, without state. Seen
  while reading: `ReadTemp` takes the register as unsigned, so -1 degree is
  reported as 255; `DoubleToChar` loses the sign of values between -1 and 0;
  `Enable` ignores bus errors; the NTP counter advances every 500 ms but is
  compared with milliseconds (`communications_thread.cpp:59`).
* SCD30, SPS30 (no thread instantiates them), device UID, trace macros: no
  state, or output only.
* `UpdateEntityList`, `CheckEntityAvailability`, `PersistConfig`, time and
  dummy keys: no caller outside tests.
* MQTT: QoS 2 (compiled out), non-blocking readers, the server's side of the
  packet functions, MQTTAsync.
* HTTP: the parser of requests, CONNECT, the body callback, the request log,
  allocation sizes.
* JSON: `OurReader` and `CharReader` (a second copy of the reader), the older styled
  writers, `Path`, where comments are kept, floating-point conversion (libc).
* I2C: `ifx_i2c_reset`, `ifx_i2c_close`, the slave address change and the soft
  reset (not called by this program), checksum bytes, the length check that the
  last fragment of a response misses (`ifx_i2c_transport_layer.c:379`).
* Command library: `pal_os_lock` (several callers at once), the bytes of keys
  and certificates.
* DTLS: bytes of messages, fragmentation of the client's own messages, several
  sessions at once; `pal_socket` is not in the repository.

## 6. Findings

Each is shown by a run that violates what the repository states.

1. `provisioning_kvfault`: `WriteKey` only logs a failing `kv_set`, so
   `GenerateKeypair` reports success for a key that is not in flash.
2. `mqtt_yield`: `MQTTClient.h` gives `timeout_ms` as "the time to wait", but a
   `MQTTNetwork::read` (`MQTTNetwork.h:42`) ignores its timeout: with an idle
   server `yield` stays in `recv`, and the ping of its cycle is not sent.

Other behaviours of the code that the models contain, or that were met while
they were written:

* Certificate and serial number are two writes (`decada_manager.h:124`): a power
  failure between them leaves the serial number of another certificate, and
  `RenewCertificate`, which reads only that number (`decada_manager.cpp:222`),
  then renews the other certificate, possibly one of another key, although
  `:212` promises a connection with the renewed certificate.
* `FLAG_MQTT_OK` is set although `Connect` failed; `pub_ok` stays `FALSE` after
  a successful reconnection, which is then torn down again; the retry that
  succeeds is counted as failed and may restart the board
  (`decada_manager.cpp:704`); the counter of retries is not locked, so two
  threads can step over the limit, which is compared with `==`; a broker that
  says nothing holds a reconnection, and `mqtt_mutex` with it, for ever, while
  the watchdog is kicked by others; a reconnection of an open session sends
  UNSUBSCRIBE and DISCONNECT through a network object just deleted.
* The wait cycle of `telemetry`; `yield` inside a client that the other thread
  deletes; a Wi-Fi password of fewer than two characters makes every later menu
  abort (`PrintMenu`); one failing `kv_get` of `init_flag` wipes the settings
  (`persist_store.cpp:380`).
* Commands: the block of an accepted command is freed twice; `value * 1000`
  overflows; the answer leaves before the interval is in flash, and stays out
  when the write fails, which nobody is told;
  `subscription_callback.cpp:32` ignores the result of `parse`, so a damaged
  command is acted on in part and a payload that is not an object aborts.
* MQTT: `readPacket` ignores a length that `decodePacket` could not read
  (`MQTTClient.h:462`), so a CONNACK or SUBACK that the end of the connection cut
  behind its header byte is a success, of a session that is over; UNSUBACK is not
  in `cycle`'s switch (`MQTTClient.h:587`), so
  unsubscribe succeeds with the session closed; a refused SUBACK counts as
  success (`:876`); `recv` 0 on an orderly close is "nothing received" until
  the ping fails; `connect` sends what is in flight again without DUP and
  overwrites its own failure; a filter that does not fit closes the session, a
  publication that does not fit does not; a message that comes before the
  SUBACK has no handler and is acknowledged; `isTopicMatched` wants a character
  for "+" and does not match "a" with "a/#".
* HTTP: an answer that the server breaks off is returned as a response
  (`http_request_base.h:314`), only `is_message_completed` tells; the status
  code stays 0 when the reason is empty; a reason that is cut is overwritten by
  its last part; whether a bad character in a value is refused depends on the
  cut; 1xx answers count as final; a fragment directly behind the host is not
  parsed; a header that overflows in the last byte of a buffer is refused only
  at the next `recv`.
* JSON: a comma before "}" is accepted after an empty name; after a member and a
  comment any token counts as a comma; a comment before the colon of a name or
  in an empty array is refused; an unclosed comment is accepted when the text
  ends in "/"; numbers may have leading zeros, no digits on one side of the
  point, or be a lone "-", which reads as 0 (`IsNumber`); control characters are
  accepted in strings; what follows the value is ignored; a lone low surrogate
  becomes invalid UTF-8.
* I2C: after a re-sync that the chip did not get, the answer of a call given up
  on is delivered to the next one; so may be the answer of a call whose chain
  was repeated or that the transport layer gave up (`ifx_i2c_transport_layer.c:466`,
  `:491`), after which no re-sync is sent: this takes three disturbed transfers
  in one call, and is why the property excepts it; `pal_i2c_acquire` refuses an operation
  started in the handler of a failed transfer, and no handler is called for it,
  so the call never ends; ACK and NACK frames are built in the buffer of the
  data frame that may have to be sent again.
* Command library: `SetDataObject` and `VerifySign` promise more room for the
  response than there is; `optiga_util` takes no lock, `hash_update` releases
  it between chunks, and `pal_os_lock` (`pal_os_lock.h:43`) can be taken by two
  threads at once; a write that fails leaves the first fragment (after an
  erase); `read_metadata` looks into an argument before the test for NULL.
* DTLS: every fragment of a complete message counts as a retransmission
  (`DtlsFlightHandler.c:1144`), so the limit is met after fewer of them; flight
  4 that comes again frees the list of flight 6, and the handshake can only
  time out; an alert after a retransmission that broke off leaves in clear with
  epoch 65535; `Alert_ProcessMsg` leaves its result unset for an unknown level.

## 7. Plan

1. `System`: the threads with the watchdog and a bounded heap.
2. Pure operators with reference definitions: `Conversions`, `TimeEngine`,
   `Tmp75`, frames and CRC of the sensors.
3. `OurReader`, and `pal_os_lock` with two callers of the command library.
