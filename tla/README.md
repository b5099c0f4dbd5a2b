# A TLA+ model of the AFI920 SDK

The SDK talks to one AFI920 radar: it calls the radar's Config API over TCP,
receives three data streams (RDI detections, SHII health, SPI performance) over
UDP or TCP on threads of its own, and sends vehicle data (CSII) to it. These
modules model the parts of it whose correctness depends on order: threads, a
network, a sensor that restarts; or on arithmetic that input decides: counts,
offsets, counters that wrap. Each module names the code it stands for;
`PROJECT.json` maps every definition to its lines.

## The system

| Component | Code | State | Operations |
|---|---|---|---|
| Config API transport | `src/transport/tcp_client.*` | socket, mutex, endpoint kept for reconnecting, probed generation, session id, last E2E verdict | `Connect`, `Disconnect`, `SendRequest` (which may reconnect and probe) |
| Config API client | `src/config_api/config_client.*` | last result | about 50 methods, all through `Exchange`; `EnterMode` makes two or three calls |
| TP reassembler | `src/protocol/someip_tp.*` | buffer, covered ranges, declared end, session | `Feed`, `Reset` |
| RDI stream | `src/afi_sdk.cpp` | reassembler, loss baseline and totals, stream generation | `ProcessRdiDatagram` per datagram |
| SHII, SPI streams | `src/afi_sdk.cpp`, `src/protocol/*_parser.cpp` | an error counter, the stream generation | `ProcessShiDatagram`, `ProcessSpiDatagram` |
| Lifecycle | `src/afi_sdk.cpp` | state, running flag, streams' receivers and threads | `Init`, `Start`, `Stop`, destructor |
| TCP stream client | `src/transport/tcp_stream_client.*` | socket, open and running flags, backoff | `Open`, `Receive` (which may reconnect), `Close` |
| UDP receiver | `src/transport/udp_receiver.*` | socket, source filter | `Open`, `Receive`, `Close` |
| CSII sender | `src/afi_sdk.cpp`, `src/transport/tcp_sender.*` | two sockets, counter, session id | `SendVehicleInput` |
| Firmware update | `python/src/afi_sdk/firmware.py` | none of its own; the radar's session and faces | `update`, `upload_component`, `_switch`, `wait_for_restart`, `verify` |
| Discovery | `src/discovery/` | a socket and a list while it runs | `Scan` |
| E2E, parsers, builders | `src/protocol/` | none | conversions of one buffer |
| Python SDK | `python/src/afi_sdk/` | as the C++ one | a second implementation |

How they interact:

- The application's threads call the Config API methods; `TcpClient::mutex_`
  serialises the exchanges, and `ConfigClient::result_mutex_` guards the last
  result only while it is stored or read.
- `Start` spawns one receiver thread per stream. It loops over `Receive` of its
  receiver and runs the callbacks. `Stop`, on the application's thread, closes
  the receivers under the threads and joins them; what they share
  (`socket_`, `open_`, `running_`) has no mutex.
- The generation the transport probed, or the last valid stream frame, decides
  how CSII is sent.

What makes it hard: the Config API must not read a late answer as the answer to
the next request, though its only evidence is a 16-bit session id that wraps; a
v1.0.x sensor *runs* a v1.1.0 request that it cannot parse, so no request may
reach it, whenever it is reflashed; an answer that is lost says nothing of what
the sensor stored; datagrams are lost, repeated and reordered while session ids
repeat; counts in a payload decide where the rest of it is; the sensor restarts;
`Stop` races reconnects, and senders that go on.

What makes each component correct: an answer belongs to its request, requests
run at most once, the stream of a connection stays aligned, no caller waits for
ever; an error code says no more than is known; a delivered payload is one
message, and a typed one exactly what its counts say; loss statistics are exact;
`Stop` returns, leaves no thread and no socket; a broken stream comes back; a
failed `Init` leaves nothing; vehicle input goes out in order, over the transport
the sensor takes; a scan ends and lists each radar once; an update never leaves a
radar to boot a mix.

## The modules

| Module | What it is |
|---|---|
| `AtMostOnceCall` | abstract: what a caller may know about a request and how often it ran |
| `ConfigTransport` | `TcpClient` and `ConfigClient::Exchange`, threads, connections, a sensor that reboots |
| `ConfigTransportProofs` | theorems about `ConfigTransport` and the environments of `MCConfigTransport` |
| `Reassembly` | abstract: bytes of one session until all are there |
| `TpReassembler` | `SomeipTpReassembler`, with its range list |
| `RdiStream` | `ProcessRdiDatagram` over `TpReassembler`, a network, a sensor |
| `RdiStreamProofs` | theorems about `TpReassembler` and `RdiStream` |
| `StreamMessages` | the envelope, the E2E check and the parsers of the three streams |
| `StreamMessagesProofs` | theorems about `StreamMessages` |
| `Lifecycle` | `Init`, `Start`, `Stop`, the receiver threads, `TcpStreamClient`, `UdpReceiver` |
| `LifecycleProofs` | theorems about `Lifecycle` |
| `CsiiSender` | `SendVehicleInput`, its two senders, the Config API's part of `Init`, `Stop` and `ReconnectConfigApi` |
| `CsiiSenderProofs` | theorems about `CsiiSender` |
| `ConfigClient` | each method of `ConfigClient`, the radar's settings and access mode |
| `ConfigClientProofs` | theorems about `ConfigClient` |
| `Discovery` | `Discovery::Scan` and the radars that answer |
| `DiscoveryProofs` | theorems about `Discovery` |
| `FirmwareUpdate` | `afi_sdk.firmware.update` and the radar it updates |
| `FirmwareUpdateProofs` | theorems about `FirmwareUpdate` |
| `MC*` | small instances for TLC; each `.cfg` says what it is an instance of |

### ConfigTransport

The variables `mutex`, `socket`, `reconnect`, `generation`, `session` and
`lastE2eOk` are the members of `TcpClient`; `pc` and `cur` say where each thread
is. An exchange is cut where another thread, the sensor or the network can act
between: `BeginRequest` (`HasEndpoint()` is read without the mutex), then
`Refuse`, `UseSocket` or `Reopen` under the mutex, `Send`, `RecvHeader`,
`RecvBody` or `RecvProbeBody`, `RecvFails`, and `Finish`, which runs after the
mutex is released. Every connection starts with the GetDeviceInfo probe
(`Probing`), whose body decides the generation. `CloseLocked` throws away what
was not read. A response is a header and a body, both marked with the frame they
answer: the code sees only method and session id (`Answers`), the properties see
the rest. `SensorAnswers`, `ConnectionLost` and `SensorReboots` stand for the
sensor and the network. The sensor may be slow, garble a header (`Echoes`), send
bodies that are short, damaged or not JSON (`Bodies`), and come back with other
firmware (`bootGen`).

Not in it: `SetRequestTimeout`, the payloads (`ConfigClient` has them), the
Counter of the E2E header (never read back), and the retry loop of
`ReconnectConfigApi`, which is `Connect` repeated here and has its steps in
`CsiiSender`.

`ImplementsAtMostOnce` is a refinement: with `Status` and the length of `runs`
for its variables, every behaviour of the transport is one of `AtMostOnceCall`,
where `kNotSupported` and `kInvalidParam` mean *not sent*, an answer means *ran
once*, and any other error means *not known*.

### TpReassembler and RdiStream

`TpReassembler` is the state of `SomeipTpReassembler` as one record and `Feed`
as an operator on it, step by step as the code does it: malformed segments,
another session, limits, the copy into a buffer that is never emptied, the
merge of ranges, conflicting ends. `TpSpec` feeds it every segment there is, in
any order. `Reassembly` is the same promise with a function from positions to
bytes; `TpReassembler` implements it.

`RdiStream` extends it (`tp` is the stream's `rdi_tp_`) and feeds it datagrams of a sensor that numbers its messages with a
wrapping session id and its send slots with a wrapping Counter. Bytes are the
number of the message they come from, so `DeliveredIsOneMessage` is stated with
no CRC to help: with `validate_e2e` off the reassembler alone must keep messages
apart. `Consume` is `ConsumeE2eHeader`, the delivery and `TrackRdiLoss`.
`StopAndInit` is a Stop and an Init between two datagrams: the baseline of the
loss statistics, the totals and the reassembler survive them, only the stream
generation does not.

Assumed of the environment: a datagram arrives before the session ids have gone
round since its message was sent (`window`), also on a network that delivers in
order, the receiver is not silent for a whole round of session
ids (`NotSilent`, almost two hours at 10 Hz), and the sensor's Counter is below
half its range when it restarts (`Restart`, almost seven years of slots). When a
sensor restarts in the middle of a message and its next session ids coincide,
two messages could mix; the CRC would then report it.

### Lifecycle

One application thread calls `Init`, `Start` and `Stop`; every stream has a
receiver and a thread. `Init` opens stream after stream (`InitOpensTcp`,
`InitOpensUdp`) and may fail at any of them (`InitFails`). `Stop` is cut into
every store and system call that a receiver thread can observe: `SetStopping`,
`Close`'s flags, the close of the socket, the store of `kInvalidSocket`, the
join. A thread is cut likewise, in particular `try_reconnect`: the test of
`running_` (`Reconnect`), the close (`Drop`), the sleep, `Open`'s store of
`running_`, the connect (`Connected`), the store of `open_` (`Opened`).

A socket is a value; `kernel` says which are open, `blocked` which one a `recv()`
was called with. A socket is not used again while anything refers to it, so a
descriptor closed twice is harmless here, which it may not be in the program.
`CloseWakesRecv` is whether closing a socket ends a `recv()` on it in another
thread, as it does on Windows; on Linux it does not.

`StopClosesTheRest` is what Stop does promise. Two kinds of socket are excepted
by name: the UDP socket of a stream that had a `TcpStreamClient` in an earlier
`Init`, and what `late` records, the connection a reconnect under way makes
after Stop has looked at `socket_` (both under *Known defects* below).

### StreamMessages

One step of `Process...Datagram` is the checks of the envelope, of the room for
an E2E header and of the E2E header itself, and the store of the generation; one
`ReadList` is one count field with its check and its entries. A payload is its
length and its counts, and a count is chosen when it is read, so every payload
is covered. `read` is how far the code has looked: `ReadsInPayload` holds it
against `len`. `AcceptedIffExact` holds the verdict against `WellFormed`, which
is written from the layouts alone. The layouts are tables (`RdiLists`,
`ShiiLists`, `SpiLists`); the checks are three operators, since the code writes
them in three ways: an equality, an addition with what follows the list, a
division.

`Messages` are what may arrive. A CRC finds the damage it covers; what it does
not cover is the CRC words themselves, from which the generation is read, and
that is what `GenerationIsClean` is about. Its `Clean` messages are those the
sensor sends; a v1.0.x sensor whose CRC-64 has a high word of zero (one in
2^32) would be taken for v1.1.0 and is left out.

### CsiiSender

`SendVehicleInput` is cut at what others can see: the check of `state_`
(`SendBegins`), the mutex with the choice of the transport (`Choose`), the socket
and the frame (`Connects`), the send. `Stop` and `fail_init` disconnect both
senders without `csii_mutex_` (`CloseUdp`, `CloseTcp`), so they come between any
two of these. `tcp` and `udp` are the sensors the sockets are connected to.
`TcpClient` is in it as far as its generation goes: forgotten when `Connect`
begins, learnt when the probe ends, kept by `Disconnect`. `ReconnectConfigApi`
runs beside Stop and tries again until its deadline.

The properties use histories: `sure` is that the SDK had been told the firmware's
generation before a call and nothing has put it in doubt since, `calm` that a
call began after Init and before Stop, `late` that some other thread was in a
call when Stop or Init began, or has called since. Not in it: that Stop frees
`config_client_` under a `ReconnectConfigApi` that runs (the object is a facade
over `tcp_client_`, which lives on).

### ConfigClient

One action per method: its argument check (`InvalidParam`), its request, and
what it makes of the answer. `Exchange` is one step, since `TcpClient` lets one
exchange at a time in; `ConfigTransport` has its insides. It ends without a
request, without an answer to a request that the radar ran or not, with an answer
that does not parse, or with a return code (`AfiErrorFromReturnCode`).
An answer (`Answers`) carries what the radar found (`Found`), where any member a
GET reads may be missing or of a type that is not read (`Sent`), and it may have
been damaged on the way (`Spoilt`): another value, unreadable members, another
return code. The code uses a damaged answer like any other and keeps the verdict
of the E2E check beside it (`LastResponseE2eOk`), and so does `Exchange`. A GET
leaves `safe_value`'s default for what it cannot read and returns `kOk`;
`GetDetectionThreshold` and the access mode are checked and give
`kProtocolError`.
`EnterMode` is up to three exchanges with anything in between.

The members of the structures are grouped into settings (`Network`, `Threshold`,
...), and a value is `old`, `new` or `default`, or a number where the code checks
one. The radar stores what a SET brings, puts it to use when it boots, and runs a
method only in its access mode. `known` is, for each setting, what the answers so
far leave open to a caller that looks at the code and at the verdict:
`CallerKnows` says that the stored value is always among them. `kOk` with a
verdict that passed (`Trusted`) means done and stored, any other code of such an
answer means not done, and `kTimeout`, `kDisconnected`, `kProtocolError` and a
verdict that failed (`Doubt`) leave it open. A value that a GET read with `kOk` and
a passed verdict is the stored one, but for one case: a value equal to the
default of a missing member (`Member`) tells a caller nothing, because the code
gives it no way to see which of the two it is. A caller that takes it for the
radar's all the same is misled ("Known defects").
What else could mislead is in it: `configured_profile`, read as the running
profile when it is missing; a second CFAR table that a single range mode
ignores; a destination without a protocol; and a `crc32` without its prefix, which
the radar would read as decimal (`normalize_crc32`).

`EnterMode` acts on the mode that `GetMode` read, from a damaged answer too;
`EnterModeReaches` asks only of its last answer that it passed the check.

Assumed of damage: it is to the body, which the CRC covers (what a wrong SOME/IP
header leads to is in `ConfigTransport`), and the check finds it. The verdict is
the caller's own: with several threads it may be another's, see "Known defects".

### Discovery

`Scan` with its clock: `LoopTop` computes the remaining time and makes it the
receive timeout, where 0 would mean to wait for ever. A radar that hears the
broadcast answers twice; the network loses, repeats, delays and garbles, and
`RecvOther` is any other traffic. `ParseResponse` gives the record of an answer
or none; its `Shapes` are the answers the code tells apart. An answer without any
member is listed with an empty serial number, as the code does; such an entry is
of no radar (`of`).

### FirmwareUpdate

`pc` is the request the SDK makes next. A request is `Answered`, `Refused` by the
radar, or lost (`RequestLost`): then the radar ran it or did not, and the SDK
does what it does on a timeout. The steps follow `update`: `GetMode`,
`EnterDiagnostic`, `EnterProgramming`; the bootloader if asked for; `Origin`, the
face marked at the start; for each component `Start`, `Chunk`, `Commit` and the
polls of `wait_idle`; between two components `Check`, which switches back when
the marker has moved; after the last one `Final`, which switches to the new face;
`Reboot`. `check`, `final`, `confirm` and `origin` are calls of `_active_face`.

The radar is what `firmware.py` and `test/test_python_firmware.py` say of it: one
session, two faces, a marker, firmware that moves the marker at each commit
(`legacy`) or only on a switch. An image is the number of the call that brought
it, or `Torn` while it is being written. A restart (`PowerLost`) goes unnoticed,
since the connection comes back on demand.

Not in it: `verify`, `wait_for_restart` and `radar_uptime`, which run after the
update and only read; callbacks that raise; a second application that updates the
same radar.

## The runs

| Run | Instance | Shows |
|---|---|---|
| `transport` | 2 threads, 2 requests, 2 connections, 2 boots with any firmware and a sensor that is slow or gone but honest; or 1 thread, all bodies, garbled headers, session ids that wrap | `TypeOK`, `AnswerMatchesRequest`, `OpenSocketIsProbed`, `LegacySensorOnlyProbed`, `NoSpuriousProtocolError`, `OneThreadLastResult`, `NoConnectionWithoutEndpoint`, `ImplementsAtMostOnce`, `MutexReleased` |
| `reassembler` | payloads to 6 bytes, segments to 3 (4 offered), 2 sessions, 2 messages | `TpTypeOK` (with the bounds of the buffer), `ImplementsReassembly` |
| `rdi` | 4 messages; a network that only loses, with skipped slots, 2 boots and every E2E setting; or one that repeats and reorders, with up to 3 segments, 3 session ids, 7 arrivals; Counter wrapping, Stop and Init between | `TypeOK`, `DeliveredIsOneMessage`, `UninterruptedIsDelivered`, `LossIsExact` |
| `streams` | lengths where lists end and around them, counts at and past every limit, every damage, every E2E setting | `ReadsInPayload`, `AcceptedIffExact`, `GenerationIsClean` |
| `lifecycle` | 2 streams, TCP and either, any number of Inits and outages | `TypeOK`, `HeaderAtFrameStart`, `NoThreadOutlivesStop`, `FailedInitLeavesNothing`, `StopClosesTheRest`, `StopReturns`, `StreamRecovers` |
| `csii` | 2 threads, 2 sensors, 2 sends, 2 Inits, a reconnect, a reboot, session id and Counter about to wrap | `FramesInOrder`, `RightTransport`, `StopCloses` |
| `config_client` | 2 callers, 3 calls of any method, any number of reboots, every answer with any members missing or damaged, 2 sets of old values (the defaults and others) | `CallerKnows`, `EnterModeReaches`, `ProgrammingOnlyWhenAsked` |
| `discovery` | 3 radars, 2 of them at one address, a window of 2 steps, an error | `ListedOnce`, `AnsweredIsListed`, `ScanEnds` |
| `firmware_update` | 3 components, 2 updates, 2 losses of power, both kinds of radar, every request but `check` may be lost | `TypeOK`, `ActiveFaceWhole`, `OkMeansWritten`, `RebootWhileIdle`, `NoTransferLeftOpen`, `UpdateReturns` |
| `stop_on_linux` | 1 TCP stream, `CloseWakesRecv = FALSE` | *violates* `StopReturns` |
| `switch_mid_set` | 2 components, only the answer to `check` lost | *violates* `ActiveFaceWhole` |
| `csii_after_stop` | 1 thread, 2 sensors, 2 Inits | *violates* `FramesReachSensor` |

The type invariants of `StreamMessages`, `CsiiSender`, `ConfigClient` and
`Discovery` are not among the runs' properties, as no plausible slip in the code
breaks them alone. All four are proved.
The exact constants are in the `.cfg` files. `transport` and `rdi` each take two
kinds of environment into one run: `world` and `net` are chosen in the initial
state and never change.

**Bounds, and why they are enough.** Two threads are enough for the transport:
the mutex lets one of them be inside, and what the other can do meanwhile is
wait, or be before or after its own exchange. Two connections and two boots give
a reconnect to other firmware; a late answer needs one request after the one it
belongs to. A session id that wraps at once makes a repeated id a matter of a few
steps instead of 65535. The reassembler's instance has every overlap of two
segments and gaps closed from either side; its alignment of 2 stands for 16. For
the stream, session ids wrap within the messages sent, and the Counter starts at
0 or at 14 of 16. For the parsers, what a check does depends on the order of
length and extent only, and the lengths include both sides of every list's end
for counts up to a few and for the limits; the theorems have all lengths. In
`Lifecycle` nothing is counted but sockets (`MaxSocket`, a stream's own and one
more that a reconnect makes or Stop leaves) and the steps of the backoff
(`MaxDelay`); it runs for ever. Two streams are needed for an `Init` that fails
after one was opened and for joins that wait for each other. One is on TCP and
one on either transport, so that a stream changes its transport beside one that
does not; the three streams of the program differ in nothing the model sees.
For CSII, two sends are two threads in the middle of a call or one call after
another, two Inits a change of the sensor, and with a reboot and a reconnect
every order of an old probe, an old frame and new firmware occurs. Three calls of
the Config API are a SET, a call that disturbs it and one that reads it; reboots
are not counted. A window of two steps gives a timeout that is set again while
answers come. An update needs three components, a first, a last and one between;
a second update finds what the first left behind; an image of two units is
complete, partly received or empty. Deadlock is checked but in the runs whose
behaviours end when their messages, calls, window or updates are used up
(`rdi`, `csii`, `csii_after_stop`, `config_client`, `discovery`,
`firmware_update`, `switch_mid_set`).

**Fairness.** In `ConfigTransport`, a thread that can take a step inside a call
takes one (weak fairness of `ThreadStep`): threads run, and `SO_RCVTIMEO` makes a
`recv()` return. Nothing is assumed of the application, the network or the
sensor. In `Lifecycle`, receiver threads and an `Init` or `Stop` once begun go
on, callbacks return, and a `recv()` from a peer that is gone fails (the
keep-alive set in `configure_socket`: 5 s and three probes). That the sensor
ever sends a frame is not assumed, and that is what `stop_on_linux` is about. In
`FirmwareUpdate`, an update once called goes on (weak fairness of `SdkStep`):
every request and `wait_idle` time out. Nothing is assumed of the radar. In
`Discovery`, time passes, the thread runs and a receive whose timeout is over
ends; that an answer ever comes is not assumed. The other modules state safety
only.

## What the violations show

- `stop_on_linux`: `Stop` closes the socket to unblock `recv`, which on Linux it
  does not. If the connection lives and the sensor is silent, `Stop` does not
  return. With `CloseWakesRecv = TRUE`, `lifecycle` shows that it does.
- `switch_mid_set`: when `GetBootInfo` fails between two components,
  `_active_face` is `None`, which is not the face looked for, so `update`
  switches. The radar had not moved its marker, and the switch moves it to the
  face that is half written; `_switch` asks for `origin` but the request names no
  face. The next START is then refused or overwrites the face that was running.
- `csii_after_stop`: `SendVehicleInput` refuses only before `Init`. A cyclic
  thread that goes on after `Stop` opens a CSII socket to the sensor of before;
  `Init` with another `sensor_ip` does not close it, `IsConnected()` is true, and
  the vehicle input for the new sensor goes to the old one.

## Known defects

Besides what the runs above show violated, these are behaviours of the code that
a reader would not expect of it and that the passing properties leave out, by an
exception in their statement or by the case they are stated for; each is given
with its line and the property that leaves it out.

- `GetLastSensorResult()` with several threads: `Exchange` reads
  `LastResponseE2eOk()` after `SendRequest` has released the mutex
  (`config_client.cpp:106`), so the return code of one call may be stored with
  the E2E verdict of another. `OneThreadLastResult` is stated for one thread,
  which the API reference advises.
- A UDP socket left open: `Stop` chooses by `if (rdi_tcp_)` (`afi_sdk.cpp:339`),
  which is never reset, so after Init over TCP, Stop, Init over UDP, the next
  Stop closes the old `TcpStreamClient`. `StopClosesTheRest` excepts it.
- A connection made after `Close`: `Open` sets `running_` again
  (`tcp_stream_client.cpp:44`), so a reconnect that was sleeping when `Stop`
  called `SetStopping` and `Close` opens a socket after them; it stays open until
  the object is destroyed or initialised again, or for good if `Close` then
  overwrites `socket_`. `StopClosesTheRest` excepts it as `late`.
- `EnterMode` may return `kAccessDenied` although the radar is in the target
  mode: when another caller enters Diagnostic between its `GetMode` and its
  `SetMode`. `EnterModeReaches` speaks of `kOk` only.
- A member that is missing from an answer or has another type is read as a
  default of the SDK, and the GET returns `kOk` (`config_client.cpp:20`), although
  the API reference gives `kProtocolError` for a response whose "content is
  malformed" (`docs/api_reference.md:877`); only `GetDetectionThreshold` and the
  access mode check what they read. A caller that takes the default for the
  radar's setting is misled: in the model, with `tells |-> TRUE` in `Member`,
  `CallerKnows` is violated by the first `GetNetworkConfig`. It excepts a value
  equal to that default.
- An answer that fails the E2E check is used like one that passes
  (`tcp_client.cpp:272`, as the API reference says): a call returns `kOk`, `EnterMode`
  takes its next step, a GET hands out its values. Only
  `GetLastSensorResult().e2e_ok` tells, and of `EnterMode` only for its last
  exchange. `CallerKnows` and `EnterModeReaches` speak of a caller that looks.
- A `ReconnectConfigApi` (`afi_sdk.cpp:371`) or a `SendVehicleInput` (`:383`) beside
  or after `Stop` opens again what `Stop` has closed. `StopCloses` is stated for
  the sequential case, no other thread in a call (`~late`); what then goes wrong
  for vehicle input is `csii_after_stop`.
- A late segment of an earlier message discards the message under way
  (`someip_tp.cpp:24`). `UninterruptedIsDelivered` speaks of messages whose segments
  come in a row.
- With `enable_config_api` off, a generation that an earlier `Init` probed is
  kept (`Disconnect` does not forget it), and goes before what the streams say
  (`afi_sdk.cpp:425`). `RightTransport` speaks of a call before which the present
  firmware was probed, or had its stream frames seen while nothing was probed
  (`Told`); old probe and new stream frames together are left out.

Two more things the code does that are no disagreement with what it says of itself,
but that a reader should know: an RDI message overtaken by a later one counts as
loss although it is delivered; and `wait_idle` takes a radar that restarted in
the middle of a write for one that is done, which for the firmware the check of
the active face makes good, and for an update of the bootloader alone nothing
does.

## What is proved

Each component has a module of proofs. Its argument is an inductive invariant,
stated at the end of the component's module (of `MCConfigTransport` for the two
environments of `transport`), a lemma for each
part of it or each action, and a theorem that `Spec` keeps it; the properties
follow. Every theorem below holds for every value of the constants that satisfies
the assumption named, which TLC evaluates on the instances.

### ConfigTransportProofs

`TransportAssumption`: any number of threads, requests, connections, boots,
session ids and methods; the probe's method is one of the methods, no thread is
called `NoCaller`.

| Theorem | States |
|---|---|
| `TypeCorrect` | `TypeOK` always |
| `Inductive` | `IInv` always |
| `LegacyNeverActs` | `LegacySensorOnlyProbed`: a v1.0.x sensor runs no request |
| `AnswersMatch` | `AnswerMatchesRequest`: no answer is taken for another request's |
| `IdleSocketProbed` | `OpenSocketIsProbed` |
| `NoStrayConnection` | `NoConnectionWithoutEndpoint`, an action property |
| `CallsInvariant` | `RpcInv` always |
| `TransportIsAtMostOnce` | `ImplementsAtMostOnce`: the transport refines `AtMostOnceCall` |
| `WorldInvariant` | `WorldInv` always, of `MCSpec` |
| `HonestSensorNoProtocolError` | `NoSpuriousProtocolError`, of `MCSpec` |
| `OneThreadReadsOneAnswer` | `OneThreadLastResult`, of `MCSpec` |

The argument is in `IInv`. The safety properties are not inductive: that the
session id of an answer matches says nothing, since ids repeat. What makes the
answer right is that the stream holds nothing else. So `StreamInv` says what can
be in the socket at each point of an exchange: nothing before the request is
sent and nothing when no thread is inside; then the request itself, or the one
or two parts of its own answer. It holds because every failure closes the
socket (`Fail`) and a new connection starts empty (`ConnectFrames`,
`ConnectEmpty`). `LockInv` ties `pc` to the mutex and says that whoever holds it
has a socket. `FrameInv` says that a frame other than a probe is on its way only
to a boot that speaks v1.1.0, and that frames of earlier boots are gone;
`ProbeInv` that outside a probe an open socket has been probed on the boot that
serves it. Each has one lemma for the step (`TypeStep`, `LockStep`, `FrameStep`,
`ProbeStep`, `StreamStep`, `RunsStep`, `TakenStep`), by cases on the actions, and
`InvStep` puts them together.

The refinement needs to know what the sensor has done with a request at the
moment its thread learns how it ends. `RpcInv` says so: a request has one thread,
which has not told its end yet (`CallInv`); its frame is on its way at most once,
on one connection, and before it is run, never again after (`FlightInv`); and at
each place a thread may be, a request not yet sent, or refused, is neither under
way nor run, and one whose answer has begun was run once (`SendInv`). Then each
action is a step of `AtMostOnceCall` or leaves its variables alone; a timeout maps
to the step that leaves it open whether the request was run.

`MCConfigTransport` lets two environments act on one transport. With honest
sensors (`threads`), all parts of answers under way echo the ids and have a
readable body, and a v1.0.x body answers a probe only; with `HeaderInv`, that a
thread which waits for a header finds the one of its own exchange, no check of
the code finds a protocol error. With one thread (`faults`), no other is in a
call, so from the moment the answer is taken until the result is stored nobody
else sets `lastE2eOk`.

### RdiStreamProofs

`ReassemblerAssumption`: any payload, segment and alignment size, sessions and
origins. `StreamAssumption`: any number of messages, any networks and sensors of
the kinds described, any Counter period and header size; segments of an aligned
length. `RestartsBetween`, a hypothesis of the last three theorems: a sensor
restarts only where its messages fit one datagram. If it restarted in the middle
of a longer message and its next session ids coincided, only the CRC would tell
the mixture, and the model has none. `BelowHalf`, a hypothesis of the last one: a
run of the network is shorter than half the range of the Counter (2^31 slots are
almost seven years); a longer advance is what `TrackRdiLoss` takes for a decrease.
The run `rdi` satisfies both.

| Theorem | States |
|---|---|
| `TpInvariant` | `TpInv` always, of `TpSpec` |
| `ReassemblerTypeCorrect` | `TpTypeOK`, of `TpSpec` |
| `ReassemblerImplementsReassembly` | `ImplementsReassembly`, of `TpSpec` |
| `StreamInvariant` | `StreamInv` always, of `Spec` |
| `StreamTypeCorrect` | `TypeOK`, of `Spec` |
| `DeliversOneMessage` | `DeliveredIsOneMessage`, of `Spec` |
| `DeliversUninterrupted` | `UninterruptedIsDelivered`, of `Spec` |
| `CountsLossExactly` | `LossIsExact`, of `Spec` |

`AddCoveredRange` sorts a list and folds over it, so the proofs need induction over
data. The library's induction theorems cannot be used, but a set of natural
numbers has a smallest by its theorem that finite sets are well founded
(`Smallest`), and from that every number has a property that passes from each to
the next (`AllNaturals`). `FoldLeft` is expanded to the function it is defined by
(`MergeIter`), and the merge is followed element by element: after each, the list
is apart and covers what the elements so far cover (`MergeLoop`, `MergeStep`,
`MergeAll`). The sort is `Sorted`, a list with the same elements in order, and
`InsertOrder` shows there is one. So the list stays normal (`TpInv`): within the
buffer, in order, apart, and only what was covered. Then `FullyCovered` holds if
and only if one range is the whole payload, and `FeedPuts` says of each outcome of
`Feed` what `Reassembly` says.

In the stream, `StreamInv` has the types, `TpInv`, and that every byte held is one
of a message that was sent. That messages are not mixed is a matter of session
ids: less than a round apart they differ (`RoundInv`), so the message under way is
that of the last datagram (`UnderWayInv`), and a segment of another one restarts
the reassembler. `TogetherInv` says that of a message not yet delivered, what
came in a row is held; when the last segment comes, all of it is (`SegmentsCover`).
The proof showed that `window` has to bound the network that delivers in order
too: with a message a whole round late, two could mix.

The loss statistics compare the Counters of two frames only, so `LossIsExact` needs
to know what Counters say of slots. A Counter is the number of slots since some boot,
the last one or an earlier one (`SlotInv`); hence between two messages it advances by
the slots between them, or, after a restart, by fewer, or it decreases (`GapInv`).
In order, a message is delivered once and after all earlier ones (`InOrderInv`), so
a frame that counts adds the slots since the last one that did, and `total` and
`lost` stay those of the frames counted (`CountInv`). The remainders at the wrap are
solved without induction: `Divided` writes a number as quotient and remainder,
`OneBoot` and `LaterBoot` compare two Counters of the same and of different boots.

### StreamMessagesProofs

`MessagesAssumption`: lengths and counts are natural numbers.

| Theorem | States |
|---|---|
| `Invariance` | `IInv` always |
| `NeverReadsPast` | `ReadsInPayload`: no parser reads past the payload |
| `AcceptsAllAndOnlyExact` | `AcceptedIffExact`: accepted if and only if exact |
| `AcceptsOnlyExact` | `AcceptedIsExact`, its first half |
| `GenerationOfStreams` | `GenerationIsClean` |

`ReadsInPayload` is not inductive: that the next list fits is checked against the
offset, so the offset must be known to be where the code has read to, and inside
the payload. `ParserInv` says so, and that the offset is the header and the
extent of every list read (`Parsed`), with every count within its limit. Then
`FittingListEnds` shows, for each of the three ways the code checks, that a list
that fits ends in the payload, and the byte or two of the next count are there
because the code compares the offset with the length (SHII and SPI) or the
payload has a least size (the first count). At the end `pos = len` and `Parsed`
give `WellFormed`. For the converse, `RestOfPayload` shows that counts which
describe the payload and agree with those read go on from the offset, list by
list; so each of the four ways to reject a message contradicts them: too short
(`TooShortForAny`), no count there, a list that does not fit (`FitsIfThere`, where
the division of the SPI parser is shown to lose nothing), bytes left over.
`GenerationIsClean` is inductive by itself: with `validate_e2e` a message passes
if and only if it is undamaged (`PassesIffClean`), and an undamaged one tells its
sender's generation (`CleanTells`).

### LifecycleProofs

`LifecycleAssumption`: any number of streams, of sockets, of backoff steps.

| Theorem | States |
|---|---|
| `LifeInvariant` | `LifeInv` always |
| `LifeTypeCorrect` | `TypeOK` |
| `StopOutlivesThreads` | `NoThreadOutlivesStop` |
| `FramesAreReadFromTheirStart` | `HeaderAtFrameStart` |
| `FailedInitReleases` | `FailedInitLeavesNothing` |
| `StopClosesAllButThese` | `StopClosesTheRest` |

`LifeInv` says where `Init` and `Stop` are (`ControlInv`) and, for each stream: which
threads have been waited for (`JoinInv`), that a TCP thread has a client
(`ClientInv`), that a blocked `recv` is on the current socket or on one already
closed (`RecvInv`), that only the connection a thread is on can be in the middle of
a frame, and is given up unless the body is read next (`FrameInv`), and which
sockets may be open before and after `Stop` has passed the stream (`SocketInv`,
with `Past` and `Swept`). The hard part is the race of `try_reconnect` and
`Close`: what it can leave open is just `late`, which `StopClosesTheRest` excepts.
The proofs hold whether or not a close ends a `recv` (`CloseWakesRecv`).

### ConfigClientProofs

`ClientAssumption`: any callers, any number of calls.

| Theorem | States |
|---|---|
| `ClientInvariant` | `ClientInv` always |
| `ClientTypeCorrect` | `TypeOK` |
| `CodesAndValuesAreRight` | `CallerKnows`: codes, verdict and values read say what is so |
| `EnterModeIsTruthful` | `EnterModeReaches`: `kOk`, with a last answer that passed, means the mode was reached |
| `ProgrammingIsAskedFor` | `ProgrammingOnlyWhenAsked` |

`ClientInv` adds to the properties what they need to be inductive: an `EnterMode`
under way heads for a mode somebody asked for and has noted every mode the radar
was in since it began (`EnterInv`), and a transfer may be over whatever the answers
said, for a reboot ends it (`TransferInv`). What an exchange can end with is in
`AnswersDef` and `ExchangeDef`: an answer that is not damaged says whether the
request was run, and carries what the radar has. From there `SetStep` and
`GetStep` prove the step of every method, from what it sends and reads; a member
that is read is the stored value or tells nothing (`MemberDef`).

### DiscoveryProofs

`DiscoveryAssumption`: each radar has a serial number that no other radar at its
address has. The code makes the same assumption: it takes serial number and
address for the radar.

| Theorem | States |
|---|---|
| `ScanInvariant` | `ScanInv` always |
| `ScanTypeCorrect` | `TypeOK`: in it, that the receive timeout is not 0 |
| `NobodyIsListedTwice` | `ListedOnce` |
| `NobodyIsLeftOut` | `AnsweredIsListed` |

`ListInv` says that every entry is the record of some answer and that `seen` holds
exactly the keys of the list; `WaitInv` that a receive ends no sooner than the
window.

### CsiiSenderProofs

`CsiiAssumption`: at least one sensor, more than two session ids, and a Counter
whose period is more than twice the number of calls of a run (2^32 in the code).

| Theorem | States |
|---|---|
| `CsiiInvariant` | `CsiiInv` always |
| `CsiiTypeCorrect` | `TypeOK` |
| `FramesStayInOrder` | `FramesInOrder` |
| `TransportIsRight` | `RightTransport` (with the firmware known as `Told` says) |
| `StopLeavesClosed` | `StopCloses` (the sequential case) |

A Counter that wraps has no order, so `OrderInv` speaks of ages: how many frames
were built since a frame was (`Age`, modulo the period). On the wire ages fall, the
frame in the hand of the one thread past the mutex (`HoldsLock`) is the youngest,
and no age comes near the period because each call builds one frame. `CutInv`
says that a connection on which part of a frame was sent is closed;
`GenerationInv` that what the SDK was told of the sensor is so; `CloseInv` what
`Stop` has closed at each of its steps.

### FirmwareUpdateProofs

`UpdateAssumption`, `RequestsAssumption`: any number of components, updates and
restarts, any requests that may be lost.

| Theorem | States |
|---|---|
| `UpdateTypeCorrect` | `TypeOK` |
| `RebootsWhileIdle` | `RebootWhileIdle` |
| `LeavesNoTransferOpen` | `NoTransferLeftOpen` |
| `OkMeansWrittenHolds` | `OkMeansWritten` |
| `ActiveFaceStaysWhole` | `ActiveFaceWhole`, if the answer to `check` is not lost |

The radar may restart between any two steps and the SDK does not notice, so
nothing can be said of it from `pc` alone. But a restart leaves it in normal mode,
where it refuses whatever acts: `UpdateInv` says what has been written so far, and
what state the session is in, of a radar in programming mode, and of one whose
marker has moved. `FaceInv` adds that the face in use is whole (`MarkerInv`) and is
the one the update began on until the marker moves (`OriginInv`). The condition of
the last theorem is needed: without it the run `switch_mid_set` finds the mix.

### What the proofs leave out

Model-checked only:

- Liveness, which needs ENABLED: `MutexReleased`, `StopReturns`, `StreamRecovers`,
  `ScanEnds`, `UpdateReturns`.

Worth proving next: `LossIsExact` without `BelowHalf`, of runs in which only the
frames next to each other are less than half the range apart; and abstract
specifications, as the reassembler has one, of the Config API calls and the update.

## What is not modelled

- The filter of source addresses of `UdpReceiver`; `ResolveTransport` but for the
  fact that an unknown transport fails `Init`.
- A callback that calls `Stop`, which joins its own thread, and the destruction
  of the SDK, or the free of `config_client_` by Stop, beside a Config API call of
  another thread: the API reference leaves the threads to the application.
- The values in payloads and frames, the texts and numbers of Discovery records
  and of the Config API's informative structures: conversions without state.
- The CRC polynomials. `E2eOk` is their verdict; unit tests compute them.
- `verify`, `wait_for_restart` and `radar_uptime` of the firmware update, which
  only read. `wait_for_restart` compares uptimes (`firmware.py:310`): a radar that
  was updated soon after it started may be back with a higher one. A radar that
  moves its marker while a component is written has its good face overwritten,
  as `target_slot` is compared after the write only (`firmware.py:232`).
- The Python SDK otherwise: it repeats the C++ protocols and has no threads. Its
  reassembler keeps several sessions; it opens no stream sockets.
- The logger, the endian helpers, the platform layer, examples and tools.
