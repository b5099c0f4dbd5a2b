----------------------------- MODULE CsiiSender -----------------------------
(***************************************************************************)
(* SendVehicleInput, called by any thread, with TcpSender and UdpSender;   *)
(* the parts of Init, Stop and ReconnectConfigApi that touch these         *)
(* sockets and the connection of the Config API; and the generation of the *)
(* sensor, which decides between TCP and UDP.                              *)
(*                                                                         *)
(* csii_mutex_ is held over a whole SendVehicleInput.  Each sender and the *)
(* TcpClient has a mutex of its own over each of its methods, so that a    *)
(* method is one step; but a TcpClient forgets the generation when Connect *)
(* begins and learns it when Connect ends, and others read it in between.  *)
(*                                                                         *)
(* ConfigTransport has the exchanges of the Config API, Lifecycle the      *)
(* stream sockets and threads that Init, Start and Stop deal with too.     *)
(***************************************************************************)
EXTENDS Integers, Sequences, FiniteSets

CONSTANTS
  Threads,       (* application threads that send vehicle input            *)
  NoThread,      (* the holder of a free mutex                             *)
  Sensors,       (* the addresses Init may be given                        *)
  NoSensor,      (* the peer of no socket                                  *)
  Forced,        (* values of csii_transport: "", "tcp", "udp"             *)
  CounterMod,    (* 2^32, the values of csii_counter_                      *)
  SessionMod,    (* 2^16, the values of csii_session_                      *)
  SentBefore,    (* frames built before, as many as a long run may have    *)
  MaxSend,       (* bound: calls of SendVehicleInput                       *)
  MaxInit,       (* bound: calls of Init                                   *)
  MaxReconnect,  (* bound: calls of ReconnectConfigApi                     *)
  MaxReboot      (* bound: restarts of a sensor                            *)

ASSUME CsiiAssumption ==
  /\ NoThread \notin Threads /\ NoSensor \notin Sensors /\ Sensors # {}
  /\ Forced \subseteq {"", "tcp", "udp"}
  /\ SessionMod \in Nat /\ SessionMod > 2
  /\ CounterMod \in Nat /\ CounterMod > 2 * MaxSend
  /\ SentBefore \subseteq Nat
  /\ MaxSend \in Nat /\ MaxInit \in Nat
  /\ MaxReconnect \in Nat /\ MaxReboot \in Nat

Generations == {"v1.0", "v1.1"}

VARIABLES
  state,            (* state_, kReady and kRunning taken as one            *)
  config,           (* sensor_ip and csii_transport                        *)
  app,              (* where Init or Stop is                               *)
  endState,         (* what state_ will be when it has closed everything   *)
  inits,            (* calls of Init                                       *)
  client,           (* config_client_: whether there is an object          *)
  cfgMutex,         (* TcpClient::mutex_                                   *)
  cfgIp,            (* TcpClient::ip_                                      *)
  cfgPeer,          (* the peer of TcpClient::socket_, NoSensor if none    *)
  reconnect,        (* TcpClient::reconnect_                               *)
  probed,           (* TcpClient::generation_                              *)
  streamGeneration, (* stream_generation_                                  *)
  rec,              (* where ReconnectConfigApi is                         *)
  overdue,          (* its deadline has passed                             *)
  recs,             (* calls of it                                         *)
  lock,             (* csii_mutex_                                         *)
  tcp,              (* the peer of csii_tcp_                               *)
  tcpAlive,         (* whether that peer is still there                    *)
  conn,             (* history: TCP connections made for CSII              *)
  udp,              (* the peer of csii_sender_                            *)
  counter,          (* csii_counter_                                       *)
  session,          (* csii_session_                                       *)
  pc, via, frame,   (* each call: where it is, use_tcp, its frame          *)
  sends,            (* calls of SendVehicleInput                           *)
  fw,               (* the generation of each sensor's firmware            *)
  reboots,          (* restarts of sensors                                 *)
  wire,             (* history: frames on their way to a sensor            *)
  freshProbe,       (* history: the TcpClient has probed the firmware the  *)
                    (* sensor has now, and was not told to connect since   *)
  freshFrame,       (* history: since Init, the streams brought a message  *)
                    (* of the firmware the sensor has now                  *)
  sure,             (* history: the generation was known when a call began *)
                    (* and nothing has put it in doubt since               *)
  calm,             (* history: a call began between Init and Stop, and    *)
                    (* neither has begun since                             *)
  late              (* history: another thread was in a call since Stop or *)
                    (* Init began                                          *)

sdk     == <<state, config, app, endState, inits, client>>
cfg     == <<cfgMutex, cfgIp, cfgPeer, reconnect, probed>>
recon   == <<rec, overdue, recs>>
sockets == <<tcp, tcpAlive, conn, udp>>
calls   == <<lock, counter, session, pc, via, frame, sends>>
sensor  == <<fw, reboots>>
known   == <<freshProbe, freshFrame, sure>>
history == <<wire, calm, late>>
vars    == <<sdk, cfg, streamGeneration, recon, sockets, calls, sensor, wire,
             known, history>>

Target  == config.ip
NoCall  == [t \in Threads |-> FALSE]
NoFrame == [counter |-> 0, session |-> 0]

(* AfiSdk::Impl::Generation *)

(* Mutant: the streams are believed before the probe. *)
GenerationOfStreams ==
  IF streamGeneration # "unknown" THEN streamGeneration ELSE probed

Generation == IF probed # "unknown" THEN probed ELSE streamGeneration

-----------------------------------------------------------------------------
Init ==
  /\ state = "notInit"
  /\ config \in [ip : {CHOOSE s \in Sensors : TRUE}, csii : {""}]
  /\ app = "idle" /\ endState = "notInit" /\ inits = 0 /\ client = FALSE
  /\ cfgMutex = NoThread /\ cfgIp = NoSensor
  /\ cfgPeer = NoSensor
  /\ reconnect = FALSE /\ probed = "unknown"
  /\ streamGeneration = "unknown"
  /\ rec = "idle" /\ overdue = FALSE /\ recs = 0
  /\ lock = NoThread
  /\ tcp = NoSensor /\ tcpAlive = FALSE /\ conn = 0 /\ udp = NoSensor
  /\ \E n \in SentBefore :
       /\ counter = n % CounterMod
       /\ session = IF n = 0 THEN 0 ELSE ((n - 1) % (SessionMod - 1)) + 1
  /\ pc = [t \in Threads |-> "idle"]
  /\ via = [t \in Threads |-> "udp"]
  /\ frame = [t \in Threads |-> NoFrame]
  /\ sends = 0
  /\ fw \in [Sensors -> Generations] /\ reboots = 0
  /\ wire = <<>>
  /\ freshProbe = FALSE /\ freshFrame = FALSE /\ sure = NoCall
  /\ calm = NoCall /\ late = FALSE

OthersBusy == rec # "idle" \/ \E t \in Threads : pc[t] # "idle"

-----------------------------------------------------------------------------
(* TcpClient *)

ConnectBegins(who) ==
  /\ cfgMutex = NoThread
  /\ cfgMutex' = who
  /\ cfgIp' = Target
  /\ cfgPeer' = NoSensor
  /\ reconnect' = TRUE
  /\ probed' = "unknown"
  /\ freshProbe' = FALSE /\ sure' = NoCall
  /\ UNCHANGED freshFrame

(* The probe finds the generation; a v1.0.x sensor's connection is closed. *)
Probe ==
  /\ probed' = fw[cfgIp]
  /\ freshProbe' = (cfgIp = Target)
  /\ sure' = IF cfgIp = Target THEN sure ELSE NoCall

Connected == IF fw[cfgIp] = "v1.1" THEN cfgIp ELSE NoSensor

ConnectSucceeds(who) ==
  /\ cfgMutex = who
  /\ cfgMutex' = NoThread
  /\ Probe
  /\ cfgPeer' = Connected
  /\ UNCHANGED <<cfgIp, reconnect, freshFrame>>

ConnectFails(who) ==
  /\ cfgMutex = who
  /\ cfgMutex' = NoThread
  /\ UNCHANGED <<cfgIp, cfgPeer, reconnect, probed, known>>

(* A Config API call: on an open socket, or on demand after a connection   *)
(* and its probe.  Any failure closes the socket.                          *)
ConfigCall ==
  /\ app = "idle" /\ client /\ cfgMutex = NoThread
  /\ probed # "v1.0"
  /\ \/ /\ cfgPeer # NoSensor
        /\ cfgPeer' = NoSensor
        /\ UNCHANGED <<probed, known>>
     \/ /\ cfgPeer = NoSensor /\ reconnect
        /\ Probe
        /\ cfgPeer' \in {Connected, NoSensor}
        /\ UNCHANGED freshFrame
  /\ UNCHANGED <<sdk, cfgMutex, cfgIp, reconnect, streamGeneration, recon,
                 sockets, calls, sensor, history>>

-----------------------------------------------------------------------------
(* The application's Init, Start and Stop *)

(* Init refuses an unknown csii_transport after it has stored it, and      *)
(* connects the Config API if that is enabled.                             *)
InitBegins(ip, csii) ==
  /\ app = "idle" /\ state \in {"notInit", "stopped"} /\ inits < MaxInit
  /\ inits' = inits + 1
  /\ state' = "notInit"
  /\ config' = [ip |-> ip, csii |-> csii]
  /\ streamGeneration' = "unknown"
  /\ app' \in {"closeUdp", "connect", "open"}
  /\ endState' = "notInit"
  /\ freshProbe' = FALSE /\ freshFrame' = FALSE /\ sure' = NoCall
  /\ late' = OthersBusy /\ calm' = NoCall
  /\ UNCHANGED <<client, cfg, recon, sockets, calls, sensor, wire>>

InitConnects ==
  /\ app = "connect"
  /\ ConnectBegins("app")
  /\ app' = "connecting"
  /\ UNCHANGED <<state, config, endState, inits, client, streamGeneration,
                 recon, sockets, calls, sensor, history>>

(* A failure is not fatal: there is a ConfigClient either way. *)
InitConnected ==
  /\ app = "connecting"
  /\ ConnectSucceeds("app") \/ ConnectFails("app")
  /\ client' = TRUE
  /\ app' = "open"
  /\ UNCHANGED <<state, config, endState, inits, streamGeneration, recon,
                 sockets, calls, sensor, history>>

(* The streams open, or one does not and fail_init closes everything. *)
InitEnds ==
  /\ app = "open"
  /\ \/ app' = "idle" /\ state' = "ready"
     \/ app' = "closeUdp" /\ UNCHANGED state
  /\ UNCHANGED <<config, endState, inits, client, cfg, streamGeneration, recon,
                 sockets, calls, sensor, known, history>>

(* After Start, a receiver thread handles a message that passes its check. *)
StreamFrame ==
  /\ app = "idle" /\ state = "ready"
  /\ streamGeneration' = fw[Target]
  /\ freshFrame' = TRUE
  /\ UNCHANGED <<sdk, cfg, recon, sockets, calls, sensor, freshProbe, sure,
                 history>>

(* Stop has joined the receiver threads. *)
StopBegins ==
  /\ app = "idle" /\ state # "notInit"
  /\ app' = "closeUdp"
  /\ endState' = "stopped"
  /\ late' = OthersBusy /\ calm' = NoCall
  /\ UNCHANGED <<state, config, inits, client, cfg, streamGeneration, recon,
                 sockets, calls, sensor, wire, known>>

(* Stop and fail_init disconnect the senders without csii_mutex_. *)
CloseUdp ==
  /\ app = "closeUdp"
  /\ udp' = NoSensor
  /\ app' = "closeTcp"
  /\ UNCHANGED <<state, config, endState, inits, client, cfg, streamGeneration,
                 recon, tcp, tcpAlive, conn, calls, sensor, known, history>>

(* Mutant: the sender is left to its destructor. *)
CloseTcpLater ==
  /\ app = "closeTcp"
  /\ app' = "closeConfig"
  /\ UNCHANGED <<state, config, endState, inits, client, cfg, streamGeneration,
                 recon, sockets, calls, sensor, known, history>>

CloseTcp ==
  /\ app = "closeTcp"
  /\ tcp' = NoSensor /\ tcpAlive' = FALSE
  /\ app' = "closeConfig"
  /\ UNCHANGED <<state, config, endState, inits, client, cfg, streamGeneration,
                 recon, conn, udp, calls, sensor, known, history>>

CloseConfig ==
  /\ app = "closeConfig" /\ cfgMutex = NoThread
  /\ cfgPeer' = NoSensor
  /\ reconnect' = FALSE
  /\ client' = FALSE
  /\ state' = endState /\ endState' = "notInit"
  /\ app' = "idle"
  /\ UNCHANGED <<config, inits, cfgMutex, cfgIp, probed, streamGeneration,
                 recon, sockets, calls, sensor, known, history>>

-----------------------------------------------------------------------------
(* ReconnectConfigApi, which Stop does not end *)

ReconnectBegins ==
  /\ rec = "idle" /\ client /\ recs < MaxReconnect
  /\ recs' = recs + 1
  /\ rec' = "try" /\ overdue' = FALSE
  /\ late' = TRUE
  /\ UNCHANGED <<sdk, cfg, streamGeneration, sockets, calls, sensor, wire,
                 calm, known>>

ReconnectTries ==
  /\ rec = "try"
  /\ ConnectBegins("rec")
  /\ rec' = "connecting"
  /\ UNCHANGED <<sdk, streamGeneration, overdue, recs, sockets, calls, sensor,
                 history>>

ReconnectSucceeds ==
  /\ rec = "connecting"
  /\ ConnectSucceeds("rec")
  /\ rec' = "idle" /\ overdue' = FALSE
  /\ UNCHANGED <<sdk, streamGeneration, recs, sockets, calls, sensor, history>>

(* It tries again until its deadline has passed. *)
ReconnectFails ==
  /\ rec = "connecting"
  /\ ConnectFails("rec")
  /\ rec' = IF overdue THEN "idle" ELSE "sleep"
  /\ overdue' = FALSE
  /\ UNCHANGED <<sdk, streamGeneration, recs, sockets, calls, sensor, history>>

ReconnectWakes ==
  /\ rec = "sleep"
  /\ rec' = "try"
  /\ UNCHANGED <<sdk, cfg, streamGeneration, overdue, recs, sockets, calls,
                 sensor, known, history>>

DeadlinePasses ==
  /\ rec # "idle" /\ ~overdue
  /\ overdue' = TRUE
  /\ UNCHANGED <<sdk, cfg, streamGeneration, rec, recs, sockets, calls, sensor,
                 known, history>>

-----------------------------------------------------------------------------
(* SendVehicleInput *)

(* What tells the SDK the generation of the firmware that runs now. *)
Told == freshProbe \/ (freshFrame /\ probed = "unknown")

(* Before Init, and while Init is at work, the call returns at once. *)
SendBegins(t) ==
  /\ pc[t] = "idle" /\ sends < MaxSend
  /\ state # "notInit"
  /\ sends' = sends + 1
  /\ pc' = [pc EXCEPT ![t] = "lock"]
  /\ sure' = [sure EXCEPT ![t] = Told]
  /\ calm' = [calm EXCEPT ![t] = app = "idle" /\ state = "ready"]
  /\ late' = TRUE
  /\ UNCHANGED <<sdk, cfg, streamGeneration, recon, sockets, lock, counter,
                 session, via, frame, sensor, wire, freshProbe, freshFrame>>

CsiiUsesTcp ==
  \/ config.csii = "tcp"
  \/ config.csii = "" /\ Generation = "v1.0"

(* Mutant: the lock covers the choice of the transport only. *)
MayEnterAny == TRUE

MayEnter == lock = NoThread

(* It takes csii_mutex_, chooses, and disconnects the other sender. *)
Choose(t) ==
  /\ pc[t] = "lock" /\ MayEnter
  /\ lock' = t
  /\ pc' = [pc EXCEPT ![t] = "connect"]
  /\ IF CsiiUsesTcp
     THEN /\ via' = [via EXCEPT ![t] = "tcp"]
          /\ udp' = NoSensor
          /\ UNCHANGED <<tcp, tcpAlive>>
     ELSE /\ via' = [via EXCEPT ![t] = "udp"]
          /\ tcp' = NoSensor /\ tcpAlive' = FALSE
          /\ UNCHANGED udp
  /\ UNCHANGED <<sdk, cfg, streamGeneration, recon, conn, counter, session,
                 frame, sends, sensor, known, history>>

SocketOf(t) == IF via[t] = "tcp" THEN tcp ELSE udp

(* The frame: what tells it from another; the values of the vehicle, and   *)
(* the CRC over them, are left out.                                        *)
csii_build_frame(c, s) == [counter |-> c, session |-> s]

(* A socket that is there is used, whatever address it was opened for;     *)
(* then the frame is built: the counters advance though the send may fail. *)
Connects(t) ==
  /\ pc[t] = "connect"
  /\ IF SocketOf(t) # NoSensor
     THEN UNCHANGED sockets
     ELSE IF via[t] = "tcp"
          THEN /\ tcp' = Target /\ tcpAlive' = TRUE /\ conn' = conn + 1
               /\ UNCHANGED udp
          ELSE /\ udp' = Target
               /\ UNCHANGED <<tcp, tcpAlive, conn>>
  /\ session' = IF (session + 1) % SessionMod = 0 THEN 1 ELSE session + 1
  /\ counter' = (counter + 1) % CounterMod
  /\ frame' = [frame EXCEPT ![t] = csii_build_frame(counter, session')]
  /\ pc' = [pc EXCEPT ![t] = "send"]
  /\ UNCHANGED <<sdk, cfg, streamGeneration, recon, lock, via, sends, sensor,
                 known, history>>

(* kConnectFailed, before the counters move. *)
CannotConnect(t) ==
  /\ pc[t] = "connect" /\ SocketOf(t) = NoSensor
  /\ pc' = [pc EXCEPT ![t] = "idle"]
  /\ lock' = NoThread
  /\ via' = [via EXCEPT ![t] = "udp"]
  /\ UNCHANGED <<sdk, cfg, streamGeneration, recon, sockets, counter, session,
                 frame, sends, sensor, known, history>>

OnTheWire(t, whole) ==
  wire' = Append(wire, [frame |-> frame[t], whole |-> whole,
                        conn |-> IF via[t] = "tcp" THEN conn ELSE 0])

SendReturns(t) ==
  /\ pc[t] = "send"
  /\ pc' = [pc EXCEPT ![t] = "idle"]
  /\ lock' = NoThread
  /\ frame' = [frame EXCEPT ![t] = NoFrame]
  /\ via' = [via EXCEPT ![t] = "udp"]
  /\ UNCHANGED <<sdk, cfg, streamGeneration, recon, conn, udp, counter,
                 session, sends, sensor, known, calm, late>>

(* TCP keeps a connection whose peer has gone for a while; what is sent    *)
(* goes nowhere.                                                           *)
SendOk(t) ==
  /\ SendReturns(t)
  /\ SocketOf(t) # NoSensor
  /\ IF via[t] = "udp" \/ tcpAlive THEN OnTheWire(t, TRUE) ELSE UNCHANGED wire
  /\ UNCHANGED <<tcp, tcpAlive>>

(* UdpSender: no socket, or a send that fails and leaves the socket open.  *)
UdpSendFails(t) ==
  /\ SendReturns(t) /\ via[t] = "udp"
  /\ UNCHANGED <<tcp, tcpAlive, wire>>

(* TcpSender: no connection, or one that breaks with none or some of the   *)
(* frame sent, and is closed.                                              *)
TcpSendFails(t) ==
  /\ SendReturns(t) /\ via[t] = "tcp"
  /\ \/ UNCHANGED wire
     \/ tcp # NoSensor /\ tcpAlive /\ OnTheWire(t, FALSE)
  /\ tcp' = NoSensor /\ tcpAlive' = FALSE

-----------------------------------------------------------------------------
(* A sensor restarts, perhaps with other firmware: its connections die.    *)
Reboot(s, gen) ==
  /\ reboots < MaxReboot
  /\ reboots' = reboots + 1
  /\ fw' = [fw EXCEPT ![s] = gen]
  /\ tcpAlive' = (tcpAlive /\ tcp # s)
  /\ freshProbe' = FALSE /\ freshFrame' = FALSE /\ sure' = NoCall
  /\ UNCHANGED <<sdk, cfgMutex, cfgIp, cfgPeer, reconnect, probed,
                 streamGeneration, recon, tcp, conn, udp, calls, history>>

InitStep == InitConnects \/ InitConnected \/ InitEnds
CloseStep == CloseUdp \/ CloseTcp \/ CloseConfig

ReconnectStep == \/ ReconnectTries \/ ReconnectSucceeds \/ ReconnectFails
                 \/ ReconnectWakes

SendStep(t) == \/ Choose(t) \/ Connects(t) \/ CannotConnect(t)
               \/ SendOk(t) \/ UdpSendFails(t) \/ TcpSendFails(t)

Next ==
  \/ \E ip \in Sensors, csii \in Forced : InitBegins(ip, csii)
  \/ InitStep \/ StopBegins \/ CloseStep
  \/ ConfigCall \/ StreamFrame
  \/ ReconnectBegins \/ ReconnectStep \/ DeadlinePasses
  \/ \E t \in Threads : SendBegins(t) \/ SendStep(t)
  \/ \E s \in Sensors, gen \in Generations : Reboot(s, gen)

Spec == Init /\ [][Next]_vars

-----------------------------------------------------------------------------
(* Properties *)

Frames == [counter : 0..CounterMod - 1, session : 0..SessionMod - 1]
Sent   == [frame : Frames, whole : BOOLEAN, conn : Nat]

PlaceTypes ==
  /\ state \in {"notInit", "ready", "stopped"}
  /\ endState \in {"notInit", "stopped"}
  /\ config \in [ip : Sensors, csii : Forced \cup {""}]
  /\ app \in {"idle", "connect", "connecting", "open", "closeUdp", "closeTcp",
              "closeConfig"}
  /\ rec \in {"idle", "try", "connecting", "sleep"}
  /\ lock \in Threads \cup {NoThread}
  /\ pc \in [Threads -> {"idle", "lock", "connect", "send"}]
  /\ via \in [Threads -> {"tcp", "udp"}]

PeerTypes ==
  /\ cfgPeer \in Sensors \cup {NoSensor} /\ cfgIp \in Sensors \cup {NoSensor}
  /\ tcp \in Sensors \cup {NoSensor} /\ udp \in Sensors \cup {NoSensor}
  /\ probed \in Generations \cup {"unknown"}
  /\ streamGeneration \in Generations \cup {"unknown"}
  /\ fw \in [Sensors -> Generations]

FlagTypes ==
  /\ client \in BOOLEAN /\ reconnect \in BOOLEAN /\ overdue \in BOOLEAN
  /\ tcpAlive \in BOOLEAN /\ late \in BOOLEAN
  /\ freshProbe \in BOOLEAN /\ freshFrame \in BOOLEAN

CountTypes ==
  /\ counter \in 0..CounterMod - 1 /\ session \in 0..SessionMod - 1
  /\ inits \in Nat /\ recs \in Nat /\ reboots \in Nat
  /\ sends \in Nat /\ conn \in Nat

CallTypes ==
  /\ frame \in [Threads -> Frames] /\ wire \in Seq(Sent)
  /\ sure \in [Threads -> BOOLEAN] /\ calm \in [Threads -> BOOLEAN]

TypeOK == PlaceTypes /\ PeerTypes /\ FlagTypes /\ CountTypes /\ CallTypes

(* Frames go out in the order of their counters, whichever threads send    *)
(* them and whatever Stop and Init do to the sockets meanwhile; no session *)
(* id is 0 or repeated at once; and nothing follows part of a frame on the *)
(* same connection.                                                        *)
FramesInOrder ==
  \A i, j \in DOMAIN wire : i < j =>
    LET a == wire[i].frame
        b == wire[j].frame
        ahead == (b.counter - a.counter) % CounterMod
    IN  /\ ahead \in 1..MaxSend
        /\ ahead = 1 => a.session # b.session
        /\ 0 \notin {a.session, b.session}
        /\ wire[i].whole \/ wire[i].conn # wire[j].conn

(* Where csii_transport leaves the choice to the SDK, and before the call  *)
(* it had probed the sensor's present firmware, or, with nothing probed so *)
(* far, had seen its stream frames, the frame goes over the one transport  *)
(* this firmware accepts, although older stream frames may have said       *)
(* otherwise.  After a probe of older firmware nothing is said: Disconnect *)
(* keeps the generation probed, which then goes before the stream frames.  *)
RightTransport ==
  \A t \in Threads :
    config.csii = "" /\ pc[t] = "send" /\ sure[t] =>
      (via[t] = "tcp" <=> fw[Target] = "v1.0")

(* What Stop or a failed Init has closed stays closed, as long as no other *)
(* thread was in a call when it began, nor has called since.  Of a call    *)
(* beside Stop or after it nothing is said here: see FramesReachSensor.    *)
StopCloses ==
  app = "idle" /\ state \in {"stopped", "notInit"} /\ ~late =>
    tcp = NoSensor /\ udp = NoSensor /\ cfgPeer = NoSensor /\ ~reconnect

(* Vehicle input goes to `sensor_ip` (docs/api_reference.md:201): a call   *)
(* made after Init and before Stop uses no socket to another sensor.       *)
FramesReachSensor ==
  \A t \in Threads :
    pc[t] = "send" /\ calm[t] => SocketOf(t) \in {Target, NoSensor}

-----------------------------------------------------------------------------
(* The inductive invariant of the proofs *)

(* A TcpClient has an address when it connects. *)
AddressInv == client \/ "connecting" \in {app, rec} => cfgIp \in Sensors

ShapeInv == TypeOK /\ AddressInv

(* One thread is past csii_mutex_. *)
HoldsLock == \A t \in Threads : pc[t] \in {"connect", "send"} => lock = t

(* Where Stop and fail_init are, and what they have closed. *)
CloseInv ==
  /\ ~late => ~OthersBusy
  /\ app = "idle" /\ state # "ready" => ~client
  /\ ~late /\ app \in {"closeTcp", "closeConfig"} => udp = NoSensor
  /\ ~late /\ app = "closeConfig" => tcp = NoSensor
  /\ StopCloses

(* What the SDK was told is so. *)
GenerationInv ==
  /\ freshProbe => probed = fw[Target]
  /\ freshFrame => streamGeneration = fw[Target]
  /\ \A t \in Threads :
       sure[t] =>
         /\ Generation = fw[Target]
         /\ config.csii = "" /\ pc[t] \in {"connect", "send"} =>
              (via[t] = "tcp" <=> fw[Target] = "v1.0")

(* The frames built since one was, itself included. *)
Age(f) == (counter - f.counter) % CounterMod

(* Calls that have yet to build their frame. *)
Waiting == {t \in Threads : pc[t] \in {"lock", "connect"}}

WaitInv == /\ IsFiniteSet(Waiting)
           /\ Cardinality(Waiting) <= sends /\ sends <= MaxSend

WireInv == \A i \in DOMAIN wire :
  /\ Age(wire[i].frame) >= 1
  /\ Age(wire[i].frame) + Cardinality(Waiting) <= sends
  /\ wire[i].frame.session # 0
  /\ Age(wire[i].frame) = 1 => wire[i].frame.session = session

PairInv == \A i, j \in DOMAIN wire : i < j =>
  /\ Age(wire[i].frame) > Age(wire[j].frame)
  /\ Age(wire[i].frame) = Age(wire[j].frame) + 1 =>
       wire[i].frame.session # wire[j].frame.session

(* A frame is on the wire before the next is built. *)
HandInv == \A t \in Threads : pc[t] = "send" =>
  /\ Age(frame[t]) = 1 /\ 1 + Cardinality(Waiting) <= sends
  /\ frame[t].session = session /\ session # 0
  /\ \A i \in DOMAIN wire :
       /\ Age(wire[i].frame) > 1
       /\ Age(wire[i].frame) = 2 => wire[i].frame.session # session

OrderInv == WaitInv /\ WireInv /\ PairInv /\ HandInv

(* A connection on which part of a frame was sent is closed. *)
CutInv ==
  /\ tcp # NoSensor => conn > 0
  /\ \A i \in DOMAIN wire :
       /\ wire[i].conn <= conn
       /\ ~wire[i].whole =>
            wire[i].conn > 0 /\ (wire[i].conn < conn \/ tcp = NoSensor)
  /\ \A i, j \in DOMAIN wire :
       i < j /\ ~wire[i].whole => wire[i].conn # wire[j].conn

CsiiInv == /\ ShapeInv /\ HoldsLock /\ CloseInv /\ GenerationInv
           /\ OrderInv /\ CutInv
=============================================================================
