-------------------------- MODULE ConfigTransport --------------------------
(***************************************************************************)
(* The Config API transport: one TcpClient shared by the threads of the    *)
(* application, under it the TCP connections to the sensor, and the sensor *)
(* as far as the transport sees it.                                        *)
(*                                                                         *)
(* Every call holds TcpClient::mutex_ from its first look at the socket to *)
(* its return, waits in recv() with the mutex held, and closes the socket  *)
(* on any failure.  A fresh connection starts with a GetDeviceInfo probe   *)
(* that tells a v1.0.x sensor, which runs requests it cannot parse, from a *)
(* v1.1.0 sensor.  ConfigClient::Exchange wraps a call: it looks at        *)
(* HasEndpoint() before and at LastResponseE2eOk() after, both without the *)
(* mutex, and stores the result the application reads later.               *)
(*                                                                         *)
(* A request, its answer, and the connection they travel on are values;    *)
(* bytes appear only where the code tells them apart: the echoed header    *)
(* fields, and what kind of body follows the header.                       *)
(***************************************************************************)
EXTENDS Integers, Sequences

CONSTANTS
  Callers,      (* application threads that use the Config API             *)
  NoCaller,     (* the holder of a free mutex                              *)
  Methods,      (* SOME/IP method ids                                      *)
  ProbeMethod,  (* GetDeviceInfo, 0x0010                                   *)
  Sizes,        (* which requests fit in kMaxRequestBody: "fits", "large"  *)
  Bodies,       (* bodies a v1.1.0 sensor may send                         *)
  Echoes,       (* whether a sensor may garble the response header         *)
  MaxSession,   (* last session id before the wrap to 1 (0xFFFF)           *)
  MaxCall,      (* bound: requests begun                                   *)
  MaxConn,      (* bound: connections accepted by the sensor               *)
  MaxBoot       (* bound: boots of the sensor                              *)

Calls       == 1..MaxCall
Conns       == 1..MaxConn
Boots       == 1..MaxBoot
Generations == {"v1.0", "v1.1"}

(* "good"    E2E header that checks, then JSON                             *)
(* "badE2e"  E2E header that does not check, then JSON                     *)
(* "noJson"  E2E header that does not check, then bytes that do not parse  *)
(* "short"   fewer bytes than an E2E header                                *)
(* "legacy"  JSON from the first byte, the body of a v1.0.x sensor         *)
AnyBody == {"good", "badE2e", "noJson", "short", "legacy"}

ASSUME TransportAssumption ==
  /\ NoCaller \notin Callers
  /\ ProbeMethod \in Methods
  /\ Sizes \subseteq {"fits", "large"}
  /\ Bodies \subseteq AnyBody \ {"legacy"}
  /\ Bodies # {}
  /\ Echoes \subseteq BOOLEAN
  /\ TRUE \in Echoes
  /\ MaxSession \in Nat \ {0}
  /\ MaxCall \in Nat
  /\ MaxConn \in Nat
  /\ MaxBoot \in Nat \ {0}

VARIABLES
  mutex,        (* TcpClient::mutex_: the thread inside it                 *)
  socket,       (* socket_: the connection it stands for, 0 = invalid      *)
  reconnect,    (* reconnect_, which is also HasEndpoint()                 *)
  generation,   (* generation_                                             *)
  session,      (* session_id_                                             *)
  lastE2eOk,    (* last_e2e_ok_                                            *)
  pc,           (* where each thread is                                    *)
  cur,          (* the call each thread is in                              *)
  ncall,        (* requests begun                                          *)
  outcome,      (* history: how each request ended for its caller          *)
  taken,        (* history: the answer each answered request was given     *)
  lastResult,   (* ConfigClient::last_result_                              *)
  boot,         (* the sensor's current boot                               *)
  bootGen,      (* interface generation of the firmware of each boot       *)
  nconn,        (* connections accepted so far                             *)
  peer,         (* the boot that serves a connection, 0 = none any more    *)
  up,           (* frames on the way to the sensor                         *)
  down,         (* response headers and bodies on the way to the SDK       *)
  runs          (* history: generations of the sensor that ran a request   *)

client == <<mutex, socket, reconnect, generation, session, lastE2eOk>>
calls  == <<pc, cur, ncall, outcome, taken, lastResult>>
sensor == <<boot, bootGen, nconn, peer, up, down, runs>>
vars   == <<client, calls, sensor>>

-----------------------------------------------------------------------------
(* Values *)

Rets     == {"none", "ok", "timeout", "transport", "protocol", "large",
             "legacy", "unparsable"}
Outcomes == {"none", "answered", "timeout", "disconnected", "protocol",
             "invalid", "notSupported"}

(* A call: the request it is for (0 for TcpClient::Connect, which sends    *)
(* only a probe), and whether the exchange under way is the probe.         *)
Call  == [id : 0..MaxCall, method : Methods, size : {"fits", "large"},
          probing : BOOLEAN, ret : Rets]
Frame == [call : 0..MaxCall, probing : BOOLEAN, method : Methods,
          session : 1..MaxSession]
(* A response travels as a header and a body; both carry the frame they    *)
(* answer.  "echo" is FALSE when the header does not match that frame.     *)
Part  == [kind : {"header", "body"}, frame : Frame, echo : BOOLEAN,
          body : AnyBody]

NoCall   == [id |-> 0, method |-> ProbeMethod, size |-> "fits",
             probing |-> FALSE, ret |-> "none"]
NoResult == [call |-> 0, code |-> "none", e2eOk |-> FALSE]

IsRequest(c) == cur[c].id # 0

(* What the exchange of thread c waits for. *)
Expected(c) == [call    |-> cur[c].id,
                probing |-> cur[c].probing,
                method  |-> IF cur[c].probing THEN ProbeMethod
                                              ELSE cur[c].method,
                session |-> session]

(* The echo check of a response header: Message ID and Session ID must be  *)
(* those of the request.  The code knows nothing else about the answer.    *)
Answers(part, c) ==
  /\ part.kind = "header"
  /\ part.echo
  /\ part.frame.method = Expected(c).method
  /\ part.frame.session = Expected(c).session

(* Mutant: a failed check does not clear the verdict. *)
E2eVerdictSticks(body) == lastE2eOk \/ body = "good"

(* The verdict of e2e_validate on a response body. *)
E2eVerdict(body) == body = "good"

(* Mutant: the session id does not wrap. *)
NextSessionNoWrap == session + 1

NextSession == LET s == (session + 1) % (MaxSession + 1)
               IN  IF s = 0 THEN 1 ELSE s

ErrorFromTransport(ret) ==
  CASE ret = "timeout"  -> "timeout"
    [] ret = "protocol" -> "protocol"
    [] ret = "large"    -> "invalid"
    [] OTHER            -> "disconnected"

-----------------------------------------------------------------------------
Init ==
  /\ mutex = NoCaller
  /\ socket = 0
  /\ reconnect = FALSE
  /\ generation = "unknown"
  /\ session = 0
  /\ lastE2eOk = FALSE
  /\ pc = [c \in Callers |-> "idle"]
  /\ cur = [c \in Callers |-> NoCall]
  /\ ncall = 0
  /\ outcome = [k \in Calls |-> "none"]
  /\ taken = [k \in Calls |-> [call |-> 0, e2eOk |-> FALSE]]
  /\ lastResult = NoResult
  /\ boot = 1
  /\ bootGen \in [Boots -> Generations]
  /\ nconn = 0
  /\ peer = [n \in Conns |-> 0]
  /\ up = [n \in Conns |-> <<>>]
  /\ down = [n \in Conns |-> <<>>]
  /\ runs = [k \in Calls |-> <<>>]

-----------------------------------------------------------------------------
(* Helpers of the actions *)

(* CloseLocked: the kernel discards what was not read from the socket. *)
Discarded == [n \in Conns |-> IF n = socket THEN <<>> ELSE down[n]]
CloseLocked == socket' = 0 /\ down' = Discarded

At(c, where) == pc[c] = where /\ mutex = c

(* The end of a TcpClient call: the lock_guard goes out of scope. *)
Return(c, ret) ==
  /\ mutex' = NoCaller
  /\ pc' = [pc EXCEPT ![c] = "finish"]
  /\ cur' = [cur EXCEPT ![c].ret = ret]

(* A failure inside an exchange closes the socket and ends the call.       *)
(* SendRequest folds every failure of the connection it opens on demand    *)
(* into kTcpTransport; Connect passes it on.                               *)
Failure(c, ret) ==
  Return(c, IF IsRequest(c) /\ cur[c].probing THEN "transport" ELSE ret)

(* Mutant: a failed exchange leaves the socket open. *)
FailKeepsSocket(c, ret) == UNCHANGED <<socket, down>> /\ Failure(c, ret)

(* Mutant: a request that failed is tried once more. *)
FailRetries(c, ret) ==
  /\ CloseLocked
  /\ mutex' = NoCaller
  /\ pc' = [pc EXCEPT ![c] = "lock"]
  /\ cur' = [cur EXCEPT ![c].probing = FALSE]

Fail(c, ret) == CloseLocked /\ Failure(c, ret)

(* Mutant: recv() without SO_RCVTIMEO. *)
RecvErrorsNoTimeout(n) == IF peer[n] = boot THEN {} ELSE {"transport"}

(* How RecvExact can fail: SO_RCVTIMEO passes, or the connection is gone.  *)
RecvErrors(n) == {"timeout"} \cup IF peer[n] = boot THEN {} ELSE {"transport"}

(* Mutant: what the last connection found is trusted on the next one.      *)
ProbingTrustsGeneration(b) == [b EXCEPT !.probing = (generation = "unknown")]

(* Every connection starts with the probe. *)
Probing(b) == [b EXCEPT !.probing = TRUE]

(* Mutant: Disconnect does not stop the connection on demand.              *)
MayReopenAlways == socket = 0

MayReopen == socket = 0 /\ reconnect

(* ConnectLocked up to its probe, on behalf of the call b of thread c.     *)
(* A connect() that the sensor does not accept ends the call.              *)
ConnectLocked(c, b) ==
  /\ down' = Discarded
  /\ \/ /\ nconn < MaxConn
        /\ nconn' = nconn + 1
        /\ socket' = nconn + 1
        /\ peer' = [peer EXCEPT ![nconn + 1] = boot]
        /\ session' = 0
        /\ mutex' = c
        /\ pc' = [pc EXCEPT ![c] = "send"]
        /\ cur' = [cur EXCEPT ![c] = Probing(b)]
     \/ /\ socket' = 0
        /\ mutex' = NoCaller
        /\ pc' = [pc EXCEPT ![c] = "finish"]
        /\ cur' = [cur EXCEPT ![c] = [b EXCEPT !.ret = "transport"]]
        /\ UNCHANGED <<nconn, peer, session>>

-----------------------------------------------------------------------------
(* The application's threads *)

(* ConfigClient::Exchange up to its call of SendRequest; HasEndpoint() is  *)
(* read without the mutex.                                                 *)
BeginRequest(c, m, z) ==
  /\ pc[c] = "idle"
  /\ ncall < MaxCall
  /\ ncall' = ncall + 1
  /\ IF reconnect
     THEN /\ pc' = [pc EXCEPT ![c] = "lock"]
          /\ cur' = [cur EXCEPT ![c] = [NoCall EXCEPT !.id = ncall + 1,
                                         !.method = m, !.size = z]]
          /\ UNCHANGED <<outcome, lastResult>>
     ELSE /\ outcome' = [outcome EXCEPT ![ncall + 1] = "disconnected"]
          /\ lastResult' = [NoResult EXCEPT !.call = ncall + 1]
          /\ UNCHANGED <<pc, cur>>
  /\ UNCHANGED <<client, taken, sensor>>

EntersSendRequest(c) ==
  /\ pc[c] = "lock"
  /\ mutex = NoCaller
  /\ lastE2eOk' = FALSE

(* SendRequest's early returns: nothing is sent. *)
Refuse(c) ==
  /\ EntersSendRequest(c)
  /\ \/ generation = "v1.0" /\ Return(c, "legacy")
     \/ generation # "v1.0" /\ cur[c].size = "large" /\ Return(c, "large")
     \/ /\ generation # "v1.0" /\ cur[c].size = "fits"
        /\ socket = 0 /\ ~reconnect
        /\ Return(c, "transport")
  /\ UNCHANGED <<socket, reconnect, generation, session, ncall, outcome,
                 taken, lastResult, sensor>>

(* SendRequest finds its connection open. *)
UseSocket(c) ==
  /\ EntersSendRequest(c)
  /\ generation # "v1.0" /\ cur[c].size = "fits"
  /\ socket # 0
  /\ mutex' = c
  /\ pc' = [pc EXCEPT ![c] = "send"]
  /\ UNCHANGED <<socket, reconnect, generation, session, cur, ncall, outcome,
                 taken, lastResult, sensor>>

(* SendRequest connects on demand. *)
Reopen(c) ==
  /\ EntersSendRequest(c)
  /\ generation # "v1.0" /\ cur[c].size = "fits"
  /\ MayReopen
  /\ ConnectLocked(c, cur[c])
  /\ UNCHANGED <<reconnect, generation, ncall, outcome, taken, lastResult,
                 boot, bootGen, up, runs>>

(* TcpClient::Connect, from AfiSdk::Init and ReconnectConfigApi. *)
Connect(c) ==
  /\ pc[c] = "idle"
  /\ mutex = NoCaller
  /\ reconnect' = TRUE
  /\ generation' = "unknown"
  /\ ConnectLocked(c, NoCall)
  /\ UNCHANGED <<lastE2eOk, ncall, outcome, taken, lastResult, boot, bootGen,
                 up, runs>>

(* TcpClient::Disconnect, from AfiSdk::Stop and the failure path of Init. *)
Disconnect(c) ==
  /\ pc[c] = "idle"
  /\ mutex = NoCaller
  /\ reconnect' = FALSE
  /\ CloseLocked
  /\ UNCHANGED <<mutex, generation, session, lastE2eOk, calls, boot, bootGen,
                 nconn, peer, up, runs>>

(* ExchangeLocked up to and including SendAll.  A frame written to a       *)
(* connection whose sensor is gone reaches nobody.                         *)
Send(c) ==
  /\ At(c, "send")
  /\ session' = NextSession
  /\ \/ /\ up' = IF peer[socket] = boot
                  THEN [up EXCEPT ![socket] =
                          Append(@, [Expected(c) EXCEPT !.session = session'])]
                  ELSE up
        /\ pc' = [pc EXCEPT ![c] = "header"]
        /\ UNCHANGED <<mutex, socket, cur, down>>
     \/ Fail(c, "transport") /\ UNCHANGED up
  /\ UNCHANGED <<reconnect, generation, lastE2eOk, ncall, outcome, taken,
                 lastResult, boot, bootGen, nconn, peer, runs>>

(* RecvExact of the response header, and the echo check. *)
RecvHeader(c) ==
  /\ At(c, "header")
  /\ down[socket] # <<>>
  /\ IF Answers(Head(down[socket]), c)
     THEN /\ down' = [down EXCEPT ![socket] = Tail(@)]
          /\ pc' = [pc EXCEPT ![c] = "body"]
          /\ UNCHANGED <<mutex, socket, cur>>
     ELSE Fail(c, "protocol")
  /\ UNCHANGED <<reconnect, generation, session, lastE2eOk, ncall, outcome,
                 taken, lastResult, boot, bootGen, nconn, peer, up, runs>>

(* Mutant: the connection to a v1.0.x sensor stays open. *)
LegacyFoundKeepsSocket(c) ==
  /\ generation' = "v1.0"
  /\ down' = [down EXCEPT ![socket] = Tail(@)]
  /\ UNCHANGED socket
  /\ Return(c, IF IsRequest(c) THEN "legacy" ELSE "ok")

(* ProbeLocked's answer came from a v1.0.x sensor. *)
LegacyFound(c) ==
  /\ generation' = "v1.0"
  /\ CloseLocked
  /\ Return(c, IF IsRequest(c) THEN "legacy" ELSE "ok")

(* The body of a probe's answer: it decides the generation.  Connect and a *)
(* request to a v1.0.x sensor return; a request to a v1.1.0 sensor goes on *)
(* to its own exchange.                                                    *)
RecvProbeBody(c) ==
  /\ At(c, "body")
  /\ cur[c].probing
  /\ down[socket] # <<>>
  /\ LET body == Head(down[socket]).body IN
       \/ body = "legacy" /\ LegacyFound(c) /\ UNCHANGED lastE2eOk
       \/ body = "short" /\ Fail(c, "protocol")
          /\ UNCHANGED <<generation, lastE2eOk>>
       \/ /\ body \in {"good", "badE2e", "noJson"}
          /\ generation' = "v1.1"
          /\ lastE2eOk' = E2eVerdict(body)
          /\ down' = [down EXCEPT ![socket] = Tail(@)]
          /\ UNCHANGED socket
          /\ IF IsRequest(c)
             THEN /\ pc' = [pc EXCEPT ![c] = "send"]
                  /\ cur' = [cur EXCEPT ![c].probing = FALSE]
                  /\ UNCHANGED mutex
             ELSE Return(c, "ok")
  /\ UNCHANGED <<reconnect, session, ncall, outcome, taken, lastResult, boot,
                 bootGen, nconn, peer, up, runs>>

(* The body of a request's answer.  A failed E2E check is noted and the    *)
(* body is still handed to the caller.                                     *)
RecvBody(c) ==
  /\ At(c, "body")
  /\ ~cur[c].probing
  /\ down[socket] # <<>>
  /\ LET part == Head(down[socket]) IN
       IF part.body = "short"
       THEN Fail(c, "protocol") /\ UNCHANGED <<lastE2eOk, taken>>
       ELSE /\ lastE2eOk' = E2eVerdict(part.body)
            /\ taken' = [taken EXCEPT ![cur[c].id] =
                           [call  |-> part.frame.call,
                            e2eOk |-> part.body = "good"]]
            /\ down' = [down EXCEPT ![socket] = Tail(@)]
            /\ UNCHANGED socket
            /\ Return(c, IF part.body \in {"good", "badE2e"}
                         THEN "ok" ELSE "unparsable")
  /\ UNCHANGED <<reconnect, generation, session, ncall, outcome, lastResult,
                 boot, bootGen, nconn, peer, up, runs>>

(* recv() gives up on the header or on the body. *)
RecvFails(c) ==
  /\ At(c, "header") \/ At(c, "body")
  /\ \E ret \in RecvErrors(socket) : Fail(c, ret)
  /\ UNCHANGED <<reconnect, generation, session, lastE2eOk, ncall, outcome,
                 taken, lastResult, boot, bootGen, nconn, peer, up, runs>>

(* The rest of ConfigClient::Exchange, after TcpClient has released its    *)
(* mutex: LastResponseE2eOk() is read unprotected, and last_result_ is     *)
(* stored under result_mutex_.                                             *)
Finish(c) ==
  /\ pc[c] = "finish"
  /\ pc' = [pc EXCEPT ![c] = "idle"]
  /\ cur' = [cur EXCEPT ![c] = NoCall]
  /\ IF ~IsRequest(c)
     THEN UNCHANGED <<outcome, lastResult>>
     ELSE LET ret == cur[c].ret IN
          /\ outcome' = [outcome EXCEPT ![cur[c].id] =
               CASE ret = "ok"         -> "answered"
                 [] ret = "unparsable" -> "protocol"
                 [] ret = "legacy"     -> "notSupported"
                 [] OTHER              -> ErrorFromTransport(ret)]
          /\ lastResult' =
               [call  |-> cur[c].id,
                code  |-> CASE ret = "ok"     -> "sensor"
                            [] ret = "legacy" -> "notSupported"
                            [] OTHER          -> "none",
                e2eOk |-> ret \in {"ok", "unparsable"} /\ lastE2eOk]
  /\ UNCHANGED <<client, ncall, taken, sensor>>

-----------------------------------------------------------------------------
(* The sensor and the network between it and the SDK *)

(* The sensor takes the next frame of a connection, runs the method and    *)
(* answers.  A v1.0.x sensor runs it too, though it cannot parse it.       *)
SensorAnswers(n, body, echo) ==
  /\ peer[n] = boot
  /\ up[n] # <<>>
  /\ body \in (IF bootGen[boot] = "v1.0" THEN {"legacy"} ELSE Bodies)
  /\ LET f    == Head(up[n])
         part == [kind |-> "header", frame |-> f, echo |-> echo, body |-> body]
     IN  /\ up' = [up EXCEPT ![n] = Tail(@)]
         /\ down' = IF socket = n
                    THEN [down EXCEPT ![n] =
                            @ \o <<part, [part EXCEPT !.kind = "body"]>>]
                    ELSE down
         /\ runs' = IF f.probing THEN runs
                    ELSE [runs EXCEPT ![f.call] = Append(@, bootGen[boot])]
  /\ UNCHANGED <<client, calls, boot, bootGen, nconn, peer>>

(* A connection breaks: what was not yet delivered is lost. *)
ConnectionLost(n, kept) ==
  /\ peer[n] # 0
  /\ peer' = [peer EXCEPT ![n] = 0]
  /\ up' = [up EXCEPT ![n] = <<>>]
  /\ kept <= Len(down[n])
  /\ down' = [down EXCEPT ![n] = SubSeq(@, 1, kept)]
  /\ UNCHANGED <<client, calls, boot, bootGen, nconn, runs>>

(* The sensor restarts, perhaps with other firmware.  Its connections die  *)
(* with it, and the SDK may not hear of it.                                *)
SensorReboots ==
  /\ boot < MaxBoot
  /\ boot' = boot + 1
  /\ up' = [n \in Conns |-> <<>>]
  /\ UNCHANGED <<client, calls, bootGen, nconn, peer, down, runs>>

-----------------------------------------------------------------------------
(* What a thread inside a call does; it never waits for the application. *)
ThreadStep(c) ==
  \/ Refuse(c) \/ UseSocket(c) \/ Reopen(c)
  \/ Send(c) \/ RecvHeader(c) \/ RecvProbeBody(c) \/ RecvBody(c)
  \/ RecvFails(c) \/ Finish(c)

Application(c) ==
  \/ \E m \in Methods, z \in Sizes : BeginRequest(c, m, z)
  \/ Connect(c)
  \/ Disconnect(c)

Sensor ==
  \/ \E n \in Conns, b \in AnyBody, e \in Echoes : SensorAnswers(n, b, e)
  \/ \E n \in Conns, k \in 0..2 : ConnectionLost(n, k)
  \/ SensorReboots

Next ==
  \/ \E c \in Callers : ThreadStep(c) \/ Application(c)
  \/ Sensor

(* The operating system runs every thread that can run.  Nothing is        *)
(* assumed of the application, the network or the sensor.                  *)
Fairness == \A c \in Callers : WF_vars(ThreadStep(c))

Spec == Init /\ [][Next]_vars /\ Fairness

-----------------------------------------------------------------------------
(* Properties *)

Holding == {"send", "header", "body"}

TypeOK ==
  /\ mutex \in Callers \cup {NoCaller}
  /\ socket \in 0..MaxConn
  /\ reconnect \in BOOLEAN
  /\ generation \in Generations \cup {"unknown"}
  /\ session \in 0..MaxSession
  /\ lastE2eOk \in BOOLEAN
  /\ pc \in [Callers -> Holding \cup {"idle", "lock", "finish"}]
  /\ cur \in [Callers -> Call]
  /\ ncall \in 0..MaxCall
  /\ outcome \in [Calls -> Outcomes]
  /\ taken \in [Calls -> [call : 0..MaxCall, e2eOk : BOOLEAN]]
  /\ lastResult \in [call : 0..MaxCall, e2eOk : BOOLEAN,
                     code : {"none", "sensor", "notSupported"}]
  /\ boot \in Boots
  /\ bootGen \in [Boots -> Generations]
  /\ nconn \in 0..MaxConn
  /\ peer \in [Conns -> 0..MaxBoot]
  /\ up \in [Conns -> Seq(Frame)]
  /\ down \in [Conns -> Seq(Part)]
  /\ runs \in [Calls -> Seq(Generations)]

(* A request is answered with the sensor's answer to itself, never with a  *)
(* late answer to an earlier request, although the only evidence the code  *)
(* has is a session id that wraps and a method id that repeats.  What      *)
(* keeps it true is that every failure closes the socket.                  *)
AnswerMatchesRequest ==
  \A k \in Calls : taken[k].call \in {0, k}

(* A v1.0.x sensor acts on requests it cannot parse (tcp_client.cpp:97-103): *)
(* it must never see anything but the read-only probe, whatever reconnects *)
(* and firmware changes happen, and whichever thread probes.               *)
LegacySensorOnlyProbed ==
  \A k \in Calls : \A i \in 1..Len(runs[k]) : runs[k][i] = "v1.1"

(* While no thread is inside TcpClient, an open socket is one whose sensor *)
(* boot was probed and found to speak v1.1.0, and nothing is left in it.   *)
OpenSocketIsProbed ==
  mutex = NoCaller /\ socket # 0 =>
    /\ generation = "v1.1"
    /\ peer[socket] # 0 => bootGen[peer[socket]] = "v1.1"
    /\ up[socket] = <<>> /\ down[socket] = <<>>

(* GetLastSensorResult() holds the return code and the E2E verdict of one  *)
(* and the same answer.                                                    *)
LastResultIsOneAnswer ==
  lastResult.code = "sensor" =>
    lastResult.e2eOk = taken[lastResult.call].e2eOk

(* Between Disconnect and the next Connect no connection is opened.        *)
NoConnectionWithoutEndpoint ==
  [][nconn' # nconn => reconnect']_vars

(* A silent, restarting or lying sensor never keeps the mutex: every       *)
(* thread inside TcpClient leaves it.                                      *)
MutexReleased ==
  \A c \in Callers : mutex = c ~> mutex # c

-----------------------------------------------------------------------------
(* The transport implements at-most-once calls: the caller's knowledge is  *)
(* the outcome of the request, what the sensor did is the history of runs. *)
Status(k) ==
  CASE outcome[k] = "answered"                    -> "answered"
    [] outcome[k] \in {"notSupported", "invalid"} -> "refused"
    [] outcome[k] = "none"                        -> IF k <= ncall THEN "pending"
                                                     ELSE "unused"
    [] OTHER                                      -> "failed"

Rpc == INSTANCE AtMostOnceCall WITH
         Requests <- Calls,
         status   <- [k \in Calls |-> Status(k)],
         ran      <- [k \in Calls |-> Len(runs[k])]

(* Every behaviour of the transport is one of AtMostOnceCall: kNotSupported *)
(* and kInvalidParam mean "not sent", an answer means "ran once", and no   *)
(* reconnect ever sends a request again.                                   *)
ImplementsAtMostOnce == Rpc!Spec

-----------------------------------------------------------------------------
(* The inductive invariant behind the safety properties. *)

(* The mutex is held exactly during an exchange, which has a socket; a     *)
(* connection not yet made is empty.                                       *)
LockInv ==
  /\ \A c \in Callers : mutex = c <=> pc[c] \in Holding
  /\ mutex # NoCaller => socket # 0
  /\ socket <= nconn
  /\ \A n \in Conns : n > nconn => peer[n] = 0

(* Only the sensor's current boot has frames to run, and all but probes    *)
(* were sent to a boot that speaks v1.1.0.                                 *)
FrameInv ==
  \A n \in Conns :
    /\ peer[n] # boot => up[n] = <<>>
    /\ n > nconn => down[n] = <<>>
    /\ \A i \in 1..Len(up[n]) :
         up[n][i].probing \/ bootGen[peer[n]] = "v1.1"

PeerIsCurrent == peer[socket] # 0 => bootGen[peer[socket]] = "v1.1"

(* Outside a probe, an open socket has been probed. *)
ProbeInv ==
  socket # 0 /\ (\A c \in Callers : mutex = c => ~cur[c].probing) =>
    generation = "v1.1" /\ PeerIsCurrent

(* What an exchange may still read: at most the answer to its own frame,   *)
(* and nothing at all before it sends.                                     *)
BodyPart(part, c) ==
  /\ part.frame = Expected(c)
  /\ part.body # "legacy" => PeerIsCurrent

StreamInv ==
  socket # 0 =>
    LET u == up[socket]
        d == down[socket]
    IN  /\ mutex = NoCaller => u = <<>> /\ d = <<>>
        /\ \A c \in Callers : At(c, "send") => u = <<>> /\ d = <<>>
        /\ \A c \in Callers : At(c, "header") =>
             /\ Len(u) <= 1 /\ Len(d) <= 2
             /\ Len(u) = 1 => u[1] = Expected(c) /\ d = <<>>
             /\ Len(d) = 2 => BodyPart(d[2], c)
        /\ \A c \in Callers : At(c, "body") =>
             /\ u = <<>> /\ Len(d) <= 1
             /\ Len(d) = 1 => BodyPart(d[1], c)

IInv == /\ TypeOK /\ LockInv /\ FrameInv /\ ProbeInv /\ StreamInv
        /\ LegacySensorOnlyProbed /\ AnswerMatchesRequest

-----------------------------------------------------------------------------
(* The inductive invariant behind the refinement. *)

(* A request has one thread, which has not told its end yet. *)
CallInv ==
  /\ \A c \in Callers : IsRequest(c) =>
       /\ pc[c] # "idle" /\ cur[c].id <= ncall
       /\ outcome[cur[c].id] = "none"
       /\ \A d \in Callers : cur[d].id = cur[c].id => d = c
  /\ \A k \in Calls : k > ncall => outcome[k] = "none"

(* The frame of request k is on its way to the sensor. *)
Flying(n, k) == \E i \in 1..Len(up[n]) : up[n][i].call = k /\ ~up[n][i].probing

(* A frame is on its way once, before it is run once. *)
FlightInv ==
  /\ \A n \in Conns : Len(up[n]) <= 1
  /\ \A k \in Calls :
       /\ Len(runs[k]) <= 1
       /\ outcome[k] = "answered" => Len(runs[k]) = 1
       /\ k > ncall \/ outcome[k] \in {"notSupported", "invalid"} =>
            runs[k] = <<>> /\ \A n \in Conns : ~Flying(n, k)
       /\ \A n \in Conns : Flying(n, k) =>
            /\ runs[k] = <<>> /\ outcome[k] # "answered"
            /\ \A m \in Conns : Flying(m, k) => m = n

(* A request that has not been sent, or never will be. *)
Unsent(c) ==
  \/ pc[c] \in {"lock", "send"}
  \/ pc[c] \in Holding /\ cur[c].probing
  \/ pc[c] = "finish" /\ cur[c].ret \in {"legacy", "large"}

(* A request of which the SDK has an answer. *)
Answered(c) ==
  \/ pc[c] = "header" /\ ~cur[c].probing /\ down[socket] # <<>>
  \/ pc[c] = "body" /\ ~cur[c].probing
  \/ pc[c] = "finish" /\ cur[c].ret = "ok"

(* What the sensor has done with a request then. *)
SendOf(c) ==
  /\ Unsent(c) => /\ runs[cur[c].id] = <<>>
                  /\ \A n \in Conns : ~Flying(n, cur[c].id)
  /\ Answered(c) => Len(runs[cur[c].id]) = 1

SendInv == \A c \in Callers : IsRequest(c) => SendOf(c)

RpcInv == CallInv /\ FlightInv /\ SendInv
=============================================================================
