----------------------------- MODULE Lifecycle -----------------------------
(***************************************************************************)
(* AfiSdk::Init, Start and Stop with the receiver threads of the streams   *)
(* (RDI, SHII, SPI), each on a TcpStreamClient or a UdpReceiver, and the   *)
(* sockets they hold.                                                      *)
(*                                                                         *)
(* One thread of the application calls Init, Start and Stop.  Init and     *)
(* Stop take the streams one after the other, Init without a receiver      *)
(* thread beside it.  A receiver thread shares with Stop, without a mutex, *)
(* running_ of the SDK and socket_, open_ and running_ of its              *)
(* TcpStreamClient, or socket_ of its UdpReceiver.                         *)
(*                                                                         *)
(* A socket is a value that is not used again while anything refers to it. *)
(***************************************************************************)
EXTENDS Integers

CONSTANTS
  NStreams,        (* streams enabled, 1..NStreams in the order of Stop    *)
  Transports,      (* transports the application configures, by stream     *)
  MaxSocket,       (* bound: sockets of one stream that exist at a time    *)
  MaxDelay,        (* kMaxReconnectDelay, in steps of the backoff          *)
  CloseWakesRecv   (* whether closing a socket ends a recv() on it that    *)
                   (* another thread is blocked in; on Linux it does not   *)

ASSUME LifecycleAssumption ==
  /\ NStreams \in Nat \ {0}
  /\ Transports \in [1..NStreams -> SUBSET {"tcp", "udp"}]
  /\ MaxSocket \in Nat \ {0}
  /\ MaxDelay \in Nat \ {0}
  /\ CloseWakesRecv \in BOOLEAN

Streams == 1..NStreams
NoSocket == 0
SocketIds == 1..MaxSocket

VARIABLES
  state,      (* state_                                                    *)
  running,    (* running_                                                  *)
  call,       (* where Init or Stop is, <<step, stream>>, or Idle          *)
  useTcp,     (* rdi_use_tcp_ and its like                                 *)
  client,     (* rdi_tcp_ and its like: whether there is an object         *)
  socket,     (* TcpStreamClient::socket_                                  *)
  open,       (* TcpStreamClient::open_                                    *)
  wanted,     (* TcpStreamClient::running_                                 *)
  delay,      (* TcpStreamClient::reconnect_delay_ms_                      *)
  udp,        (* UdpReceiver::socket_                                      *)
  thread,     (* where the receiver thread of a stream is, "none" when it  *)
              (* has ended                                                 *)
  blocked,    (* the socket its recv() was called with                     *)
  kernel,     (* sockets of each stream that are open                      *)
  dead,       (* ... whose peer is gone                                    *)
  midFrame,   (* ... with the rest of a frame still to be read             *)
  attempt,    (* history: sockets the Init that is going on, or that       *)
              (* failed last, has opened                                   *)
  late,       (* history: open sockets of a reconnect that was under way   *)
              (* when Stop was called                                      *)
  reachable   (* whether the sensor can be reached                         *)

tcp     == <<client, socket, open, wanted, delay>>
sockets == <<kernel, dead, midFrame, late>>
control == <<state, running, call, useTcp, attempt>>
vars    == <<control, tcp, udp, thread, blocked, sockets, reachable>>

Idle == <<"idle", 0>>

(* Sockets of a stream nothing refers to. *)
Unused(s) == SocketIds \ (kernel[s] \cup {socket[s], udp[s], blocked[s]})
Fresh(s)  == CHOOSE n \in Unused(s) : TRUE

(* A recv() may be blocked in a socket while it is closed. *)
Closed(s, closed) ==
  /\ kernel' = [kernel EXCEPT ![s] = @ \ closed]
  /\ dead' = [dead EXCEPT ![s] = @ \ (closed \ {blocked[s]})]
  /\ midFrame' = [midFrame EXCEPT ![s] = @ \ closed]
  /\ late' = [late EXCEPT ![s] = @ \ closed]

NewSocket(s, closed, new) ==
  /\ kernel' = [kernel EXCEPT ![s] = (@ \ closed) \cup {new}]
  /\ dead' = [dead EXCEPT ![s] = @ \ closed]
  /\ midFrame' = [midFrame EXCEPT ![s] = @ \ closed]
  /\ late' = [late EXCEPT ![s] = (@ \ closed) \cup
                IF running \/ call[1] = "open" THEN {} ELSE {new}]

Goto(s, where) == thread' = [thread EXCEPT ![s] = where]

-----------------------------------------------------------------------------
Init ==
  /\ state = "notInit"
  /\ running = FALSE
  /\ call = Idle
  /\ useTcp = [s \in Streams |-> FALSE]
  /\ client = [s \in Streams |-> FALSE]
  /\ socket = [s \in Streams |-> NoSocket]
  /\ open = [s \in Streams |-> FALSE]
  /\ wanted = [s \in Streams |-> FALSE]
  /\ delay = [s \in Streams |-> 1]
  /\ udp = [s \in Streams |-> NoSocket]
  /\ thread = [s \in Streams |-> "none"]
  /\ blocked = [s \in Streams |-> NoSocket]
  /\ kernel = [s \in Streams |-> {}]
  /\ dead = [s \in Streams |-> {}]
  /\ midFrame = [s \in Streams |-> {}]
  /\ late = [s \in Streams |-> {}]
  /\ attempt = [s \in Streams |-> {}]
  /\ reachable = TRUE

-----------------------------------------------------------------------------
(* The application *)

InitBegins(tr) ==
  /\ call = Idle
  /\ state \in {"notInit", "stopped"}
  /\ state' = "notInit"
  /\ useTcp' = [s \in Streams |-> tr[s] = "tcp"]
  /\ attempt' = [s \in Streams |-> {}]
  /\ call' = <<"open", 1>>
  /\ UNCHANGED <<running, tcp, udp, thread, blocked, sockets, reachable>>

(* Init has opened its last stream, or goes on to the next. *)
InitGoesOn(s) ==
  IF s < NStreams
  THEN /\ call' = <<"open", s + 1>>
       /\ attempt' = [attempt EXCEPT ![s] = {Fresh(s)}]
       /\ UNCHANGED state
  ELSE /\ call' = Idle
       /\ attempt' = [i \in Streams |-> {}]
       /\ state' = "ready"

(* A new TcpStreamClient takes the place of the one before, whose          *)
(* destructor closes its socket.                                           *)
InitOpensTcp(s) ==
  /\ call = <<"open", s>> /\ useTcp[s]
  /\ reachable /\ Unused(s) # {}
  /\ NewSocket(s, {socket[s]}, Fresh(s))
  /\ client' = [client EXCEPT ![s] = TRUE]
  /\ socket' = [socket EXCEPT ![s] = Fresh(s)]
  /\ open' = [open EXCEPT ![s] = TRUE]
  /\ wanted' = [wanted EXCEPT ![s] = TRUE]
  /\ delay' = [delay EXCEPT ![s] = 1]
  /\ InitGoesOn(s)
  /\ UNCHANGED <<running, useTcp, udp, thread, blocked, reachable>>

(* A UdpReceiver that is still open is closed first. *)
InitOpensUdp(s) ==
  /\ call = <<"open", s>> /\ ~useTcp[s]
  /\ Unused(s) # {}
  /\ NewSocket(s, {udp[s]}, Fresh(s))
  /\ udp' = [udp EXCEPT ![s] = Fresh(s)]
  /\ InitGoesOn(s)
  /\ UNCHANGED <<running, useTcp, tcp, thread, blocked, reachable>>

(* Mutant: fail_init closes only receivers of the stream that failed.      *)
ReleasedOfStream(s) ==
  IF call = <<"open", s>> THEN {socket[s], udp[s]} ELSE {}

(* The sockets fail_init closes. *)
Released(s) == {socket[s], udp[s]}

(* A stream cannot be opened: fail_init releases every receiver. *)
InitFails ==
  /\ \E s \in Streams : call = <<"open", s>>
  /\ call' = Idle
  /\ client' = [s \in Streams |-> FALSE]
  /\ socket' = [s \in Streams |-> NoSocket]
  /\ open' = [s \in Streams |-> FALSE]
  /\ wanted' = [s \in Streams |-> FALSE]
  /\ delay' = [s \in Streams |-> 1]
  /\ udp' = [s \in Streams |-> NoSocket]
  /\ kernel' = [s \in Streams |-> kernel[s] \ Released(s)]
  /\ dead' = [s \in Streams |-> dead[s] \ Released(s)]
  /\ midFrame' = [s \in Streams |-> midFrame[s] \ Released(s)]
  /\ late' = [s \in Streams |-> late[s] \ Released(s)]
  /\ UNCHANGED <<state, running, useTcp, attempt, thread, blocked, reachable>>

Start ==
  /\ state = "ready" /\ call = Idle
  /\ running' = TRUE
  /\ thread' = [s \in Streams |-> "loop"]
  /\ state' = "running"
  /\ UNCHANGED <<call, useTcp, attempt, tcp, udp, blocked, sockets, reachable>>

(* Stop, which has nothing to do before the first Init. *)
StopBegins ==
  /\ call = Idle
  /\ running \/ state # "notInit"
  /\ running' = FALSE
  /\ call' = <<"setStopping", 1>>
  /\ UNCHANGED <<state, useTcp, attempt, tcp, udp, thread, blocked, sockets,
                 reachable>>

After(step, s) ==
  CASE step = "setStopping" -> <<"close", s>>
    [] step = "close"       -> <<"closeSocket", s>>
    [] step = "closeSocket" -> <<"clearSocket", s>>
    [] step = "clearSocket" -> IF s < NStreams THEN <<"setStopping", s + 1>>
                                               ELSE <<"join", 1>>
    [] step = "join"        -> IF s < NStreams THEN <<"join", s + 1>>
                                               ELSE <<"end", 0>>

(* SetStopping() and the first stores of Close(). *)
StopFlags(s) ==
  /\ \/ call = <<"setStopping", s>> /\ UNCHANGED open
     \/ call = <<"close", s>>
        /\ open' = IF client[s] THEN [open EXCEPT ![s] = FALSE] ELSE open
  /\ call' = After(call[1], s)
  /\ wanted' = IF client[s] THEN [wanted EXCEPT ![s] = FALSE] ELSE wanted
  /\ UNCHANGED <<state, running, useTcp, attempt, client, socket, delay, udp,
                 thread, blocked, sockets, reachable>>

(* The receiver Stop closes: a stream with a TcpStreamClient is taken for  *)
(* a TCP stream.                                                           *)
StopCloses(s) == IF client[s] THEN socket[s] ELSE udp[s]

(* Close() looks at socket_, closes it, and only then clears it. *)
StopCloseSocket(s) ==
  /\ call = <<"closeSocket", s>>
  /\ Closed(s, {StopCloses(s)})
  /\ call' = IF StopCloses(s) = NoSocket THEN After("clearSocket", s)
                                             ELSE After("closeSocket", s)
  /\ UNCHANGED <<state, running, useTcp, attempt, tcp, udp, thread, blocked,
                 reachable>>

StopClearSocket(s) ==
  /\ call = <<"clearSocket", s>>
  /\ call' = After("clearSocket", s)
  /\ IF client[s] THEN socket' = [socket EXCEPT ![s] = NoSocket] /\ UNCHANGED udp
                  ELSE udp' = [udp EXCEPT ![s] = NoSocket] /\ UNCHANGED socket
  /\ UNCHANGED <<state, running, useTcp, attempt, client, open, wanted, delay,
                 thread, blocked, sockets, reachable>>

(* Mutant: Stop does not wait for the thread. *)
EndedOrNot(s) == TRUE

Ended(s) == thread[s] = "none"

StopJoins(s) ==
  /\ call = <<"join", s>>
  /\ Ended(s)
  /\ call' = After("join", s)
  /\ UNCHANGED <<state, running, useTcp, attempt, tcp, udp, thread, blocked,
                 sockets, reachable>>

StopEnds ==
  /\ call = <<"end", 0>>
  /\ state' = "stopped"
  /\ call' = Idle
  /\ UNCHANGED <<running, useTcp, attempt, tcp, udp, thread, blocked, sockets,
                 reachable>>

-----------------------------------------------------------------------------
(* A receiver thread *)

(* Mutant: the loop runs for as long as its client is open. *)
LoopWhileOpen(s) == running \/ open[s]

Loops(s) == running

(* RdiThreadFunc and its like look at running_ before each Receive(). *)
Loop(s) ==
  /\ thread[s] = "loop"
  /\ Goto(s, IF ~Loops(s)     THEN "none"
             ELSE IF ~useTcp[s] THEN "udp"
             ELSE IF open[s]    THEN "header" ELSE "reconnect")
  /\ UNCHANGED <<control, tcp, udp, blocked, sockets, reachable>>

(* recv() is called with what socket_ is now, and blocks. *)
Receiver(s) == IF thread[s] = "udp" THEN udp[s] ELSE socket[s]

CallsRecv(s) ==
  /\ thread[s] \in {"header", "body", "udp"}
  /\ blocked[s] = NoSocket
  /\ Receiver(s) \in kernel[s]
  /\ blocked' = [blocked EXCEPT ![s] = Receiver(s)]
  /\ UNCHANGED <<control, tcp, udp, thread, sockets, reachable>>

(* Mutant: a frame that is too large is skipped, the connection kept.      *)
GiveUpOnErrorOnly(s) == UNCHANGED open

(* Receive returns an error after open_ = false. *)
GiveUp(s) == open' = [open EXCEPT ![s] = FALSE]

(* What a sensor that goes on sending ends the recv() with. *)
Readable(s) ==
  /\ blocked[s] # NoSocket
  /\ blocked[s] \notin dead[s]
  /\ blocked[s] \in kernel[s] \/ ~CloseWakesRecv

(* The header of a frame that is too large ends the connection, any other  *)
(* is followed by its body.                                                *)
RecvHeader(s) ==
  /\ thread[s] = "header"
  /\ Readable(s)
  /\ midFrame' = [midFrame EXCEPT ![s] = (@ \cup {blocked[s]}) \cap kernel[s]]
  /\ blocked' = [blocked EXCEPT ![s] = NoSocket]
  /\ \/ Goto(s, "body") /\ UNCHANGED open
     \/ Goto(s, "loop") /\ GiveUp(s)
  /\ UNCHANGED <<control, client, socket, wanted, delay, udp, kernel, dead, late,
                 reachable>>

(* A whole frame: the callbacks run. *)
RecvBody(s) ==
  /\ thread[s] = "body"
  /\ Readable(s)
  /\ midFrame' = [midFrame EXCEPT ![s] = @ \ {blocked[s]}]
  /\ blocked' = [blocked EXCEPT ![s] = NoSocket]
  /\ Goto(s, "callback")
  /\ UNCHANGED <<control, tcp, udp, kernel, dead, late, reachable>>

RecvFailed(s) ==
  \/ blocked[s] = NoSocket /\ socket[s] \notin kernel[s]
  \/ blocked[s] \in dead[s]
  \/ blocked[s] # NoSocket /\ blocked[s] \notin kernel[s] /\ CloseWakesRecv

(* recv() fails: its socket is closed or none, the peer is gone (the       *)
(* keep-alive tells after some seconds), or the socket is closed under it. *)
RecvFails(s) ==
  /\ thread[s] \in {"header", "body"}
  /\ RecvFailed(s)
  /\ blocked' = [blocked EXCEPT ![s] = NoSocket]
  /\ dead' = [dead EXCEPT ![s] = @ \cap kernel[s]]
  /\ GiveUp(s)
  /\ Goto(s, "loop")
  /\ UNCHANGED <<control, client, socket, wanted, delay, udp, kernel, midFrame,
                 late, reachable>>

(* UdpReceiver::Receive: a datagram, a timeout of SO_RCVTIMEO or an error; *)
(* without a socket, an error at once.                                     *)
RecvUdp(s) ==
  /\ thread[s] = "udp"
  /\ blocked[s] # NoSocket \/ udp[s] \notin kernel[s]
  /\ blocked' = [blocked EXCEPT ![s] = NoSocket]
  /\ \/ Goto(s, "loop")
     \/ blocked[s] # NoSocket /\ Goto(s, "callback")
  /\ UNCHANGED <<control, tcp, udp, sockets, reachable>>

CallbackReturns(s) ==
  /\ thread[s] = "callback"
  /\ Goto(s, "loop")
  /\ UNCHANGED <<control, tcp, udp, blocked, sockets, reachable>>

(* try_reconnect *)
Reconnect(s) ==
  /\ thread[s] = "reconnect"
  /\ Goto(s, IF wanted[s] THEN "drop" ELSE "loop")
  /\ UNCHANGED <<control, tcp, udp, blocked, sockets, reachable>>

(* Mutant: the old connection is forgotten before it is closed. *)
DropForgets(s) ==
  /\ thread[s] = "drop"
  /\ socket' = [socket EXCEPT ![s] = NoSocket]
  /\ open' = [open EXCEPT ![s] = FALSE]
  /\ Goto(s, "sleep")
  /\ UNCHANGED <<control, client, wanted, delay, udp, blocked, sockets, reachable>>

Drop(s) ==
  /\ thread[s] = "drop"
  /\ Closed(s, {socket[s]})
  /\ socket' = [socket EXCEPT ![s] = NoSocket]
  /\ open' = [open EXCEPT ![s] = FALSE]
  /\ Goto(s, "sleep")
  /\ UNCHANGED <<control, client, wanted, delay, udp, blocked, reachable>>

(* Open stores running_ = true before it connects. *)
Open(s) ==
  /\ thread[s] = "sleep"
  /\ wanted' = [wanted EXCEPT ![s] = TRUE]
  /\ Goto(s, "connect")
  /\ UNCHANGED <<control, client, socket, open, delay, udp, blocked, sockets,
                 reachable>>

(* Mutant: the backoff has no end. *)
BackoffUncapped(d) == d + 1

Backoff(d) == IF d < MaxDelay THEN d + 1 ELSE MaxDelay

OpenFails(s) ==
  /\ thread[s] = "connect"
  /\ ~reachable \/ Unused(s) = {}
  /\ delay' = [delay EXCEPT ![s] = Backoff(@)]
  /\ Goto(s, "loop")
  /\ UNCHANGED <<control, client, socket, open, wanted, udp, blocked, sockets,
                 reachable>>

Connected(s) ==
  /\ thread[s] = "connect"
  /\ reachable /\ Unused(s) # {}
  /\ socket' = [socket EXCEPT ![s] = Fresh(s)]
  /\ NewSocket(s, {}, Fresh(s))
  /\ Goto(s, "opened")
  /\ UNCHANGED <<control, client, open, wanted, delay, udp, blocked,
                 reachable>>

Opened(s) ==
  /\ thread[s] = "opened"
  /\ open' = [open EXCEPT ![s] = TRUE]
  /\ delay' = [delay EXCEPT ![s] = 1]
  /\ Goto(s, "loop")
  /\ UNCHANGED <<control, client, socket, wanted, udp, blocked, sockets,
                 reachable>>

-----------------------------------------------------------------------------
(* The sensor goes away, with or without telling, and comes back. *)
SensorGone ==
  /\ reachable
  /\ reachable' = FALSE
  /\ dead' = [s \in Streams |->
                (kernel[s] \cup {blocked[s]}) \ {udp[s], NoSocket}]
  /\ UNCHANGED <<control, tcp, udp, thread, blocked, kernel, midFrame, late>>

SensorBack ==
  /\ ~reachable
  /\ reachable' = TRUE
  /\ UNCHANGED <<control, tcp, udp, thread, blocked, sockets>>

-----------------------------------------------------------------------------
(* Init goes on until it succeeds or fails, Stop until it is done. *)
InitStep ==
  \/ \E s \in Streams : InitOpensTcp(s) \/ InitOpensUdp(s)
  \/ InitFails

StopStep ==
  \/ \E s \in Streams : \/ StopFlags(s) \/ StopCloseSocket(s)
                        \/ StopClearSocket(s) \/ StopJoins(s)
  \/ StopEnds

(* What a receiver thread does without a frame of the sensor. *)
ThreadStep(s) ==
  \/ Loop(s) \/ CallsRecv(s) \/ RecvFails(s) \/ RecvUdp(s)
  \/ CallbackReturns(s) \/ Reconnect(s) \/ Drop(s) \/ Open(s)
  \/ OpenFails(s) \/ Connected(s) \/ Opened(s)

Frames(s) == RecvHeader(s) \/ RecvBody(s)

Next ==
  \/ \E tr \in [Streams -> {"tcp", "udp"}] :
       /\ \A s \in Streams : tr[s] \in Transports[s]
       /\ InitBegins(tr)
  \/ InitStep
  \/ Start
  \/ StopBegins
  \/ StopStep
  \/ \E s \in Streams : ThreadStep(s) \/ Frames(s)
  \/ SensorGone
  \/ SensorBack

(* Threads that can run do, a callback returns, and an Init or Stop that   *)
(* was begun goes on.  Whether the application ever calls Stop, and        *)
(* whether the sensor ever sends a frame, is open.                         *)
Fairness ==
  /\ WF_vars(InitStep) /\ WF_vars(StopStep)
  /\ \A s \in Streams : WF_vars(ThreadStep(s))

Spec == Init /\ [][Next]_vars /\ Fairness

-----------------------------------------------------------------------------
(* Properties *)

TypeOK ==
  /\ state \in {"notInit", "ready", "running", "stopped"}
  /\ running \in BOOLEAN /\ reachable \in BOOLEAN
  /\ call \in {"open", "setStopping", "close", "closeSocket", "clearSocket",
               "join"} \X Streams \cup {Idle, <<"end", 0>>}
  /\ useTcp \in [Streams -> BOOLEAN] /\ client \in [Streams -> BOOLEAN]
  /\ open \in [Streams -> BOOLEAN] /\ wanted \in [Streams -> BOOLEAN]
  /\ socket \in [Streams -> SocketIds \cup {NoSocket}]
  /\ udp \in [Streams -> SocketIds \cup {NoSocket}]
  /\ blocked \in [Streams -> SocketIds \cup {NoSocket}]
  /\ delay \in [Streams -> 1..MaxDelay]
  /\ thread \in [Streams ->
       {"none", "loop", "header", "body", "udp", "callback", "reconnect",
        "drop", "sleep", "connect", "opened"}]
  /\ kernel \in [Streams -> SUBSET SocketIds]
  /\ dead \in [Streams -> SUBSET SocketIds]
  /\ midFrame \in [Streams -> SUBSET SocketIds]
  /\ late \in [Streams -> SUBSET SocketIds]
  /\ attempt \in [Streams -> SUBSET SocketIds]

(* When Stop has returned, and until Start is called again, no receiver    *)
(* thread is left to run a callback: not one that was in the middle of a   *)
(* frame, of a reconnect or of a callback when Stop was called.            *)
NoThreadOutlivesStop ==
  state # "running" => \A s \in Streams : thread[s] = "none"

(* When Init fails, no socket it opened is left open, those of the streams *)
(* before the one that failed included (api_reference.md, "everything      *)
(* opened during the attempt is released and Init() can be called again"). *)
FailedInitLeavesNothing ==
  state = "notInit" /\ call = Idle =>
    \A s \in Streams : attempt[s] \cap kernel[s] = {}

(* A TCP stream is read from the start of a frame: after a frame that was  *)
(* too large, or was cut off, nothing more is read from that connection.   *)
HeaderAtFrameStart ==
  \A s \in Streams :
    thread[s] = "header" /\ blocked[s] # NoSocket => blocked[s] \notin midFrame[s]

(* Stop returns, whatever the receiver threads are waiting for             *)
(* (afi_sdk.cpp, "Close receivers to unblock recv.").                      *)
StopReturns == call = <<"setStopping", 1>> ~> state = "stopped"

(* A stream whose connection broke has a new one soon after the sensor can *)
(* be reached, unless the SDK is stopped.                                  *)
Receiving(s) == open[s] /\ socket[s] \in kernel[s] \ dead[s]
StreamRecovers ==
  \A s \in Streams :
    (state = "running" /\ useTcp[s]) ~>
       (Receiving(s) \/ ~reachable \/ ~running)

(* Stop is documented to close every connection (api_reference.md:154).    *)
(* It does, but for two: the UDP socket of a stream that had a             *)
(* TcpStreamClient in an earlier Init, and the connection that a reconnect *)
(* under way makes when Stop has looked at socket_.                        *)
StopClosesTheRest ==
  state = "stopped" =>
    \A s \in Streams :
      kernel[s] \subseteq late[s] \cup (IF client[s] THEN {udp[s]} ELSE {})

-----------------------------------------------------------------------------
(* The inductive invariant of the proofs *)

(* Stop has looked at the receiver of a stream and closed it. *)
Past(s) == \/ call = <<"clearSocket", s>>
           \/ /\ call[1] \in {"setStopping", "close", "closeSocket", "clearSocket"}
              /\ s < call[2]
           \/ call[1] \in {"join", "end"}

ControlInv ==
  /\ running => state = "running" /\ call[1] = "idle"
  /\ call[1] = "open" => state = "notInit"
  /\ call[1] \notin {"idle", "open"} => state # "notInit"

(* Stop has waited for the threads it has got past. *)
JoinInv(s) ==
  /\ call[1] = "join" /\ s < call[2] => thread[s] = "none"
  /\ call[1] = "end" => thread[s] = "none"
  /\ state # "running" => thread[s] = "none"

(* The thread of a TCP stream has a client. *)
ClientInv(s) ==
  /\ thread[s] \in {"header", "body", "reconnect", "drop", "sleep", "connect",
                    "opened"} => useTcp[s]
  /\ thread[s] = "udp" => ~useTcp[s]
  /\ useTcp[s] /\ state # "notInit" => client[s]
  /\ useTcp[s] /\ call[1] = "open" /\ s < call[2] => client[s]
  /\ ~client[s] => socket[s] = NoSocket

(* A frame is read from the connection it began on, or not at all. *)
RecvInv(s) ==
  /\ thread[s] \notin {"header", "body", "udp"} => blocked[s] = NoSocket
  /\ thread[s] \in {"header", "body"} /\ blocked[s] # NoSocket =>
       socket[s] = blocked[s] \/ (socket[s] = NoSocket /\ blocked[s] \notin kernel[s])
  /\ thread[s] \in {"header", "body"} /\ Past(s) => socket[s] \notin kernel[s]
  /\ thread[s] \in {"sleep", "connect"} => socket[s] = NoSocket

(* Only the connection a thread is on can be in the middle of a frame, and *)
(* it is given up unless the thread goes on to read the body.              *)
FrameInv(s) ==
  /\ midFrame[s] \subseteq kernel[s] \cap {socket[s]}
  /\ open[s] /\ thread[s] # "body" => midFrame[s] = {}
  /\ thread[s] \in {"header", "callback", "sleep", "connect", "opened"} =>
       midFrame[s] = {}
  /\ ~useTcp[s] \/ state # "running" \/ Past(s) => midFrame[s] = {}

(* What has been closed, and what may be left. *)
Swept(s) == kernel[s] \subseteq late[s] \cup (IF client[s] THEN {udp[s]} ELSE {})

SocketInv(s) ==
  /\ kernel[s] \subseteq late[s] \cup {socket[s], udp[s]}
  /\ Past(s) \/ state = "stopped" => Swept(s)
  /\ call[1] = "open" => attempt[s] \subseteq {socket[s], udp[s]}
  /\ state = "notInit" /\ call = Idle => attempt[s] \cap kernel[s] = {}

StreamInv(s) == /\ JoinInv(s) /\ ClientInv(s) /\ RecvInv(s)
                /\ FrameInv(s) /\ SocketInv(s)

LifeInv == TypeOK /\ ControlInv /\ \A s \in Streams : StreamInv(s)
=============================================================================
