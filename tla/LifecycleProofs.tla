--------------------------- MODULE LifecycleProofs ---------------------------
(***************************************************************************)
(* Proofs about Lifecycle, for every number of streams, every choice of    *)
(* transports, any number of sockets, and whether or not closing a socket  *)
(* ends a recv() on it.                                                    *)
(***************************************************************************)
EXTENDS Lifecycle, TLAPS

-----------------------------------------------------------------------------
(* Names and sockets *)

(* A stream is a number, and no socket is NoSocket. *)
LEMMA Numbers ==
  /\ NStreams \in Nat /\ NStreams > 0
  /\ Streams \subseteq Nat \ {0} /\ 1 \in Streams
  /\ \A s \in Streams : s <= NStreams /\ (s < NStreams => s + 1 \in Streams)
  /\ NoSocket \notin SocketIds
BY LifecycleAssumption DEF Streams, NoSocket, SocketIds

(* A new socket is one that nothing refers to. *)
LEMMA FreshDef ==
  ASSUME NEW s, Unused(s) # {}
  PROVE  /\ Fresh(s) \in SocketIds /\ Fresh(s) \notin kernel[s]
         /\ Fresh(s) # socket[s] /\ Fresh(s) # udp[s] /\ Fresh(s) # blocked[s]
<1>1. Fresh(s) \in Unused(s)
  BY DEF Fresh
<1>2. QED
  BY <1>1 DEF Unused

Steps == {"setStopping", "close", "closeSocket", "clearSocket", "join"}

(* Stop goes from one stream to the next, and comes to an end. *)
LEMMA AfterDef ==
  ASSUME NEW s \in Streams, NEW step \in Steps
  PROVE  /\ After(step, s) \in Steps \X Streams \cup {<<"end", 0>>}
         /\ After(step, s)[1] \notin {"idle", "open"}
<1>1. s + 1 \in Streams \/ ~(s < NStreams)
  BY Numbers
<1>2. QED
  BY <1>1, Numbers DEF After, Steps

Places == {"none", "loop", "header", "body", "udp", "callback", "reconnect",
           "drop", "sleep", "connect", "opened"}

(* The types of what a receiver thread changes. *)
SocketTypes ==
  /\ socket \in [Streams -> SocketIds \cup {NoSocket}]
  /\ udp \in [Streams -> SocketIds \cup {NoSocket}]
  /\ blocked \in [Streams -> SocketIds \cup {NoSocket}]
  /\ kernel \in [Streams -> SUBSET SocketIds]
  /\ dead \in [Streams -> SUBSET SocketIds]
  /\ midFrame \in [Streams -> SUBSET SocketIds]
  /\ late \in [Streams -> SUBSET SocketIds]

(* Closing sockets and opening one leaves sockets. *)
LEMMA SocketsClosed ==
  ASSUME TypeOK, NEW s \in Streams, NEW closed, Closed(s, closed)
  PROVE  /\ kernel' \in [Streams -> SUBSET SocketIds]
         /\ dead' \in [Streams -> SUBSET SocketIds]
         /\ midFrame' \in [Streams -> SUBSET SocketIds]
         /\ late' \in [Streams -> SUBSET SocketIds]
         /\ kernel'[s] = kernel[s] \ closed
         /\ midFrame'[s] = midFrame[s] \ closed
         /\ late'[s] = late[s] \ closed
         /\ \A i \in Streams : i # s =>
              /\ kernel'[i] = kernel[i] /\ midFrame'[i] = midFrame[i]
              /\ late'[i] = late[i]
BY DEF TypeOK, Closed

(* ... the new one among them. *)
LEMMA SocketOpened ==
  ASSUME TypeOK, NEW s \in Streams, NEW closed, NEW new \in SocketIds,
         NewSocket(s, closed, new)
  PROVE  /\ kernel' \in [Streams -> SUBSET SocketIds]
         /\ dead' \in [Streams -> SUBSET SocketIds]
         /\ midFrame' \in [Streams -> SUBSET SocketIds]
         /\ late' \in [Streams -> SUBSET SocketIds]
         /\ kernel'[s] = (kernel[s] \ closed) \cup {new}
         /\ midFrame'[s] = midFrame[s] \ closed
         /\ late'[s] = (late[s] \ closed) \cup
              IF running \/ call[1] = "open" THEN {} ELSE {new}
         /\ \A i \in Streams : i # s =>
              /\ kernel'[i] = kernel[i] /\ midFrame'[i] = midFrame[i]
              /\ late'[i] = late[i]
BY DEF TypeOK, NewSocket

-----------------------------------------------------------------------------
(* Types *)

ThreadActs(s) == ThreadStep(s) \/ Frames(s)

(* A step of a receiver thread leaves values of the right types. *)
LEMMA ThreadTypes ==
  ASSUME TypeOK, NEW s \in Streams, ThreadActs(s)
  PROVE  TypeOK'
<1> USE DEF control, tcp, sockets, Goto
<1>1. CASE Loop(s)
  BY <1>1 DEF TypeOK, Loop
<1>2. CASE CallsRecv(s)
  BY <1>2 DEF TypeOK, CallsRecv, Receiver
<1>3. CASE RecvFails(s)
  BY <1>3 DEF TypeOK, RecvFails, GiveUp
<1>4. CASE RecvUdp(s)
  BY <1>4 DEF TypeOK, RecvUdp
<1>5. CASE CallbackReturns(s)
  BY <1>5 DEF TypeOK, CallbackReturns
<1>6. CASE Reconnect(s)
  BY <1>6 DEF TypeOK, Reconnect
<1>7. CASE Drop(s)
  BY <1>7, SocketsClosed DEF TypeOK, Drop
<1>8. CASE Open(s)
  BY <1>8 DEF TypeOK, Open
<1>9. CASE OpenFails(s)
  <2>1. \A d \in 1..MaxDelay : Backoff(d) \in 1..MaxDelay
    BY LifecycleAssumption DEF Backoff
  <2>2. QED
    BY <1>9, <2>1 DEF TypeOK, OpenFails
<1>10. CASE Connected(s)
  <2>1. Fresh(s) \in SocketIds
    BY <1>10, FreshDef DEF Connected
  <2>2. QED
    BY <1>10, <2>1, SocketOpened DEF TypeOK, Connected
<1>11. CASE Opened(s)
  <2>1. 1 \in 1..MaxDelay
    BY LifecycleAssumption
  <2>2. QED
    BY <1>11, <2>1 DEF TypeOK, Opened
<1>12. CASE RecvHeader(s)
  BY <1>12 DEF TypeOK, RecvHeader, GiveUp
<1>13. CASE RecvBody(s)
  BY <1>13 DEF TypeOK, RecvBody
<1>14. QED
  BY <1>1, <1>2, <1>3, <1>4, <1>5, <1>6, <1>7, <1>8, <1>9, <1>10, <1>11,
     <1>12, <1>13 DEF ThreadActs, ThreadStep, Frames

-----------------------------------------------------------------------------
(* A step of a receiver thread *)

SameControl == /\ state' = state /\ running' = running /\ call' = call
               /\ useTcp' = useTcp /\ attempt' = attempt

SameStream(s) == /\ thread'[s] = thread[s] /\ client'[s] = client[s]
                 /\ socket'[s] = socket[s] /\ open'[s] = open[s]
                 /\ udp'[s] = udp[s] /\ blocked'[s] = blocked[s]
                 /\ kernel'[s] = kernel[s] /\ midFrame'[s] = midFrame[s]
                 /\ late'[s] = late[s]

(* A stream that a step leaves alone, Init and Stop being where they were, *)
(* keeps its invariant.                                                    *)
LEMMA StreamKept ==
  ASSUME NEW s \in Streams, StreamInv(s), SameControl, SameStream(s)
  PROVE  StreamInv(s)'
<1>1. Past(s)' <=> Past(s)
  BY DEF SameControl, Past
<1>2. (JoinInv(s) /\ ClientInv(s))'
  BY DEF StreamInv, SameControl, SameStream, JoinInv, ClientInv
<1>3. (RecvInv(s) /\ FrameInv(s))'
  BY <1>1 DEF StreamInv, SameControl, SameStream, RecvInv, FrameInv
<1>4. SocketInv(s)'
  BY <1>1 DEF StreamInv, SameControl, SameStream, SocketInv, Swept
<1>5. QED
  BY <1>2, <1>3, <1>4 DEF StreamInv

(* A receiver thread touches nothing of Init and Stop, and nothing of      *)
(* another stream.                                                         *)
LEMMA ThreadLeaves ==
  ASSUME TypeOK, NEW s \in Streams, ThreadActs(s)
  PROVE  /\ SameControl
         /\ \A i \in Streams : i # s => SameStream(i)
<1> USE DEF control, tcp, sockets, Goto, SameControl, SameStream
<1>1. CASE Loop(s)
  BY <1>1 DEF TypeOK, Loop
<1>2. CASE CallsRecv(s)
  BY <1>2 DEF TypeOK, CallsRecv
<1>3. CASE RecvFails(s)
  BY <1>3 DEF TypeOK, RecvFails, GiveUp
<1>4. CASE RecvUdp(s)
  BY <1>4 DEF TypeOK, RecvUdp
<1>5. CASE CallbackReturns(s)
  BY <1>5 DEF TypeOK, CallbackReturns
<1>6. CASE Reconnect(s)
  BY <1>6 DEF TypeOK, Reconnect
<1>7. CASE Drop(s)
  BY <1>7, SocketsClosed DEF TypeOK, Drop
<1>8. CASE Open(s)
  BY <1>8 DEF TypeOK, Open
<1>9. CASE OpenFails(s)
  BY <1>9 DEF TypeOK, OpenFails
<1>10. CASE Connected(s)
  <2>1. Fresh(s) \in SocketIds
    BY <1>10, FreshDef DEF Connected
  <2>2. QED
    BY <1>10, <2>1, SocketOpened DEF TypeOK, Connected
<1>11. CASE Opened(s)
  BY <1>11 DEF TypeOK, Opened
<1>12. CASE RecvHeader(s)
  BY <1>12 DEF TypeOK, RecvHeader, GiveUp
<1>13. CASE RecvBody(s)
  BY <1>13 DEF TypeOK, RecvBody
<1>14. QED
  BY <1>1, <1>2, <1>3, <1>4, <1>5, <1>6, <1>7, <1>8, <1>9, <1>10, <1>11,
     <1>12, <1>13 DEF ThreadActs, ThreadStep, Frames

(* Before Stop closes a receiver the SDK may be running; from then on it   *)
(* is not.                                                                 *)
LEMMA PastMeansStopping ==
  ASSUME ControlInv, NEW s, Past(s)
  PROVE  ~running /\ call[1] # "open" /\ call[1] # "idle"
BY DEF ControlInv, Past

(* The thread of a stream keeps the invariant of the stream. *)
LEMMA ThreadKeeps ==
  ASSUME TypeOK, ControlInv, NEW s \in Streams, StreamInv(s), ThreadActs(s)
  PROVE  StreamInv(s)'
<1> USE DEF control, tcp, sockets, Goto
<1>a. SameControl
  BY ThreadLeaves
<1>b. Past(s)' <=> Past(s)
  BY <1>a DEF SameControl, Past
<1>c. Past(s) => ~running /\ call[1] # "open"
  BY PastMeansStopping
<1>1. CASE Loop(s)
  <2>1. /\ client'[s] = client[s] /\ socket'[s] = socket[s]
        /\ open'[s] = open[s] /\ udp'[s] = udp[s]
        /\ blocked'[s] = blocked[s] /\ kernel'[s] = kernel[s]
        /\ midFrame'[s] = midFrame[s] /\ late'[s] = late[s]
        /\ thread[s] = "loop"
        /\ thread'[s] = IF ~running THEN "none" ELSE IF ~useTcp[s] THEN "udp"
                        ELSE IF open[s] THEN "header" ELSE "reconnect"
    BY <1>1 DEF TypeOK, Loop, Loops
  <2>2. (JoinInv(s) /\ ClientInv(s))'
    BY <2>1, <1>a DEF StreamInv, SameControl, ControlInv, JoinInv, ClientInv
  <2>3. (RecvInv(s) /\ FrameInv(s))'
    BY <2>1, <1>a, <1>b, <1>c DEF StreamInv, SameControl, RecvInv, FrameInv
  <2>4. SocketInv(s)'
    BY <2>1, <1>a, <1>b DEF StreamInv, SameControl, SocketInv, Swept
  <2>5. QED
    BY <2>2, <2>3, <2>4 DEF StreamInv
<1>2. CASE CallsRecv(s)
  <2>1. /\ client'[s] = client[s] /\ socket'[s] = socket[s]
        /\ open'[s] = open[s]
        /\ udp'[s] = udp[s] /\ kernel'[s] = kernel[s]
        /\ midFrame'[s] = midFrame[s] /\ late'[s] = late[s]
        /\ thread'[s] = thread[s] /\ thread[s] \in {"header", "body", "udp"}
        /\ blocked'[s] = IF thread[s] = "udp" THEN udp[s] ELSE socket[s]
    BY <1>2 DEF TypeOK, CallsRecv, Receiver
  <2>2. (JoinInv(s) /\ ClientInv(s))'
    BY <2>1, <1>a DEF StreamInv, SameControl, JoinInv, ClientInv
  <2>3. (RecvInv(s) /\ FrameInv(s))'
    BY <2>1, <1>a, <1>b DEF StreamInv, SameControl, RecvInv, FrameInv
  <2>4. SocketInv(s)'
    BY <2>1, <1>a, <1>b DEF StreamInv, SameControl, SocketInv, Swept
  <2>5. QED
    BY <2>2, <2>3, <2>4 DEF StreamInv
<1>3. CASE RecvFails(s)
  <2>1. /\ client'[s] = client[s] /\ socket'[s] = socket[s] /\ open'[s] = FALSE
        /\ udp'[s] = udp[s] /\ kernel'[s] = kernel[s]
        /\ midFrame'[s] = midFrame[s] /\ late'[s] = late[s]
        /\ thread'[s] = "loop" /\ thread[s] # "none" /\ blocked'[s] = NoSocket
    BY <1>3 DEF TypeOK, RecvFails, GiveUp
  <2>2. (JoinInv(s) /\ ClientInv(s))'
    BY <2>1, <1>a DEF StreamInv, SameControl, JoinInv, ClientInv
  <2>3. (RecvInv(s) /\ FrameInv(s))'
    BY <2>1, <1>a, <1>b DEF StreamInv, SameControl, RecvInv, FrameInv
  <2>4. SocketInv(s)'
    BY <2>1, <1>a, <1>b DEF StreamInv, SameControl, SocketInv, Swept
  <2>5. QED
    BY <2>2, <2>3, <2>4 DEF StreamInv
<1>4. CASE RecvUdp(s)
  <2>1. /\ client'[s] = client[s] /\ socket'[s] = socket[s]
        /\ open'[s] = open[s] /\ udp'[s] = udp[s]
        /\ kernel'[s] = kernel[s] /\ midFrame'[s] = midFrame[s]
        /\ late'[s] = late[s]
        /\ thread[s] = "udp" /\ thread'[s] \in {"loop", "callback"}
        /\ blocked'[s] = NoSocket
    BY <1>4 DEF TypeOK, RecvUdp
  <2>2. (JoinInv(s) /\ ClientInv(s))'
    BY <2>1, <1>a DEF StreamInv, SameControl, JoinInv, ClientInv
  <2>3. (RecvInv(s) /\ FrameInv(s))'
    BY <2>1, <1>a, <1>b DEF StreamInv, SameControl, ClientInv, RecvInv,
         FrameInv
  <2>4. SocketInv(s)'
    BY <2>1, <1>a, <1>b DEF StreamInv, SameControl, SocketInv, Swept
  <2>5. QED
    BY <2>2, <2>3, <2>4 DEF StreamInv
<1>5. CASE CallbackReturns(s)
  <2>1. /\ client'[s] = client[s] /\ socket'[s] = socket[s]
        /\ open'[s] = open[s] /\ udp'[s] = udp[s]
        /\ blocked'[s] = blocked[s] /\ kernel'[s] = kernel[s]
        /\ midFrame'[s] = midFrame[s] /\ late'[s] = late[s]
        /\ thread[s] = "callback" /\ thread'[s] = "loop"
    BY <1>5 DEF TypeOK, CallbackReturns
  <2>2. (JoinInv(s) /\ ClientInv(s))'
    BY <2>1, <1>a DEF StreamInv, SameControl, JoinInv, ClientInv
  <2>3. (RecvInv(s) /\ FrameInv(s))'
    BY <2>1, <1>a, <1>b DEF StreamInv, SameControl, RecvInv, FrameInv
  <2>4. SocketInv(s)'
    BY <2>1, <1>a, <1>b DEF StreamInv, SameControl, SocketInv, Swept
  <2>5. QED
    BY <2>2, <2>3, <2>4 DEF StreamInv
<1>6. CASE Reconnect(s)
  <2>1. /\ client'[s] = client[s] /\ socket'[s] = socket[s]
        /\ open'[s] = open[s] /\ udp'[s] = udp[s]
        /\ blocked'[s] = blocked[s] /\ kernel'[s] = kernel[s]
        /\ midFrame'[s] = midFrame[s] /\ late'[s] = late[s]
        /\ thread[s] = "reconnect" /\ thread'[s] \in {"drop", "loop"}
    BY <1>6 DEF TypeOK, Reconnect
  <2>2. (JoinInv(s) /\ ClientInv(s))'
    BY <2>1, <1>a DEF StreamInv, SameControl, JoinInv, ClientInv
  <2>3. (RecvInv(s) /\ FrameInv(s))'
    BY <2>1, <1>a, <1>b DEF StreamInv, SameControl, RecvInv, FrameInv
  <2>4. SocketInv(s)'
    BY <2>1, <1>a, <1>b DEF StreamInv, SameControl, SocketInv, Swept
  <2>5. QED
    BY <2>2, <2>3, <2>4 DEF StreamInv
<1>7. CASE Drop(s)
  <2>1. /\ client'[s] = client[s] /\ udp'[s] = udp[s]
        /\ blocked'[s] = blocked[s]
        /\ thread[s] = "drop" /\ thread'[s] = "sleep"
        /\ socket'[s] = NoSocket
        /\ open'[s] = FALSE
        /\ kernel'[s] = kernel[s] \ {socket[s]}
        /\ midFrame'[s] = midFrame[s] \ {socket[s]}
        /\ late'[s] = late[s] \ {socket[s]}
    BY <1>7, SocketsClosed DEF TypeOK, Drop
  <2>2. (JoinInv(s) /\ ClientInv(s))'
    BY <2>1, <1>a DEF StreamInv, SameControl, JoinInv, ClientInv
  <2>3. (RecvInv(s) /\ FrameInv(s))'
    BY <2>1, <1>a, <1>b DEF StreamInv, SameControl, RecvInv, FrameInv
  <2>4. SocketInv(s)'
    BY <2>1, <1>a, <1>b DEF StreamInv, SameControl, ControlInv, JoinInv,
         SocketInv, Swept
  <2>5. QED
    BY <2>2, <2>3, <2>4 DEF StreamInv
<1>8. CASE Open(s)
  <2>1. /\ client'[s] = client[s] /\ socket'[s] = socket[s]
        /\ open'[s] = open[s] /\ udp'[s] = udp[s]
        /\ blocked'[s] = blocked[s] /\ kernel'[s] = kernel[s]
        /\ midFrame'[s] = midFrame[s] /\ late'[s] = late[s]
        /\ thread[s] = "sleep" /\ thread'[s] = "connect"
    BY <1>8 DEF TypeOK, Open
  <2>2. (JoinInv(s) /\ ClientInv(s))'
    BY <2>1, <1>a DEF StreamInv, SameControl, JoinInv, ClientInv
  <2>3. (RecvInv(s) /\ FrameInv(s))'
    BY <2>1, <1>a, <1>b DEF StreamInv, SameControl, RecvInv, FrameInv
  <2>4. SocketInv(s)'
    BY <2>1, <1>a, <1>b DEF StreamInv, SameControl, SocketInv, Swept
  <2>5. QED
    BY <2>2, <2>3, <2>4 DEF StreamInv
<1>9. CASE OpenFails(s)
  <2>1. /\ client'[s] = client[s] /\ socket'[s] = socket[s]
        /\ open'[s] = open[s] /\ udp'[s] = udp[s]
        /\ blocked'[s] = blocked[s] /\ kernel'[s] = kernel[s]
        /\ midFrame'[s] = midFrame[s] /\ late'[s] = late[s]
        /\ thread[s] = "connect" /\ thread'[s] = "loop"
    BY <1>9 DEF TypeOK, OpenFails
  <2>2. (JoinInv(s) /\ ClientInv(s))'
    BY <2>1, <1>a DEF StreamInv, SameControl, JoinInv, ClientInv
  <2>3. (RecvInv(s) /\ FrameInv(s))'
    BY <2>1, <1>a, <1>b DEF StreamInv, SameControl, RecvInv, FrameInv
  <2>4. SocketInv(s)'
    BY <2>1, <1>a, <1>b DEF StreamInv, SameControl, SocketInv, Swept
  <2>5. QED
    BY <2>2, <2>3, <2>4 DEF StreamInv
<1>10. CASE Connected(s)
  <2>1. /\ client'[s] = client[s] /\ open'[s] = open[s]
        /\ udp'[s] = udp[s] /\ blocked'[s] = blocked[s]
        /\ midFrame'[s] = midFrame[s]
        /\ thread[s] = "connect" /\ thread'[s] = "opened"
        /\ socket'[s] \notin kernel[s] \cup {NoSocket}
        /\ kernel'[s] = kernel[s] \cup {socket'[s]}
        /\ late'[s] = late[s] \cup
             IF running \/ call[1] = "open" THEN {} ELSE {socket'[s]}
    <3>1. /\ Fresh(s) \in SocketIds /\ Fresh(s) \notin kernel[s]
          /\ Fresh(s) # NoSocket
      BY <1>10, FreshDef, Numbers DEF Connected
    <3>2. NewSocket(s, {}, Fresh(s))
      BY <1>10 DEF Connected
    <3>3. /\ kernel'[s] = (kernel[s] \ {}) \cup {Fresh(s)}
          /\ midFrame'[s] = midFrame[s] \ {}
          /\ late'[s] = (late[s] \ {}) \cup
               IF running \/ call[1] = "open" THEN {} ELSE {Fresh(s)}
      BY <3>2 DEF TypeOK, NewSocket
    <3>4. socket'[s] = Fresh(s)
      BY <1>10 DEF TypeOK, Connected
    <3>5. /\ client'[s] = client[s] /\ open'[s] = open[s] /\ udp'[s] = udp[s]
          /\ blocked'[s] = blocked[s]
          /\ thread[s] = "connect" /\ thread'[s] = "opened"
      BY <1>10 DEF TypeOK, Connected
    <3>6. QED
      BY <3>1, <3>3, <3>4, <3>5
  <2>2. (JoinInv(s) /\ ClientInv(s))'
    BY <2>1, <1>a DEF StreamInv, SameControl, JoinInv, ClientInv
  <2>3. (RecvInv(s) /\ FrameInv(s))'
    BY <2>1, <1>a, <1>b DEF StreamInv, SameControl, RecvInv, FrameInv
  <2>4. SocketInv(s)'
    <3>1. socket[s] = NoSocket /\ NoSocket \notin kernel[s]
      BY <2>1, Numbers DEF TypeOK, StreamInv, RecvInv
    <3>2. QED
      BY <2>1, <3>1, <1>a, <1>b, <1>c
         DEF StreamInv, SameControl, ControlInv, JoinInv, SocketInv, Swept
  <2>5. QED
    BY <2>2, <2>3, <2>4 DEF StreamInv
<1>11. CASE Opened(s)
  <2>1. /\ client'[s] = client[s] /\ socket'[s] = socket[s]
        /\ udp'[s] = udp[s] /\ blocked'[s] = blocked[s]
        /\ kernel'[s] = kernel[s] /\ midFrame'[s] = midFrame[s]
        /\ late'[s] = late[s]
        /\ thread[s] = "opened" /\ thread'[s] = "loop"
        /\ open'[s] = TRUE
    BY <1>11 DEF TypeOK, Opened
  <2>2. (JoinInv(s) /\ ClientInv(s))'
    BY <2>1, <1>a DEF StreamInv, SameControl, JoinInv, ClientInv
  <2>3. (RecvInv(s) /\ FrameInv(s))'
    BY <2>1, <1>a, <1>b DEF StreamInv, SameControl, RecvInv, FrameInv
  <2>4. SocketInv(s)'
    BY <2>1, <1>a, <1>b DEF StreamInv, SameControl, SocketInv, Swept
  <2>5. QED
    BY <2>2, <2>3, <2>4 DEF StreamInv
<1>12. CASE RecvHeader(s)
  <2>1. /\ client'[s] = client[s] /\ socket'[s] = socket[s]
        /\ udp'[s] = udp[s] /\ kernel'[s] = kernel[s]
        /\ late'[s] = late[s]
        /\ thread[s] = "header" /\ blocked'[s] = NoSocket
        /\ blocked[s] # NoSocket
        /\ midFrame'[s] = (midFrame[s] \cup {blocked[s]}) \cap kernel[s]
        /\ \/ thread'[s] = "body" /\ open'[s] = open[s]
           \/ thread'[s] = "loop" /\ open'[s] = FALSE
    <3>1. \/ thread' = [thread EXCEPT ![s] = "body"] /\ open' = open
          \/ /\ thread' = [thread EXCEPT ![s] = "loop"]
             /\ open' = [open EXCEPT ![s] = FALSE]
      BY <1>12 DEF RecvHeader, GiveUp
    <3>2. \/ thread'[s] = "body" /\ open'[s] = open[s]
          \/ thread'[s] = "loop" /\ open'[s] = FALSE
      BY <3>1 DEF TypeOK
    <3>3. /\ blocked[s] # NoSocket /\ thread[s] = "header"
          /\ midFrame' = [midFrame EXCEPT
                            ![s] = (@ \cup {blocked[s]}) \cap kernel[s]]
          /\ blocked' = [blocked EXCEPT ![s] = NoSocket]
          /\ UNCHANGED <<client, socket, udp, kernel, late>>
      BY <1>12 DEF RecvHeader, Readable
    <3>4. QED
      BY <3>2, <3>3 DEF TypeOK
  <2>2. (JoinInv(s) /\ ClientInv(s))'
    BY <2>1, <1>a DEF StreamInv, SameControl, JoinInv, ClientInv
  <2>3. (RecvInv(s) /\ FrameInv(s))'
    BY <2>1, <1>a, <1>b
       DEF StreamInv, SameControl, JoinInv, ClientInv, RecvInv, FrameInv
  <2>4. SocketInv(s)'
    BY <2>1, <1>a, <1>b DEF StreamInv, SameControl, SocketInv, Swept
  <2>5. QED
    BY <2>2, <2>3, <2>4 DEF StreamInv
<1>13. CASE RecvBody(s)
  <2>1. /\ client'[s] = client[s] /\ socket'[s] = socket[s]
        /\ open'[s] = open[s] /\ udp'[s] = udp[s]
        /\ kernel'[s] = kernel[s] /\ late'[s] = late[s]
        /\ thread[s] = "body" /\ thread'[s] = "callback"
        /\ blocked'[s] = NoSocket
        /\ blocked[s] # NoSocket
        /\ midFrame'[s] = midFrame[s] \ {blocked[s]}
    BY <1>13 DEF TypeOK, RecvBody, Readable
  <2>2. (JoinInv(s) /\ ClientInv(s))'
    BY <2>1, <1>a DEF StreamInv, SameControl, JoinInv, ClientInv
  <2>3. (RecvInv(s) /\ FrameInv(s))'
    BY <2>1, <1>a, <1>b, Numbers
       DEF TypeOK, StreamInv, SameControl, RecvInv, FrameInv
  <2>4. SocketInv(s)'
    BY <2>1, <1>a, <1>b DEF StreamInv, SameControl, SocketInv, Swept
  <2>5. QED
    BY <2>2, <2>3, <2>4 DEF StreamInv
<1>14. QED
  BY <1>1, <1>2, <1>3, <1>4, <1>5, <1>6, <1>7, <1>8, <1>9, <1>10, <1>11,
     <1>12, <1>13 DEF ThreadActs, ThreadStep, Frames

-----------------------------------------------------------------------------
(* Init *)

(* What holds of a stream no thread reads. *)
LEMMA NoThread ==
  ASSUME NEW s \in Streams, StreamInv(s), state # "running"
  PROVE  thread[s] = "none" /\ blocked[s] = NoSocket /\ midFrame[s] = {}
BY DEF StreamInv, JoinInv, RecvInv, FrameInv

(* Init begins with whatever sockets the last Stop has left. *)
LEMMA InitBeginsKeeps ==
  ASSUME LifeInv, NEW tr, InitBegins(tr)
  PROVE  LifeInv'
<1> USE DEF tcp, sockets
<1>1. /\ state \in {"notInit", "stopped"} /\ state' = "notInit"
      /\ call' = <<"open", 1>> /\ running' = running /\ call = Idle
      /\ useTcp' = [s \in Streams |-> tr[s] = "tcp"]
      /\ attempt' = [s \in Streams |-> {}]
  BY DEF InitBegins
<1>2. UNCHANGED <<tcp, udp, thread, blocked, sockets, reachable>>
  BY DEF InitBegins
<1>3. TypeOK'
  BY <1>1, <1>2, Numbers DEF LifeInv, TypeOK
<1>4. ControlInv'
  BY <1>1 DEF LifeInv, ControlInv
<1>5. ASSUME NEW s \in Streams
      PROVE  StreamInv(s)'
  <2>1. thread[s] = "none" /\ blocked[s] = NoSocket /\ midFrame[s] = {}
    BY <1>1, NoThread DEF LifeInv
  <2>2. call'[1] = "open" /\ call'[2] = 1 /\ ~Past(s)' /\ ~(s < 1)
    BY <1>1, Numbers DEF Past
  <2>3. attempt'[s] = {} /\ kernel[s] \subseteq late[s] \cup {socket[s], udp[s]}
    BY <1>1 DEF LifeInv, StreamInv, SocketInv
  <2>4. ~client[s] => socket[s] = NoSocket
    BY DEF LifeInv, StreamInv, ClientInv
  <2>5. (JoinInv(s) /\ ClientInv(s))'
    BY <1>1, <1>2, <2>1, <2>2, <2>4 DEF JoinInv, ClientInv
  <2>6. (RecvInv(s) /\ FrameInv(s))'
    BY <1>1, <1>2, <2>1, <2>2 DEF RecvInv, FrameInv
  <2>7. SocketInv(s)'
    BY <1>1, <1>2, <2>2, <2>3 DEF SocketInv
  <2>8. QED
    BY <2>5, <2>6, <2>7 DEF StreamInv
<1>6. QED
  BY <1>3, <1>4, <1>5 DEF LifeInv

(* Init fails with nothing open that it has opened. *)
LEMMA InitFailsKeeps ==
  ASSUME LifeInv, InitFails
  PROVE  LifeInv'
<1>1. /\ call[1] = "open" /\ state = "notInit" /\ state' = state
      /\ call' = Idle /\ running' = running /\ useTcp' = useTcp
      /\ attempt' = attempt
  BY DEF InitFails, LifeInv, ControlInv
<1>2. TypeOK'
  BY LifecycleAssumption DEF InitFails, LifeInv, TypeOK
<1>3. ControlInv'
  BY <1>1 DEF LifeInv, ControlInv, Idle
<1>4. ASSUME NEW s \in Streams
      PROVE  StreamInv(s)'
  <2>1. thread[s] = "none" /\ blocked[s] = NoSocket /\ midFrame[s] = {}
    BY <1>1, NoThread DEF LifeInv
  <2>2. call'[1] = "idle" /\ ~Past(s)'
    BY <1>1 DEF Past, Idle
  <2>3. /\ kernel[s] \subseteq late[s] \cup {socket[s], udp[s]}
        /\ attempt[s] \subseteq {socket[s], udp[s]}
    BY <1>1 DEF LifeInv, StreamInv, SocketInv
  <2>4. /\ client'[s] = FALSE /\ socket'[s] = NoSocket /\ udp'[s] = NoSocket
        /\ kernel'[s] = kernel[s] \ {socket[s], udp[s]}
        /\ midFrame'[s] = midFrame[s] \ {socket[s], udp[s]}
        /\ late'[s] = late[s] \ {socket[s], udp[s]}
        /\ thread'[s] = thread[s] /\ blocked'[s] = blocked[s]
    BY DEF InitFails, Released
  <2>5. (JoinInv(s) /\ ClientInv(s))'
    BY <1>1, <2>1, <2>2, <2>4 DEF JoinInv, ClientInv
  <2>6. (RecvInv(s) /\ FrameInv(s))'
    BY <1>1, <2>1, <2>2, <2>4 DEF RecvInv, FrameInv
  <2>7. SocketInv(s)'
    BY <1>1, <2>2, <2>3, <2>4 DEF SocketInv
  <2>8. QED
    BY <2>5, <2>6, <2>7 DEF StreamInv
<1>5. QED
  BY <1>2, <1>3, <1>4 DEF LifeInv

(* Where Init is after it has opened a stream. *)
LEMMA GoesOn ==
  ASSUME TypeOK, ControlInv, NEW s \in Streams, call = <<"open", s>>,
         Fresh(s) \in SocketIds, InitGoesOn(s), running' = running
  PROVE  /\ call' \in {<<"open", s + 1>>, Idle}
         /\ attempt' \in [Streams -> SUBSET SocketIds]
         /\ call'[1] = "open" => /\ s + 1 \in Streams /\ call'[2] = s + 1
                                  /\ state' = "notInit"
         /\ call'[1] = "open" => attempt'[s] = {Fresh(s)}
         /\ call'[1] # "open" => \A i \in Streams : i <= s /\ attempt'[i] = {}
         /\ \A i \in Streams : i # s => attempt'[i] \in {attempt[i], {}}
         /\ state' \in {"notInit", "ready"} /\ state = "notInit"
         /\ state' = "notInit" => call'[1] = "open"
         /\ ControlInv'
<1>1. state = "notInit" /\ ~running
  BY DEF ControlInv
<1>2. CASE s < NStreams
  BY <1>1, <1>2, Numbers DEF InitGoesOn, TypeOK, ControlInv, Idle
<1>3. CASE ~(s < NStreams)
  BY <1>1, <1>3, Numbers DEF InitGoesOn, TypeOK, ControlInv, Idle, Streams
<1>4. QED
  BY <1>2, <1>3

(* A stream that is not the one Init has opened keeps its invariant. *)
LEMMA OtherStreamsOfInit ==
  ASSUME LifeInv, NEW s \in Streams, call = <<"open", s>>,
         Fresh(s) \in SocketIds, InitGoesOn(s),
         running' = running, useTcp' = useTcp,
         NEW i \in Streams, i # s, SameStream(i)
  PROVE  StreamInv(i)'
<1>1. /\ call[1] = "open" /\ call[2] = s /\ s \in Nat /\ i \in Nat
      /\ i < s + 1 => i < s
      /\ i <= s => i < s
  BY Numbers
<1>2. /\ call' \in {<<"open", s + 1>>, Idle}
      /\ call'[1] = "open" => call'[2] = s + 1 /\ state' = "notInit"
      /\ call'[1] # "open" => i <= s /\ attempt'[i] = {}
      /\ attempt'[i] \in {attempt[i], {}}
      /\ state' \in {"notInit", "ready"} /\ state = "notInit"
      /\ state' = "notInit" => call'[1] = "open"
  BY GoesOn DEF LifeInv
<1>3. ~Past(i)'
  BY <1>2 DEF Past, Idle
<1>4. thread[i] = "none" /\ blocked[i] = NoSocket /\ midFrame[i] = {}
  BY <1>2, NoThread DEF LifeInv
<1>5. JoinInv(i)'
  BY <1>2, <1>4 DEF JoinInv, Idle, SameStream
<1>6. ClientInv(i)'
  <2>1. ClientInv(i)
    BY DEF LifeInv, StreamInv
  <2>2. useTcp[i] /\ i < s => client[i]
    BY <1>1, <2>1 DEF ClientInv
  <2>3. useTcp[i] /\ state' # "notInit" => client[i]
    BY <1>1, <1>2, <2>2
  <2>4. useTcp[i] /\ call'[1] = "open" /\ i < call'[2] => client[i]
    BY <1>1, <1>2, <2>2
  <2>5. QED
    BY <1>4, <2>1, <2>3, <2>4 DEF ClientInv, SameStream
<1>7. (RecvInv(i) /\ FrameInv(i))'
  BY <1>3, <1>4 DEF RecvInv, FrameInv, SameStream
<1>8. SocketInv(i)'
  <2>1. SocketInv(i)
    BY DEF LifeInv, StreamInv
  <2>2. QED
    BY <1>1, <1>2, <1>3, <2>1 DEF SocketInv, SameStream, Idle
<1>9. QED
  BY <1>5, <1>6, <1>7, <1>8 DEF StreamInv

(* A new client replaces the one before and its connection. *)
LEMMA InitOpensTcpKeeps ==
  ASSUME LifeInv, NEW s \in Streams, InitOpensTcp(s)
  PROVE  LifeInv'
<1>1. PICK new : new = Fresh(s)
  OBVIOUS
<1>2. /\ new \in SocketIds /\ new \notin kernel[s]
      /\ new # socket[s] /\ new # udp[s]
  BY <1>1, FreshDef DEF InitOpensTcp
<1>3. /\ call = <<"open", s>> /\ InitGoesOn(s) /\ useTcp[s]
      /\ running' = running /\ useTcp' = useTcp
      /\ udp' = udp /\ thread' = thread
      /\ blocked' = blocked /\ reachable' = reachable
      /\ client' = [client EXCEPT ![s] = TRUE]
      /\ socket' = [socket EXCEPT ![s] = new]
      /\ open' = [open EXCEPT ![s] = TRUE]
      /\ wanted' = [wanted EXCEPT ![s] = TRUE]
      /\ delay' = [delay EXCEPT ![s] = 1]
      /\ NewSocket(s, {socket[s]}, new)
  BY <1>1 DEF InitOpensTcp
<1>4. /\ kernel' \in [Streams -> SUBSET SocketIds]
      /\ dead' \in [Streams -> SUBSET SocketIds]
      /\ midFrame' \in [Streams -> SUBSET SocketIds]
      /\ late' \in [Streams -> SUBSET SocketIds]
      /\ kernel'[s] = (kernel[s] \ {socket[s]}) \cup {new}
      /\ midFrame'[s] = midFrame[s] \ {socket[s]}
      /\ late'[s] = late[s] \ {socket[s]}
      /\ \A i \in Streams : i # s =>
           /\ kernel'[i] = kernel[i] /\ midFrame'[i] = midFrame[i]
           /\ late'[i] = late[i]
  BY <1>2, <1>3 DEF LifeInv, TypeOK, NewSocket
<1>5. TypeOK'
  <2>1. /\ state' \in {"notInit", "ready", "running", "stopped"}
        /\ attempt' \in [Streams -> SUBSET SocketIds]
        /\ call' \in {"open"} \X Streams \cup {Idle}
    BY <1>1, <1>2, <1>3, GoesOn DEF LifeInv
  <2>2. delay' \in [Streams -> 1..MaxDelay]
    BY <1>3, LifecycleAssumption DEF LifeInv, TypeOK
  <2>3. /\ client' \in [Streams -> BOOLEAN] /\ open' \in [Streams -> BOOLEAN]
        /\ wanted' \in [Streams -> BOOLEAN]
        /\ socket' \in [Streams -> SocketIds \cup {NoSocket}]
    BY <1>2, <1>3 DEF LifeInv, TypeOK
  <2>4. QED
    BY <1>3, <1>4, <2>1, <2>2, <2>3 DEF LifeInv, TypeOK
<1>6. ControlInv'
  BY <1>1, <1>2, <1>3, GoesOn DEF LifeInv
<1>7. ASSUME NEW i \in Streams, i # s
      PROVE  StreamInv(i)'
  <2>1. SameStream(i)
    BY <1>3, <1>4, <1>7 DEF LifeInv, TypeOK, SameStream
  <2>2. QED
    BY <1>1, <1>2, <1>3, <1>7, <2>1, OtherStreamsOfInit
<1>8. StreamInv(s)'
  <2>1. /\ call[1] = "open" /\ s \in Nat
        /\ call'[1] \in {"open", "idle"} /\ state' \in {"notInit", "ready"}
        /\ call'[1] = "open" => attempt'[s] = {new} /\ call'[2] = s + 1
        /\ state' = "notInit" => call'[1] = "open" /\ call' # Idle
        /\ state = "notInit"
    BY <1>1, <1>2, <1>3, GoesOn, Numbers DEF LifeInv, Idle
  <2>2. thread[s] = "none" /\ blocked[s] = NoSocket /\ midFrame[s] = {}
    BY <2>1, NoThread DEF LifeInv
  <2>3. ~Past(s)'
    BY <2>1 DEF Past
  <2>4. client'[s] = TRUE /\ socket'[s] = new /\ udp'[s] = udp[s]
    BY <1>3 DEF LifeInv, TypeOK
  <2>5. (JoinInv(s) /\ ClientInv(s))'
    BY <1>3, <2>1, <2>2, <2>4 DEF JoinInv, ClientInv
  <2>6. (RecvInv(s) /\ FrameInv(s))'
    BY <1>3, <1>4, <2>2, <2>3, <2>4 DEF RecvInv, FrameInv
  <2>7. SocketInv(s)'
    BY <1>4, <2>1, <2>3, <2>4 DEF LifeInv, StreamInv, SocketInv
  <2>8. QED
    BY <2>5, <2>6, <2>7 DEF StreamInv
<1>9. QED
  BY <1>5, <1>6, <1>7, <1>8 DEF LifeInv

(* A receiver that is still open is closed for the new one. *)
LEMMA InitOpensUdpKeeps ==
  ASSUME LifeInv, NEW s \in Streams, InitOpensUdp(s)
  PROVE  LifeInv'
<1>1. PICK new : new = Fresh(s)
  OBVIOUS
<1>2. /\ new \in SocketIds /\ new \notin kernel[s]
      /\ new # socket[s] /\ new # udp[s]
  BY <1>1, FreshDef DEF InitOpensUdp
<1>3. /\ call = <<"open", s>> /\ InitGoesOn(s) /\ ~useTcp[s]
      /\ running' = running /\ useTcp' = useTcp /\ thread' = thread
      /\ blocked' = blocked /\ reachable' = reachable
      /\ udp' = [udp EXCEPT ![s] = new] /\ UNCHANGED tcp
      /\ NewSocket(s, {udp[s]}, new)
  BY <1>1 DEF InitOpensUdp
<1>4. /\ kernel' \in [Streams -> SUBSET SocketIds]
      /\ dead' \in [Streams -> SUBSET SocketIds]
      /\ midFrame' \in [Streams -> SUBSET SocketIds]
      /\ late' \in [Streams -> SUBSET SocketIds]
      /\ kernel'[s] = (kernel[s] \ {udp[s]}) \cup {new}
      /\ midFrame'[s] = midFrame[s] \ {udp[s]}
      /\ late'[s] = late[s] \ {udp[s]}
      /\ \A i \in Streams : i # s =>
           /\ kernel'[i] = kernel[i] /\ midFrame'[i] = midFrame[i]
           /\ late'[i] = late[i]
  BY <1>2, <1>3 DEF LifeInv, TypeOK, NewSocket
<1>5. TypeOK'
  <2>1. /\ state' \in {"notInit", "ready", "running", "stopped"}
        /\ attempt' \in [Streams -> SUBSET SocketIds]
        /\ call' \in {"open"} \X Streams \cup {Idle}
    BY <1>1, <1>2, <1>3, GoesOn DEF LifeInv
  <2>2. QED
    BY <1>2, <1>3, <1>4, <2>1, LifecycleAssumption DEF LifeInv, TypeOK, tcp
<1>6. ControlInv'
  BY <1>1, <1>2, <1>3, GoesOn DEF LifeInv
<1>7. ASSUME NEW i \in Streams, i # s
      PROVE  StreamInv(i)'
  <2>1. SameStream(i)
    BY <1>3, <1>4, <1>7 DEF LifeInv, TypeOK, SameStream, tcp
  <2>2. QED
    BY <1>1, <1>2, <1>3, <1>7, <2>1, OtherStreamsOfInit
<1>8. StreamInv(s)'
  <2>1. /\ call[1] = "open" /\ s \in Nat
        /\ call'[1] \in {"open", "idle"} /\ state' \in {"notInit", "ready"}
        /\ call'[1] = "open" => attempt'[s] = {new} /\ call'[2] = s + 1
        /\ state' = "notInit" => call'[1] = "open" /\ call' # Idle
        /\ state = "notInit"
    BY <1>1, <1>2, <1>3, GoesOn, Numbers DEF LifeInv, Idle
  <2>2. thread[s] = "none" /\ blocked[s] = NoSocket /\ midFrame[s] = {}
    BY <2>1, NoThread DEF LifeInv
  <2>3. ~Past(s)'
    BY <2>1 DEF Past
  <2>4. client'[s] = client[s] /\ socket'[s] = socket[s] /\ udp'[s] = new
    BY <1>3 DEF LifeInv, TypeOK, tcp
  <2>5. (JoinInv(s) /\ ClientInv(s))'
    BY <1>3, <2>1, <2>2, <2>4 DEF LifeInv, StreamInv, JoinInv, ClientInv
  <2>6. (RecvInv(s) /\ FrameInv(s))'
    BY <1>3, <1>4, <2>2, <2>3, <2>4 DEF RecvInv, FrameInv
  <2>7. SocketInv(s)'
    BY <1>4, <2>1, <2>3, <2>4 DEF LifeInv, StreamInv, SocketInv
  <2>8. QED
    BY <2>5, <2>6, <2>7 DEF StreamInv
<1>9. QED
  BY <1>5, <1>6, <1>7, <1>8 DEF LifeInv

-----------------------------------------------------------------------------
(* Start and Stop *)

(* Start finds no thread, nothing waiting and no frame begun. *)
LEMMA StartKeeps ==
  ASSUME LifeInv, Start
  PROVE  LifeInv'
<1> USE DEF tcp, sockets
<1>1. /\ state = "ready" /\ state' = "running" /\ call = Idle /\ call' = call
      /\ running' = TRUE /\ useTcp' = useTcp /\ attempt' = attempt
      /\ thread' = [s \in Streams |-> "loop"]
      /\ UNCHANGED <<tcp, udp, blocked, sockets, reachable>>
  BY DEF Start
<1>2. TypeOK'
  BY <1>1 DEF LifeInv, TypeOK
<1>3. ControlInv'
  BY <1>1 DEF LifeInv, ControlInv, Idle
<1>4. ASSUME NEW s \in Streams
      PROVE  StreamInv(s)'
  <2>1. blocked[s] = NoSocket /\ midFrame[s] = {} /\ thread'[s] = "loop"
    BY <1>1, NoThread DEF LifeInv
  <2>2. call'[1] = "idle" /\ ~Past(s)' /\ call[1] = "idle"
    BY <1>1 DEF Past, Idle
  <2>3. (JoinInv(s) /\ ClientInv(s))'
    BY <1>1, <2>1, <2>2 DEF LifeInv, StreamInv, JoinInv, ClientInv
  <2>4. (RecvInv(s) /\ FrameInv(s))'
    BY <1>1, <2>1, <2>2 DEF RecvInv, FrameInv
  <2>5. SocketInv(s)'
    BY <1>1, <2>2 DEF LifeInv, StreamInv, SocketInv
  <2>6. QED
    BY <2>3, <2>4, <2>5 DEF StreamInv
<1>5. QED
  BY <1>2, <1>3, <1>4 DEF LifeInv

(* Stop begins before the first stream. *)
LEMMA StopBeginsKeeps ==
  ASSUME LifeInv, StopBegins
  PROVE  LifeInv'
<1> USE DEF tcp, sockets
<1>1. /\ call = Idle /\ call' = <<"setStopping", 1>> /\ running' = FALSE
      /\ running \/ state # "notInit"
      /\ state' = state /\ useTcp' = useTcp /\ attempt' = attempt
      /\ UNCHANGED <<tcp, udp, thread, blocked, sockets, reachable>>
  BY DEF StopBegins
<1>2. TypeOK'
  BY <1>1, Numbers DEF LifeInv, TypeOK
<1>3. ControlInv'
  BY <1>1 DEF LifeInv, ControlInv
<1>4. ASSUME NEW s \in Streams
      PROVE  StreamInv(s)'
  <2>1. /\ call'[1] = "setStopping" /\ call'[2] = 1 /\ ~(s < 1)
        /\ call' # Idle /\ call[1] = "idle"
    BY <1>1, Numbers DEF Idle
  <2>2. ~Past(s)' /\ ~Past(s)
    BY <1>1, <2>1 DEF Past
  <2>3. (JoinInv(s) /\ ClientInv(s))'
    BY <1>1, <2>1 DEF LifeInv, StreamInv, JoinInv, ClientInv
  <2>4. (RecvInv(s) /\ FrameInv(s))'
    BY <1>1, <2>2 DEF LifeInv, StreamInv, RecvInv, FrameInv
  <2>5. SocketInv(s)'
    BY <1>1, <2>1, <2>2 DEF LifeInv, StreamInv, SocketInv, Swept
  <2>6. QED
    BY <2>3, <2>4, <2>5 DEF StreamInv
<1>5. QED
  BY <1>2, <1>3, <1>4 DEF LifeInv

(* Stop takes the flags of a stream back before it closes anything. *)
LEMMA StopFlagsKeeps ==
  ASSUME LifeInv, NEW s \in Streams, StopFlags(s)
  PROVE  LifeInv'
<1> USE DEF sockets
<1>1. /\ call \in {<<"setStopping", s>>, <<"close", s>>}
      /\ call' \in {<<"close", s>>, <<"closeSocket", s>>}
      /\ state' = state /\ running' = running /\ useTcp' = useTcp
      /\ attempt' = attempt
      /\ UNCHANGED <<client, socket, delay, udp, thread, blocked, sockets,
                     reachable>>
  BY DEF StopFlags, After
<1>2. wanted' = IF client[s] THEN [wanted EXCEPT ![s] = FALSE] ELSE wanted
  BY DEF StopFlags
<1>3. open' \in {open, [open EXCEPT ![s] = FALSE]}
  BY DEF StopFlags
<1>4. TypeOK'
  <2>1. call' \in Steps \X Streams
    BY <1>1 DEF Steps
  <2>2. open' \in [Streams -> BOOLEAN] /\ wanted' \in [Streams -> BOOLEAN]
    BY <1>2, <1>3 DEF LifeInv, TypeOK
  <2>3. QED
    BY <1>1, <2>1, <2>2 DEF LifeInv, TypeOK, Steps
<1>5. /\ call[1] \in {"setStopping", "close"} /\ call[2] = s
      /\ call'[1] \in {"close", "closeSocket"} /\ call'[2] = s
  BY <1>1
<1>6. ControlInv'
  BY <1>1, <1>5 DEF LifeInv, ControlInv
<1>7. ASSUME NEW i \in Streams
      PROVE  StreamInv(i)'
  <2>1. Past(i)' <=> Past(i)
    BY <1>1, <1>5 DEF Past
  <2>2. open'[i] => open[i]
    BY <1>3 DEF LifeInv, TypeOK
  <2>3. StreamInv(i) /\ call' # Idle
    BY <1>5 DEF LifeInv, Idle
  <2>4. (JoinInv(i) /\ ClientInv(i))'
    BY <1>1, <1>5, <2>3 DEF StreamInv, JoinInv, ClientInv
  <2>5. (RecvInv(i) /\ FrameInv(i))'
    BY <1>1, <2>1, <2>2, <2>3 DEF StreamInv, RecvInv, FrameInv
  <2>6. SocketInv(i)'
    BY <1>1, <1>5, <2>1, <2>3 DEF StreamInv, SocketInv, Swept
  <2>7. QED
    BY <2>4, <2>5, <2>6 DEF StreamInv
<1>8. QED
  BY <1>4, <1>6, <1>7 DEF LifeInv

(* Where Stop is after the receiver of a stream. *)
LEMMA AfterReceiver ==
  ASSUME NEW s \in Streams
  PROVE  /\ After("clearSocket", s) \in
              {<<"setStopping", s + 1>>, <<"join", 1>>}
         /\ After("clearSocket", s) \in Steps \X Streams
         /\ After("clearSocket", s) = <<"join", 1>> => \A i \in Streams : i <= s
         /\ \A i \in Streams : i < s + 1 <=> i < s \/ i = s
         /\ \A i \in Streams : ~(i < 1)
<1>1. s < NStreams => s + 1 \in Streams
  BY Numbers
<1>2. \A i \in Streams : i < s + 1 <=> i < s \/ i = s
  BY Numbers
<1>3. s < NStreams \/ \A i \in Streams : i <= s
  BY Numbers DEF Streams
<1>4. QED
  BY <1>1, <1>2, <1>3, Numbers DEF After, Steps

(* Stop gets past a stream with the receiver of that stream closed, and    *)
(* past no other.                                                          *)
LEMMA PastAfter ==
  ASSUME NEW s \in Streams,
         call \in {<<"closeSocket", s>>, <<"clearSocket", s>>},
         \/ call' = <<"clearSocket", s>>
         \/ call' = After("clearSocket", s)
  PROVE  /\ Past(s)'
         /\ \A i \in Streams : i # s => (Past(i)' <=> Past(i))
         /\ call[1] \in {"closeSocket", "clearSocket"}
         /\ call'[1] \in {"setStopping", "clearSocket", "join"}
         /\ call'[1] = "join" => /\ call'[2] = 1
                                  /\ \A i \in Streams : ~(i < call'[2])
         /\ call' \in Steps \X Streams
<1>1. PICK next : next = After("clearSocket", s)
  OBVIOUS
<1>2. /\ next \in {<<"setStopping", s + 1>>, <<"join", 1>>}
      /\ next \in Steps \X Streams
      /\ next = <<"join", 1>> => \A i \in Streams : i <= s
      /\ \A i \in Streams : i < s + 1 <=> i < s \/ i = s
      /\ \A i \in Streams : ~(i < 1)
  BY <1>1, AfterReceiver
<1>3. \A i \in Streams : i # s /\ i <= s => i < s
  BY Numbers
<1>4. CASE call' = <<"clearSocket", s>>
  <2>1. call' \in Steps \X Streams
    BY <1>4 DEF Steps
  <2>2. QED
    BY <1>2, <1>4, <2>1 DEF Past
<1>5. CASE call' = next /\ next = <<"setStopping", s + 1>>
  BY <1>2, <1>5 DEF Past
<1>6. CASE call' = next /\ next = <<"join", 1>>
  BY <1>2, <1>3, <1>6 DEF Past
<1>7. QED
  BY <1>1, <1>2, <1>4, <1>5, <1>6

(* Close closes what is in socket_, with which nothing of this stream is   *)
(* left open but a connection a reconnect makes later.                     *)
LEMMA StopCloseSocketKeeps ==
  ASSUME LifeInv, NEW s \in Streams, StopCloseSocket(s)
  PROVE  LifeInv'
<1> USE DEF tcp
<1>1. PICK c : c = StopCloses(s)
  OBVIOUS
<1>2. /\ call = <<"closeSocket", s>> /\ Closed(s, {c})
      /\ call' = <<"clearSocket", s>> \/ call' = After("clearSocket", s)
      /\ state' = state /\ running' = running /\ useTcp' = useTcp
      /\ attempt' = attempt
      /\ UNCHANGED <<tcp, udp, thread, blocked, reachable>>
  BY <1>1 DEF StopCloseSocket, After
<1>3. /\ kernel' \in [Streams -> SUBSET SocketIds]
      /\ dead' \in [Streams -> SUBSET SocketIds]
      /\ midFrame' \in [Streams -> SUBSET SocketIds]
      /\ late' \in [Streams -> SUBSET SocketIds]
      /\ kernel'[s] = kernel[s] \ {c} /\ midFrame'[s] = midFrame[s] \ {c}
      /\ late'[s] = late[s] \ {c}
      /\ \A i \in Streams : i # s =>
           /\ kernel'[i] = kernel[i] /\ midFrame'[i] = midFrame[i]
           /\ late'[i] = late[i]
  BY <1>2 DEF LifeInv, TypeOK, Closed
<1>4. /\ Past(s)' /\ call[1] = "closeSocket"
      /\ \A i \in Streams : i # s => (Past(i)' <=> Past(i))
      /\ call'[1] \in {"setStopping", "clearSocket", "join"}
      /\ call'[1] = "join" => \A i \in Streams : ~(i < call'[2])
      /\ call' \in Steps \X Streams /\ call' # Idle
  BY <1>2, PastAfter DEF Idle
<1>5. TypeOK'
  BY <1>2, <1>3, <1>4 DEF LifeInv, TypeOK, Steps
<1>6. state # "notInit" /\ ControlInv'
  BY <1>2, <1>4 DEF LifeInv, ControlInv
<1>7. ASSUME NEW i \in Streams, i # s
      PROVE  StreamInv(i)'
  <2>1. StreamInv(i)
    BY DEF LifeInv
  <2>2. (JoinInv(i) /\ ClientInv(i))'
    BY <1>2, <1>4, <2>1 DEF StreamInv, JoinInv, ClientInv
  <2>3. (RecvInv(i) /\ FrameInv(i))'
    BY <1>2, <1>3, <1>4, <1>7, <2>1 DEF StreamInv, RecvInv, FrameInv
  <2>4. SocketInv(i)'
    BY <1>2, <1>3, <1>4, <1>7, <2>1 DEF StreamInv, SocketInv, Swept
  <2>5. QED
    BY <2>2, <2>3, <2>4 DEF StreamInv
<1>8. StreamInv(s)'
  <2>1. StreamInv(s) /\ NoSocket \notin kernel[s]
    BY Numbers DEF LifeInv, TypeOK
  <2>2. /\ client[s] => c = socket[s]
        /\ ~client[s] => c = udp[s] /\ socket[s] = NoSocket /\ ~useTcp[s]
    BY <1>1, <1>6, <2>1 DEF StopCloses, StreamInv, ClientInv
  <2>3. (JoinInv(s) /\ ClientInv(s))'
    BY <1>2, <1>4, <2>1 DEF StreamInv, JoinInv, ClientInv
  <2>4. midFrame'[s] = {}
    BY <1>3, <2>1, <2>2 DEF StreamInv, FrameInv
  <2>5. (RecvInv(s) /\ FrameInv(s))'
    BY <1>2, <1>3, <2>1, <2>2, <2>4 DEF StreamInv, ClientInv, RecvInv, FrameInv
  <2>6. SocketInv(s)'
    BY <1>2, <1>3, <1>4, <2>1, <2>2 DEF StreamInv, SocketInv, Swept
  <2>7. QED
    BY <2>3, <2>5, <2>6 DEF StreamInv
<1>9. QED
  BY <1>5, <1>6, <1>7, <1>8 DEF LifeInv

(* ... and clears it. *)
LEMMA StopClearSocketKeeps ==
  ASSUME LifeInv, NEW s \in Streams, StopClearSocket(s)
  PROVE  LifeInv'
<1> USE DEF sockets
<1>1. /\ call = <<"clearSocket", s>> /\ call' = After("clearSocket", s)
      /\ state' = state /\ running' = running /\ useTcp' = useTcp
      /\ attempt' = attempt
      /\ UNCHANGED <<client, open, wanted, delay, thread, blocked, sockets,
                     reachable>>
      /\ client[s] => /\ socket' = [socket EXCEPT ![s] = NoSocket]
                      /\ udp' = udp
      /\ ~client[s] => /\ udp' = [udp EXCEPT ![s] = NoSocket]
                       /\ socket' = socket
  BY DEF StopClearSocket
<1>2. /\ Past(s)' /\ Past(s) /\ call[1] = "clearSocket"
      /\ \A i \in Streams : i # s => (Past(i)' <=> Past(i))
      /\ call'[1] \in {"setStopping", "clearSocket", "join"}
      /\ call'[1] = "join" => \A i \in Streams : ~(i < call'[2])
      /\ call' \in Steps \X Streams /\ call' # Idle
  BY <1>1, PastAfter DEF Idle, Past
<1>3. TypeOK'
  <2>1. /\ socket' \in [Streams -> SocketIds \cup {NoSocket}]
        /\ udp' \in [Streams -> SocketIds \cup {NoSocket}]
    BY <1>1 DEF LifeInv, TypeOK
  <2>2. QED
    BY <1>1, <1>2, <2>1 DEF LifeInv, TypeOK, Steps
<1>4. ControlInv'
  BY <1>1, <1>2 DEF LifeInv, ControlInv
<1>5. ASSUME NEW i \in Streams, i # s
      PROVE  StreamInv(i)'
  <2>1. StreamInv(i) /\ socket'[i] = socket[i] /\ udp'[i] = udp[i]
    BY <1>1, <1>5 DEF LifeInv, TypeOK
  <2>2. (JoinInv(i) /\ ClientInv(i))'
    BY <1>1, <1>2, <2>1 DEF StreamInv, JoinInv, ClientInv
  <2>3. (RecvInv(i) /\ FrameInv(i))'
    BY <1>1, <1>2, <1>5, <2>1 DEF StreamInv, RecvInv, FrameInv
  <2>4. SocketInv(i)'
    BY <1>1, <1>2, <1>5, <2>1 DEF StreamInv, SocketInv, Swept
  <2>5. QED
    BY <2>2, <2>3, <2>4 DEF StreamInv
<1>6. StreamInv(s)'
  <2>1. StreamInv(s) /\ NoSocket \notin kernel[s]
    BY Numbers DEF LifeInv, TypeOK
  <2>2. /\ socket'[s] = IF client[s] THEN NoSocket ELSE socket[s]
        /\ udp'[s] = IF client[s] THEN udp[s] ELSE NoSocket
        /\ ~client[s] => socket[s] = NoSocket
    BY <1>1, <2>1 DEF LifeInv, TypeOK, StreamInv, ClientInv
  <2>3. (JoinInv(s) /\ ClientInv(s))'
    BY <1>1, <1>2, <2>1, <2>2 DEF StreamInv, JoinInv, ClientInv
  <2>4. (RecvInv(s) /\ FrameInv(s))'
    BY <1>1, <1>2, <2>1, <2>2 DEF StreamInv, RecvInv, FrameInv
  <2>5. SocketInv(s)'
    BY <1>1, <1>2, <2>1, <2>2 DEF StreamInv, SocketInv, Swept
  <2>6. QED
    BY <2>3, <2>4, <2>5 DEF StreamInv
<1>7. QED
  BY <1>3, <1>4, <1>5, <1>6 DEF LifeInv

(* Stop goes past a thread that has ended. *)
LEMMA StopJoinsKeeps ==
  ASSUME LifeInv, NEW s \in Streams, StopJoins(s)
  PROVE  LifeInv'
<1> USE DEF tcp, sockets
<1>1. /\ call = <<"join", s>> /\ thread[s] = "none"
      /\ \/ call' = <<"join", s + 1>> /\ s + 1 \in Streams
         \/ call' = <<"end", 0>> /\ s = NStreams
      /\ state' = state /\ running' = running /\ useTcp' = useTcp
      /\ attempt' = attempt
      /\ UNCHANGED <<tcp, udp, thread, blocked, sockets, reachable>>
  <2>1. \/ s < NStreams /\ s + 1 \in Streams
        \/ ~(s < NStreams) /\ s = NStreams
    BY Numbers DEF Streams
  <2>2. \/ After("join", s) = <<"join", s + 1>> /\ s + 1 \in Streams
        \/ After("join", s) = <<"end", 0>> /\ s = NStreams
    BY <2>1 DEF After
  <2>3. QED
    BY <2>2 DEF StopJoins, Ended
<1>2. /\ call[1] = "join" /\ call[2] = s /\ call' # Idle
      /\ call'[1] \in {"join", "end"}
      /\ call'[1] = "join" => call'[2] = s + 1
      /\ call'[1] = "end" => s = NStreams
  BY <1>1 DEF Idle
<1>3. TypeOK'
  <2>1. call' \in Steps \X Streams \cup {<<"end", 0>>}
    BY <1>1 DEF Steps
  <2>2. QED
    BY <1>1, <2>1 DEF LifeInv, TypeOK, Steps
<1>4. ControlInv'
  BY <1>1, <1>2 DEF LifeInv, ControlInv
<1>5. ASSUME NEW i \in Streams
      PROVE  StreamInv(i)'
  <2>1. StreamInv(i) /\ Past(i) /\ Past(i)'
    BY <1>2 DEF LifeInv, Past
  <2>2. i < s \/ i = s \/ (i > s /\ s # NStreams /\ ~(i < s + 1))
    BY Numbers DEF Streams
  <2>3. i < s \/ i = s => thread[i] = "none"
    BY <1>1, <1>2, <2>1 DEF StreamInv, JoinInv
  <2>4. (JoinInv(i) /\ ClientInv(i))'
    BY <1>1, <1>2, <2>1, <2>2, <2>3 DEF StreamInv, JoinInv, ClientInv
  <2>5. (RecvInv(i) /\ FrameInv(i))'
    BY <1>1, <2>1 DEF StreamInv, RecvInv, FrameInv
  <2>6. SocketInv(i)'
    BY <1>1, <1>2, <2>1 DEF StreamInv, SocketInv, Swept
  <2>7. QED
    BY <2>4, <2>5, <2>6 DEF StreamInv
<1>6. QED
  BY <1>3, <1>4, <1>5 DEF LifeInv

(* Stop is done when it has waited for all of them. *)
LEMMA StopEndsKeeps ==
  ASSUME LifeInv, StopEnds
  PROVE  LifeInv'
<1> USE DEF tcp, sockets
<1>1. /\ call = <<"end", 0>> /\ call' = Idle /\ state' = "stopped"
      /\ running' = running /\ useTcp' = useTcp /\ attempt' = attempt
      /\ UNCHANGED <<tcp, udp, thread, blocked, sockets, reachable>>
  BY DEF StopEnds
<1>2. call[1] = "end" /\ call'[1] = "idle"
  BY <1>1 DEF Idle
<1>3. TypeOK'
  BY <1>1 DEF LifeInv, TypeOK
<1>4. ~running /\ state # "notInit" /\ ControlInv'
  BY <1>1, <1>2 DEF LifeInv, ControlInv
<1>5. ASSUME NEW s \in Streams
      PROVE  StreamInv(s)'
  <2>1. StreamInv(s) /\ Past(s) /\ ~Past(s)'
    BY <1>1, <1>2 DEF LifeInv, Past
  <2>2. /\ thread[s] = "none" /\ blocked[s] = NoSocket /\ midFrame[s] = {}
        /\ Swept(s)
    BY <1>2, <2>1 DEF StreamInv, JoinInv, RecvInv, FrameInv, SocketInv
  <2>3. (JoinInv(s) /\ ClientInv(s))'
    BY <1>1, <1>2, <1>4, <2>1, <2>2 DEF StreamInv, JoinInv, ClientInv
  <2>4. (RecvInv(s) /\ FrameInv(s))'
    BY <1>1, <2>1, <2>2 DEF RecvInv, FrameInv
  <2>5. SocketInv(s)'
    BY <1>1, <1>2, <2>1, <2>2 DEF StreamInv, SocketInv, Swept
  <2>6. QED
    BY <2>3, <2>4, <2>5 DEF StreamInv
<1>6. QED
  BY <1>3, <1>4, <1>5 DEF LifeInv

-----------------------------------------------------------------------------
(* The invariant *)

(* The sensor, and steps of others, disturb nothing the invariant is about. *)
LEMMA OutsideKeeps ==
  ASSUME LifeInv, SensorGone \/ SensorBack \/ UNCHANGED vars
  PROVE  LifeInv'
<1> USE DEF vars, control, tcp, sockets
<1>1. /\ SameControl
      /\ UNCHANGED <<tcp, udp, thread, blocked, kernel, midFrame, late>>
  BY DEF SensorGone, SensorBack, SameControl
<1>2. reachable' \in BOOLEAN /\ dead' \in [Streams -> SUBSET SocketIds]
  <2>1. ASSUME NEW s \in Streams
        PROVE  (kernel[s] \cup {blocked[s]}) \ {udp[s], NoSocket}
                 \subseteq SocketIds
    BY DEF LifeInv, TypeOK
  <2>2. CASE SensorGone
    BY <2>1, <2>2 DEF SensorGone
  <2>3. CASE SensorBack \/ UNCHANGED vars
    BY <2>3 DEF SensorBack, LifeInv, TypeOK
  <2>4. QED
    BY <2>2, <2>3
<1>3. TypeOK' /\ ControlInv'
  BY <1>1, <1>2 DEF LifeInv, TypeOK, ControlInv, SameControl
<1>4. ASSUME NEW s \in Streams
      PROVE  StreamInv(s)'
  <2>1. SameStream(s)
    BY <1>1 DEF SameStream
  <2>2. QED
    BY <1>1, <2>1, StreamKept DEF LifeInv
<1>5. QED
  BY <1>3, <1>4 DEF LifeInv

(* A receiver thread keeps the invariant. *)
LEMMA ThreadsKeep ==
  ASSUME LifeInv, NEW s \in Streams, ThreadActs(s)
  PROVE  LifeInv'
<1>1. TypeOK'
  BY ThreadTypes DEF LifeInv
<1>2. SameControl /\ \A i \in Streams : i # s => SameStream(i)
  BY ThreadLeaves DEF LifeInv
<1>3. ControlInv'
  BY <1>2 DEF LifeInv, ControlInv, SameControl
<1>4. StreamInv(s)'
  BY ThreadKeeps DEF LifeInv
<1>5. \A i \in Streams : i # s => StreamInv(i)'
  BY <1>2, StreamKept DEF LifeInv
<1>6. QED
  BY <1>1, <1>3, <1>4, <1>5 DEF LifeInv

(* The SDK begins with nothing open and no thread. *)
LEMMA InitInv == Init => LifeInv
<1> SUFFICES ASSUME Init PROVE LifeInv
  OBVIOUS
<1>1. TypeOK
  <2>1. 1 \in 1..MaxDelay
    BY LifecycleAssumption
  <2>2. QED
    BY <2>1 DEF Init, TypeOK
<1>2. ControlInv
  BY DEF Init, ControlInv, Idle
<1>3. ASSUME NEW s \in Streams
      PROVE  StreamInv(s)
  <2>1. ~Past(s)
    BY DEF Init, Past, Idle
  <2>2. QED
    BY <2>1 DEF Init, Idle, StreamInv, JoinInv, ClientInv, RecvInv, FrameInv,
         SocketInv, Swept
<1>4. QED
  BY <1>1, <1>2, <1>3 DEF LifeInv

(* Every step keeps the invariant. *)
LEMMA NextInv == LifeInv /\ [Next]_vars => LifeInv'
<1> SUFFICES ASSUME LifeInv, [Next]_vars PROVE LifeInv'
  OBVIOUS
<1>1. ASSUME NEW tr, InitBegins(tr) PROVE LifeInv'
  BY <1>1, InitBeginsKeeps
<1>2. CASE InitStep
  BY <1>2, InitOpensTcpKeeps, InitOpensUdpKeeps, InitFailsKeeps DEF InitStep
<1>3. CASE Start
  BY <1>3, StartKeeps
<1>4. CASE StopBegins
  BY <1>4, StopBeginsKeeps
<1>5. CASE StopStep
  BY <1>5, StopFlagsKeeps, StopCloseSocketKeeps, StopClearSocketKeeps,
     StopJoinsKeeps, StopEndsKeeps DEF StopStep
<1>6. ASSUME NEW s \in Streams, ThreadStep(s) \/ Frames(s) PROVE LifeInv'
  BY <1>6, ThreadsKeep DEF ThreadActs
<1>7. CASE SensorGone \/ SensorBack \/ UNCHANGED vars
  BY <1>7, OutsideKeeps
<1>8. QED
  BY <1>1, <1>2, <1>3, <1>4, <1>5, <1>6, <1>7 DEF Next

(* The inductive invariant, for any number of streams. *)
THEOREM LifeInvariant == Spec => []LifeInv
BY InitInv, NextInv, PTL DEF Spec

(* Every variable of Init, Stop and the receiver threads has its type: the *)
(* backoff stays within its cap, and Stop is at one place of one stream.   *)
THEOREM LifeTypeCorrect == Spec => []TypeOK
<1>1. LifeInv => TypeOK
  BY DEF LifeInv
<1>2. QED
  BY <1>1, LifeInvariant, PTL

(* When Stop has returned no receiver thread is left to run a callback,    *)
(* whatever each of the threads was in the middle of when it was called.   *)
THEOREM StopOutlivesThreads == Spec => []NoThreadOutlivesStop
<1>1. LifeInv => NoThreadOutlivesStop
  BY DEF LifeInv, StreamInv, JoinInv, NoThreadOutlivesStop
<1>2. QED
  BY <1>1, LifeInvariant, PTL

(* A receiver thread never reads a header in the middle of a frame: not    *)
(* after a frame that was too large or cut off, not when a recv() outlives *)
(* the close of its socket.                                                *)
THEOREM FramesAreReadFromTheirStart == Spec => []HeaderAtFrameStart
<1>1. LifeInv => HeaderAtFrameStart
  BY DEF LifeInv, StreamInv, FrameInv, HeaderAtFrameStart
<1>2. QED
  BY <1>1, LifeInvariant, PTL

(* What an Init that failed has opened is closed, on every stream. *)
THEOREM FailedInitReleases == Spec => []FailedInitLeavesNothing
<1>1. LifeInv => FailedInitLeavesNothing
  BY DEF LifeInv, StreamInv, SocketInv, FailedInitLeavesNothing
<1>2. QED
  BY <1>1, LifeInvariant, PTL

(* Stop leaves nothing open but the connection of a reconnect that was     *)
(* under way, and the UDP socket of a stream that has a TCP client.        *)
THEOREM StopClosesAllButThese == Spec => []StopClosesTheRest
<1>1. LifeInv => StopClosesTheRest
  BY DEF LifeInv, StreamInv, SocketInv, Swept, StopClosesTheRest
<1>2. QED
  BY <1>1, LifeInvariant, PTL
=============================================================================
