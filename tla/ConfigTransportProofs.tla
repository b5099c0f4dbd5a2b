----------------------- MODULE ConfigTransportProofs -----------------------
(***************************************************************************)
(* Proofs about ConfigTransport, for every set of callers and methods and  *)
(* every value of the bounds; at the end, about the two worlds that        *)
(* MCConfigTransport makes of it: an honest sensor, and a single thread.   *)
(***************************************************************************)
EXTENDS MCConfigTransport, TLAPS

-----------------------------------------------------------------------------
(* What the helpers of the actions do to the types. *)

(* The end of a call keeps the types of what it assigns. *)
LEMMA ReturnTypes ==
  ASSUME TypeOK, NEW c \in Callers, NEW ret \in Rets, Return(c, ret)
  PROVE  /\ mutex' \in Callers \cup {NoCaller}
         /\ pc' \in [Callers -> Holding \cup {"idle", "lock", "finish"}]
         /\ cur' \in [Callers -> Call]
<1>1. cur[c] \in Call
  BY DEF TypeOK
<1>2. [cur[c] EXCEPT !.ret = ret] \in Call
  BY <1>1 DEF Call
<1>3. cur' = [cur EXCEPT ![c] = [cur[c] EXCEPT !.ret = ret]]
  BY DEF Return
<1>4. cur' \in [Callers -> Call]
  BY <1>2, <1>3 DEF TypeOK
<1>5. QED
  BY <1>4 DEF TypeOK, Return, Holding

(* CloseLocked keeps the types. *)
LEMMA CloseTypes ==
  ASSUME TypeOK, CloseLocked
  PROVE  socket' \in 0..MaxConn /\ down' \in [Conns -> Seq(Part)]
BY TransportAssumption DEF TypeOK, CloseLocked, Discarded

(* A failure, which closes the socket, keeps the types. *)
LEMMA FailTypes ==
  ASSUME TypeOK, NEW c \in Callers, NEW ret \in Rets, Fail(c, ret)
  PROVE  /\ mutex' \in Callers \cup {NoCaller}
         /\ pc' \in [Callers -> Holding \cup {"idle", "lock", "finish"}]
         /\ cur' \in [Callers -> Call]
         /\ socket' \in 0..MaxConn
         /\ down' \in [Conns -> Seq(Part)]
<1>1. CloseLocked /\ Failure(c, ret)
  BY DEF Fail
<1>2. (IF IsRequest(c) /\ cur[c].probing THEN "transport" ELSE ret) \in Rets
  BY DEF Rets
<1>3. QED
  BY <1>1, <1>2, CloseTypes, ReturnTypes DEF Failure

(* ConnectLocked keeps the types, whether the sensor accepts or not. *)
LEMMA ConnectTypes ==
  ASSUME TypeOK, NEW c \in Callers, NEW b \in Call, ConnectLocked(c, b)
  PROVE  /\ mutex' \in Callers \cup {NoCaller}
         /\ pc' \in [Callers -> Holding \cup {"idle", "lock", "finish"}]
         /\ cur' \in [Callers -> Call]
         /\ socket' \in 0..MaxConn
         /\ session' \in 0..MaxSession
         /\ nconn' \in 0..MaxConn
         /\ peer' \in [Conns -> 0..MaxBoot]
         /\ down' \in [Conns -> Seq(Part)]
<1>1. down' \in [Conns -> Seq(Part)]
  BY DEF TypeOK, ConnectLocked, Discarded
<1>2. Probing(b) \in Call /\ [b EXCEPT !.ret = "transport"] \in Call
  BY DEF Call, Probing, Rets
<1>3. cur' \in [Callers -> Call]
  <2>1. \/ cur' = [cur EXCEPT ![c] = Probing(b)]
        \/ cur' = [cur EXCEPT ![c] = [b EXCEPT !.ret = "transport"]]
    BY DEF ConnectLocked
  <2>2. cur \in [Callers -> Call]
    BY DEF TypeOK
  <2>3. QED
    BY <1>2, <2>1, <2>2
<1>4. pc' \in [Callers -> Holding \cup {"idle", "lock", "finish"}]
  <2>1. \E step \in {"send", "finish"} : pc' = [pc EXCEPT ![c] = step]
    BY DEF ConnectLocked
  <2>2. pc \in [Callers -> Holding \cup {"idle", "lock", "finish"}]
    BY DEF TypeOK
  <2>3. QED
    BY <2>1, <2>2 DEF Holding
<1>5. peer' \in [Conns -> 0..MaxBoot]
  <2>1. peer' = peer \/ peer' = [peer EXCEPT ![nconn + 1] = boot]
    BY DEF ConnectLocked
  <2>2. peer \in [Conns -> 0..MaxBoot] /\ boot \in 0..MaxBoot
    BY TransportAssumption DEF TypeOK, Boots
  <2>3. QED
    BY <2>1, <2>2
<1>6. /\ mutex' \in Callers \cup {NoCaller}
      /\ socket' \in 0..MaxConn
      /\ session' \in 0..MaxSession
      /\ nconn' \in 0..MaxConn
  BY TransportAssumption DEF TypeOK, ConnectLocked
<1>7. QED
  BY <1>1, <1>3, <1>4, <1>5, <1>6

(* What an exchange sends is a frame. *)
LEMMA ExpectedTypes ==
  ASSUME TypeOK, NEW c \in Callers, NEW s \in 1..MaxSession
  PROVE  [Expected(c) EXCEPT !.session = s] \in Frame
<1>1. cur[c] \in Call
  BY DEF TypeOK
<1>2. QED
  BY <1>1, TransportAssumption DEF Expected, Frame, Call

(* The session id stays in range across its wrap. *)
LEMMA SessionTypes ==
  ASSUME TypeOK
  PROVE  NextSession \in 1..MaxSession
<1>1. session \in Nat /\ MaxSession \in Nat /\ session <= MaxSession
  BY TransportAssumption DEF TypeOK
<1>2. (session + 1) % (MaxSession + 1) \in 0..MaxSession
  BY <1>1
<1>3. QED
  BY <1>1, <1>2, TransportAssumption DEF NextSession

(* A thread inside an exchange has a socket. *)
LEMMA HolderHasSocket ==
  ASSUME TypeOK, LockInv, NEW c \in Callers, mutex = c
  PROVE  socket \in Conns
BY TransportAssumption DEF TypeOK, LockInv, Conns

(* What a connection carries, in both directions. *)
LEMMA StreamTypes ==
  ASSUME TypeOK, NEW n \in Conns
  PROVE  /\ up[n] \in Seq(Frame) /\ down[n] \in Seq(Part)
         /\ up[n] # <<>> => Head(up[n]) \in Frame /\ Tail(up[n]) \in Seq(Frame)
         /\ down[n] # <<>> => Head(down[n]) \in Part /\ Tail(down[n]) \in Seq(Part)
BY DEF TypeOK

-----------------------------------------------------------------------------
(* The types are kept by every step. *)

(* The initial state has the types. *)
LEMMA InitTypes == Init => TypeOK
<1> SUFFICES ASSUME Init PROVE TypeOK
  OBVIOUS
<1> USE TransportAssumption DEF Init
<1>1. cur \in [Callers -> Call]
  BY DEF NoCall, Call, Rets
<1>2. outcome \in [Calls -> Outcomes]
  BY DEF Outcomes
<1>3. taken \in [Calls -> [call : 0..MaxCall, e2eOk : BOOLEAN]]
  OBVIOUS
<1>4. lastResult \in [call : 0..MaxCall, e2eOk : BOOLEAN,
                     code : {"none", "sensor", "notSupported"}]
  BY DEF NoResult
<1>5. /\ up \in [Conns -> Seq(Frame)] /\ down \in [Conns -> Seq(Part)]
      /\ runs \in [Calls -> Seq(Generations)]
  OBVIOUS
<1>6. /\ boot \in Boots /\ bootGen \in [Boots -> Generations]
      /\ nconn \in 0..MaxConn /\ peer \in [Conns -> 0..MaxBoot]
      /\ session \in 0..MaxSession /\ socket \in 0..MaxConn
      /\ ncall \in 0..MaxCall
      /\ mutex \in Callers \cup {NoCaller}
      /\ pc \in [Callers -> Holding \cup {"idle", "lock", "finish"}]
  BY DEF Boots
<1>7. QED
  BY <1>1, <1>2, <1>3, <1>4, <1>5, <1>6 DEF TypeOK, Generations

(* Every step keeps them. *)
LEMMA TypeStep ==
  ASSUME TypeOK, LockInv, [Next]_vars
  PROVE  TypeOK'
<1>1. ASSUME NEW c \in Callers, NEW m \in Methods, NEW z \in Sizes,
             BeginRequest(c, m, z)
      PROVE  TypeOK'
  <2> ncall + 1 \in 0..MaxCall /\ ncall + 1 \in Calls
    BY <1>1, TransportAssumption DEF BeginRequest, TypeOK, Calls
  <2> DEFINE b == [NoCall EXCEPT !.id = ncall + 1, !.method = m, !.size = z]
  <2>1. b \in Call
    BY TransportAssumption DEF NoCall, Call, Rets
  <2>2. cur' = cur \/ cur' = [cur EXCEPT ![c] = b]
    BY <1>1 DEF BeginRequest
  <2> HIDE DEF b
  <2>3. [NoResult EXCEPT !.call = ncall + 1] \in
          [call : 0..MaxCall, e2eOk : BOOLEAN,
           code : {"none", "sensor", "notSupported"}]
    BY DEF NoResult
  <2>4. cur' \in [Callers -> Call]
    BY <2>1, <2>2 DEF TypeOK
  <2>5. ncall' \in 0..MaxCall
    BY <1>1 DEF BeginRequest
  <2>6. /\ pc' \in [Callers -> Holding \cup {"idle", "lock", "finish"}]
        /\ outcome' \in [Calls -> Outcomes]
        /\ lastResult' \in [call : 0..MaxCall, e2eOk : BOOLEAN,
                            code : {"none", "sensor", "notSupported"}]
    BY <1>1, <2>3 DEF BeginRequest, TypeOK, Outcomes
  <2>7. QED
    BY <1>1, <2>4, <2>6, <2>5 DEF BeginRequest, TypeOK, client, sensor
<1>2. ASSUME NEW c \in Callers, Refuse(c) PROVE TypeOK'
  <2>1. PICK ret \in Rets : Return(c, ret)
    BY <1>2 DEF Refuse, Rets
  <2>2. QED
    BY <1>2, <2>1, ReturnTypes DEF Refuse, EntersSendRequest, TypeOK, sensor
<1>3. ASSUME NEW c \in Callers, UseSocket(c) PROVE TypeOK'
  BY <1>3 DEF UseSocket, EntersSendRequest, TypeOK, sensor, Holding
<1>4. ASSUME NEW c \in Callers, Reopen(c) PROVE TypeOK'
  <2>1. cur[c] \in Call /\ ConnectLocked(c, cur[c])
    BY <1>4 DEF Reopen, TypeOK
  <2>2. QED
    BY <1>4, <2>1, ConnectTypes DEF Reopen, EntersSendRequest, TypeOK
<1>5. ASSUME NEW c \in Callers, Connect(c) PROVE TypeOK'
  <2>1. NoCall \in Call /\ ConnectLocked(c, NoCall)
    BY <1>5, TransportAssumption DEF Connect, NoCall, Call, Rets
  <2>2. QED
    BY <1>5, <2>1, ConnectTypes DEF Connect, TypeOK
<1>6. ASSUME NEW c \in Callers, Disconnect(c) PROVE TypeOK'
  BY <1>6, CloseTypes DEF Disconnect, TypeOK, calls
<1>7. ASSUME NEW c \in Callers, Send(c) PROVE TypeOK'
  <2>0. session' \in 1..MaxSession
    BY <1>7, SessionTypes DEF Send
  <2>1. session' \in 0..MaxSession
    BY <2>0, TransportAssumption
  <2>2. up' \in [Conns -> Seq(Frame)]
    <3> DEFINE f == [Expected(c) EXCEPT !.session = session']
    <3>1. f \in Frame
      BY <2>0, ExpectedTypes
    <3>2. socket \in Conns
      BY <1>7, HolderHasSocket DEF Send, At
    <3>3. up[socket] \in Seq(Frame) /\ Append(up[socket], f) \in Seq(Frame)
      BY <3>1, <3>2, StreamTypes
    <3> HIDE DEF f
    <3>4. [up EXCEPT ![socket] = Append(@, f)] \in [Conns -> Seq(Frame)]
      BY <3>3 DEF TypeOK
    <3>5. up' \in {up, [up EXCEPT ![socket] = Append(@, f)]}
      BY <1>7 DEF Send, f
    <3>6. QED
      BY <3>4, <3>5 DEF TypeOK
  <2>3. CASE Fail(c, "transport")
    BY <1>7, <2>1, <2>2, <2>3, FailTypes DEF Send, TypeOK, Rets
  <2>4. CASE pc' = [pc EXCEPT ![c] = "header"]
               /\ UNCHANGED <<mutex, socket, cur, down>>
    BY <1>7, <2>1, <2>2, <2>4 DEF Send, TypeOK, Holding
  <2>5. QED
    BY <1>7, <2>3, <2>4 DEF Send
<1>8. ASSUME NEW c \in Callers, RecvHeader(c) PROVE TypeOK'
  <2>1. CASE Fail(c, "protocol")
    BY <1>8, <2>1, FailTypes DEF RecvHeader, TypeOK, Rets
  <2>2. CASE /\ down' = [down EXCEPT ![socket] = Tail(@)]
             /\ pc' = [pc EXCEPT ![c] = "body"]
             /\ UNCHANGED <<mutex, socket, cur>>
    <3>1. down' \in [Conns -> Seq(Part)]
      BY <1>8, <2>2, StreamTypes DEF RecvHeader, TypeOK
    <3>2. QED
      BY <1>8, <2>2, <3>1 DEF RecvHeader, TypeOK, Holding
  <2>3. QED
    BY <1>8, <2>1, <2>2 DEF RecvHeader
<1>9. ASSUME NEW c \in Callers, RecvProbeBody(c) PROVE TypeOK'
  <2> DEFINE body == Head(down[socket]).body
  <2>1. CASE LegacyFound(c) /\ UNCHANGED lastE2eOk
    <3>1. PICK ret \in Rets : Return(c, ret)
      BY <2>1 DEF LegacyFound, Rets
    <3>2. QED
      BY <1>9, <2>1, <3>1, ReturnTypes, CloseTypes
      DEF RecvProbeBody, LegacyFound, TypeOK, Generations
  <2>2. CASE Fail(c, "protocol") /\ UNCHANGED <<generation, lastE2eOk>>
    BY <1>9, <2>2, FailTypes DEF RecvProbeBody, TypeOK, Rets
  <2>3. CASE /\ generation' = "v1.1"
             /\ lastE2eOk' = E2eVerdict(body)
             /\ down' = [down EXCEPT ![socket] = Tail(@)]
             /\ UNCHANGED socket
             /\ IF IsRequest(c)
                THEN /\ pc' = [pc EXCEPT ![c] = "send"]
                     /\ cur' = [cur EXCEPT ![c].probing = FALSE]
                     /\ UNCHANGED mutex
                ELSE Return(c, "ok")
    <3>1. down' \in [Conns -> Seq(Part)] /\ lastE2eOk' \in BOOLEAN
      BY <1>9, <2>3, StreamTypes DEF RecvProbeBody, TypeOK, E2eVerdict
    <3>2. cur[c] \in Call /\ [cur[c] EXCEPT !.probing = FALSE] \in Call
      <4>1. cur[c] \in Call
        BY DEF TypeOK
      <4>2. QED
        BY <4>1 DEF Call
    <3>3. /\ mutex' \in Callers \cup {NoCaller}
          /\ pc' \in [Callers -> Holding \cup {"idle", "lock", "finish"}]
          /\ cur' \in [Callers -> Call]
      <4>1. CASE IsRequest(c)
        <5>1. cur' = [cur EXCEPT ![c] = [cur[c] EXCEPT !.probing = FALSE]]
          BY <2>3, <4>1
        <5>2. cur' \in [Callers -> Call]
          BY <3>2, <5>1 DEF TypeOK
        <5>3. pc' = [pc EXCEPT ![c] = "send"] /\ mutex' = mutex
          BY <2>3, <4>1
        <5>4. QED
          BY <5>2, <5>3 DEF TypeOK, Holding
      <4>2. CASE ~IsRequest(c)
        BY <2>3, <4>2, ReturnTypes DEF Rets
      <4>3. QED
        BY <4>1, <4>2
    <3>4. QED
      BY <1>9, <2>3, <3>1, <3>3 DEF RecvProbeBody, TypeOK, Generations
  <2>4. QED
    BY <1>9, <2>1, <2>2, <2>3 DEF RecvProbeBody
<1>10. ASSUME NEW c \in Callers, RecvBody(c) PROVE TypeOK'
  <2> DEFINE part == Head(down[socket])
  <2>1. CASE Fail(c, "protocol") /\ UNCHANGED <<lastE2eOk, taken>>
    BY <1>10, <2>1, FailTypes DEF RecvBody, TypeOK, Rets
  <2>2. CASE /\ lastE2eOk' = E2eVerdict(part.body)
             /\ taken' = [taken EXCEPT ![cur[c].id] =
                            [call  |-> part.frame.call,
                             e2eOk |-> part.body = "good"]]
             /\ down' = [down EXCEPT ![socket] = Tail(@)]
             /\ UNCHANGED socket
             /\ Return(c, IF part.body \in {"good", "badE2e"}
                          THEN "ok" ELSE "unparsable")
    <3>1. part \in Part /\ down' \in [Conns -> Seq(Part)]
      BY <1>10, <2>2, StreamTypes, HolderHasSocket DEF RecvBody, At, TypeOK
    <3>2. taken' \in [Calls -> [call : 0..MaxCall, e2eOk : BOOLEAN]]
      <4>1. [call |-> part.frame.call, e2eOk |-> part.body = "good"]
              \in [call : 0..MaxCall, e2eOk : BOOLEAN]
        BY <3>1 DEF Part, Frame
      <4>2. QED
        BY <2>2, <4>1 DEF TypeOK
    <3>3. PICK ret \in Rets : Return(c, ret)
      BY <2>2 DEF Rets
    <3>4. lastE2eOk' \in BOOLEAN
      BY <2>2 DEF E2eVerdict
    <3>5. QED
      BY <1>10, <2>2, <3>1, <3>2, <3>3, <3>4, ReturnTypes DEF RecvBody, TypeOK
  <2>3. QED
    BY <1>10, <2>1, <2>2 DEF RecvBody
<1>11. ASSUME NEW c \in Callers, RecvFails(c) PROVE TypeOK'
  <2>1. PICK ret \in Rets : Fail(c, ret)
    BY <1>11 DEF RecvFails, RecvErrors, Rets
  <2>2. QED
    BY <1>11, <2>1, FailTypes DEF RecvFails, TypeOK
<1>12. ASSUME NEW c \in Callers, Finish(c) PROVE TypeOK'
  <2>1. NoCall \in Call
    BY TransportAssumption DEF NoCall, Call, Rets
  <2>2. outcome' \in [Calls -> Outcomes]
    BY <1>12 DEF Finish, TypeOK, Outcomes, ErrorFromTransport
  <2>3. cur[c].id \in 0..MaxCall
    BY DEF TypeOK, Call
  <2>4. lastResult' \in [call : 0..MaxCall, e2eOk : BOOLEAN,
                         code : {"none", "sensor", "notSupported"}]
    <3>1. CASE ~IsRequest(c)
      BY <1>12, <3>1 DEF Finish, TypeOK
    <3>2. CASE IsRequest(c)
      <4> DEFINE code == CASE cur[c].ret = "ok"     -> "sensor"
                           [] cur[c].ret = "legacy" -> "notSupported"
                           [] OTHER                 -> "none"
                 ok == cur[c].ret \in {"ok", "unparsable"} /\ lastE2eOk
      <4>1. code \in {"none", "sensor", "notSupported"} /\ ok \in BOOLEAN
        OBVIOUS
      <4>2. lastResult' = [call |-> cur[c].id, code |-> code, e2eOk |-> ok]
        BY <1>12, <3>2 DEF Finish
      <4> HIDE DEF code, ok
      <4>3. QED
        BY <2>3, <4>1, <4>2
    <3>3. QED
      BY <3>1, <3>2
  <2>5. QED
    BY <1>12, <2>1, <2>2, <2>4 DEF Finish, TypeOK, client, sensor
<1>13. ASSUME NEW n \in Conns, NEW b \in AnyBody, NEW e \in Echoes,
              SensorAnswers(n, b, e)
       PROVE  TypeOK'
  <2> DEFINE f == Head(up[n])
             part == [kind |-> "header", frame |-> f, echo |-> e, body |-> b]
  <2>1. f \in Frame /\ Tail(up[n]) \in Seq(Frame)
    BY <1>13, StreamTypes DEF SensorAnswers
  <2>2. part \in Part /\ [part EXCEPT !.kind = "body"] \in Part
    BY <2>1, TransportAssumption DEF Part
  <2>3. down[n] \o <<part, [part EXCEPT !.kind = "body"]>> \in Seq(Part)
    BY <2>2 DEF TypeOK
  <2>4. down' \in [Conns -> Seq(Part)]
    BY <1>13, <2>3 DEF SensorAnswers, TypeOK
  <2>5. runs' \in [Calls -> Seq(Generations)]
    <3>1. bootGen[boot] \in Generations
      BY DEF TypeOK
    <3>2. QED
      <4>1. CASE f.probing
        BY <1>13, <4>1 DEF SensorAnswers, TypeOK
      <4>2. CASE ~f.probing
        <5>1. runs' = [runs EXCEPT ![f.call] = Append(@, bootGen[boot])]
          BY <1>13, <4>2 DEF SensorAnswers
        <5>2. CASE f.call \in Calls
          <6>1. Append(runs[f.call], bootGen[boot]) \in Seq(Generations)
            BY <3>1, <5>2 DEF TypeOK
          <6>2. QED
            BY <5>1, <6>1 DEF TypeOK
        <5>3. CASE f.call \notin Calls
          BY <5>1, <5>3 DEF TypeOK
        <5>4. QED
          BY <5>2, <5>3
      <4>3. QED
        BY <4>1, <4>2
  <2>6. QED
    BY <1>13, <2>1, <2>4, <2>5 DEF SensorAnswers, TypeOK, client, calls
<1>14. ASSUME NEW n \in Conns, NEW k \in 0..2, ConnectionLost(n, k)
       PROVE  TypeOK'
  <2>1. down[n] \in Seq(Part) /\ k \in Nat /\ k <= Len(down[n])
    BY <1>14 DEF ConnectionLost, TypeOK
  <2>2. SubSeq(down[n], 1, k) \in Seq(Part)
    BY <2>1
  <2>3. QED
    BY <1>14, <2>2, TransportAssumption
    DEF ConnectionLost, TypeOK, client, calls
<1>15. ASSUME SensorReboots PROVE TypeOK'
  BY <1>15, TransportAssumption
  DEF SensorReboots, TypeOK, client, calls, Boots
<1>16. CASE UNCHANGED vars
  BY <1>16 DEF vars, client, calls, sensor, TypeOK
<1>17. QED
  BY <1>1, <1>2, <1>3, <1>4, <1>5, <1>6, <1>7, <1>8, <1>9, <1>10, <1>11,
     <1>12, <1>13, <1>14, <1>15, <1>16
  DEF Next, ThreadStep, Application, Sensor

-----------------------------------------------------------------------------
(* The mutex and the socket. *)

(* Only a thread inside an exchange holds the mutex, with a socket. *)
LEMMA LockStep ==
  ASSUME TypeOK, LockInv, [Next]_vars
  PROVE  LockInv'
<1> USE TransportAssumption DEF TypeOK, LockInv, Holding
<1>1. ASSUME NEW c \in Callers, NEW m \in Methods, NEW z \in Sizes,
             BeginRequest(c, m, z)
      PROVE  LockInv'
  BY <1>1 DEF BeginRequest, client, sensor
<1>2. ASSUME NEW c \in Callers, Refuse(c) PROVE LockInv'
  BY <1>2 DEF Refuse, EntersSendRequest, Return, sensor
<1>3. ASSUME NEW c \in Callers, UseSocket(c) PROVE LockInv'
  BY <1>3 DEF UseSocket, EntersSendRequest, sensor
<1>4. ASSUME NEW c \in Callers, NEW b, mutex = NoCaller,
             ConnectLocked(c, b)
      PROVE  LockInv'
  <2>1. ASSUME NEW d \in Callers PROVE mutex = d <=> pc[d] \in Holding
    OBVIOUS
  <2>2. CASE /\ nconn' = nconn + 1 /\ socket' = nconn + 1
             /\ peer' = [peer EXCEPT ![nconn + 1] = boot]
             /\ mutex' = c /\ pc' = [pc EXCEPT ![c] = "send"]
    <3>1. \A d \in Callers : mutex' = d <=> pc'[d] \in Holding
      BY <1>4, <2>1, <2>2
    <3>2. mutex' # NoCaller => socket' # 0
      BY <2>2
    <3>3. socket' <= nconn'
      BY <2>2
    <3>4. \A n \in Conns : n > nconn' => peer'[n] = 0
      BY <2>2 DEF Conns
    <3>5. QED
      BY <3>1, <3>2, <3>3, <3>4
  <2>3. CASE /\ socket' = 0 /\ mutex' = NoCaller
             /\ pc' = [pc EXCEPT ![c] = "finish"] /\ UNCHANGED <<nconn, peer>>
    <3>1. \A d \in Callers : mutex' = d <=> pc'[d] \in Holding
      BY <1>4, <2>1, <2>3
    <3>2. QED
      BY <2>3, <3>1
  <2>4. QED
    BY <1>4, <2>2, <2>3 DEF ConnectLocked
<1>5. ASSUME NEW c \in Callers, Reopen(c) PROVE LockInv'
  BY <1>4, <1>5 DEF Reopen, EntersSendRequest
<1>6. ASSUME NEW c \in Callers, Connect(c) PROVE LockInv'
  BY <1>4, <1>6 DEF Connect
<1>7. ASSUME NEW c \in Callers, Disconnect(c) PROVE LockInv'
  BY <1>7 DEF Disconnect, CloseLocked, calls
<1>8. ASSUME NEW c \in Callers, NEW ret, mutex = c, Return(c, ret),
             socket' \in {0, socket}, UNCHANGED <<nconn, peer>>
      PROVE  LockInv'
  BY <1>8 DEF Return
<1>9. ASSUME NEW c \in Callers, NEW ret, mutex = c, Fail(c, ret),
             UNCHANGED <<nconn, peer>>
      PROVE  LockInv'
  BY <1>8, <1>9 DEF Fail, Failure, CloseLocked
<1>10. ASSUME NEW c \in Callers, Send(c) PROVE LockInv'
  <2>1. CASE Fail(c, "transport")
    BY <1>9, <1>10, <2>1 DEF Send, At
  <2>2. CASE pc' = [pc EXCEPT ![c] = "header"] /\ UNCHANGED <<mutex, socket>>
    BY <1>10, <2>2 DEF Send, At
  <2>3. QED
    BY <1>10, <2>1, <2>2 DEF Send
<1>11. ASSUME NEW c \in Callers, RecvHeader(c) PROVE LockInv'
  <2>1. CASE Fail(c, "protocol")
    BY <1>9, <1>11, <2>1 DEF RecvHeader, At
  <2>2. CASE pc' = [pc EXCEPT ![c] = "body"] /\ UNCHANGED <<mutex, socket>>
    BY <1>11, <2>2 DEF RecvHeader, At
  <2>3. QED
    BY <1>11, <2>1, <2>2 DEF RecvHeader
<1>12. ASSUME NEW c \in Callers, RecvProbeBody(c) PROVE LockInv'
  <2>1. CASE LegacyFound(c)
    BY <1>8, <1>12, <2>1 DEF RecvProbeBody, LegacyFound, CloseLocked, At
  <2>2. CASE Fail(c, "protocol")
    BY <1>9, <1>12, <2>2 DEF RecvProbeBody, At
  <2>3. CASE /\ UNCHANGED socket
             /\ IF IsRequest(c)
                THEN pc' = [pc EXCEPT ![c] = "send"] /\ UNCHANGED mutex
                ELSE Return(c, "ok")
    <3>1. CASE IsRequest(c)
      BY <1>12, <2>3, <3>1 DEF RecvProbeBody, At
    <3>2. CASE ~IsRequest(c)
      BY <1>8, <1>12, <2>3, <3>2 DEF RecvProbeBody, At
    <3>3. QED
      BY <3>1, <3>2
  <2>4. QED
    BY <1>12, <2>1, <2>2, <2>3 DEF RecvProbeBody
<1>13. ASSUME NEW c \in Callers, RecvBody(c) PROVE LockInv'
  <2>1. CASE Fail(c, "protocol")
    BY <1>9, <1>13, <2>1 DEF RecvBody, At
  <2>2. ASSUME NEW ret, Return(c, ret), UNCHANGED socket
        PROVE  LockInv'
    BY <1>8, <1>13, <2>2 DEF RecvBody, At
  <2>3. QED
    BY <1>13, <2>1, <2>2 DEF RecvBody
<1>14. ASSUME NEW c \in Callers, RecvFails(c) PROVE LockInv'
  BY <1>9, <1>14 DEF RecvFails, At
<1>15. ASSUME NEW c \in Callers, Finish(c) PROVE LockInv'
  BY <1>15 DEF Finish, client, sensor
<1>16. ASSUME NEW n \in Conns, NEW b \in AnyBody, NEW e \in Echoes,
              SensorAnswers(n, b, e)
       PROVE  LockInv'
  BY <1>16 DEF SensorAnswers, client, calls
<1>17. ASSUME NEW n \in Conns, NEW k \in 0..2, ConnectionLost(n, k)
       PROVE  LockInv'
  BY <1>17 DEF ConnectionLost, client, calls
<1>18. ASSUME SensorReboots PROVE LockInv'
  BY <1>18 DEF SensorReboots, client, calls
<1>19. CASE UNCHANGED vars
  BY <1>19 DEF vars, client, calls, sensor
<1>20. QED
  BY <1>1, <1>2, <1>3, <1>5, <1>6, <1>7, <1>10, <1>11, <1>12, <1>13, <1>14,
     <1>15, <1>16, <1>17, <1>18, <1>19
  DEF Next, ThreadStep, Application, Sensor

-----------------------------------------------------------------------------
(* The type invariant: every variable keeps to its domain, whatever the    *)
(* threads, the network and the sensor do.  It needs LockInv, because a    *)
(* thread reads from a socket only while it holds one.                     *)
THEOREM TypeCorrect == Spec => []TypeOK
<1>1. Init => TypeOK /\ LockInv
  BY InitTypes, TransportAssumption DEF Init, LockInv, Holding
<1>2. TypeOK /\ LockInv /\ [Next]_vars => TypeOK' /\ LockInv'
  BY TypeStep, LockStep
<1>3. QED
  BY <1>1, <1>2, PTL DEF Spec

-----------------------------------------------------------------------------
(* Frames: who may still run them. *)

(* A new connection carries no frame. *)
LEMMA ConnectFrames ==
  ASSUME TypeOK, LockInv, FrameInv, NEW c \in Callers, NEW b,
         ConnectLocked(c, b), UNCHANGED <<boot, bootGen, up>>
  PROVE  FrameInv'
<1> USE TransportAssumption DEF TypeOK, LockInv, FrameInv, Conns
<1>1. CASE UNCHANGED <<nconn, peer>>
  BY <1>1 DEF ConnectLocked, Discarded
<1>2. CASE /\ nconn < MaxConn
           /\ nconn' = nconn + 1
           /\ peer' = [peer EXCEPT ![nconn + 1] = boot]
  <2>1. nconn + 1 \in Conns /\ boot # 0
    BY <1>2 DEF Boots
  <2>2. up[nconn + 1] = <<>>
    BY <2>1
  <2>3. ASSUME NEW n \in Conns
        PROVE  /\ peer'[n] # boot' => up'[n] = <<>>
               /\ n > nconn' => down'[n] = <<>>
               /\ \A i \in 1..Len(up'[n]) :
                    up'[n][i].probing \/ bootGen'[peer'[n]] = "v1.1"
    <3>1. CASE n = nconn + 1
      <4>1. up'[n] = <<>>
        BY <2>2, <3>1
      <4>2. peer'[n] = boot'
        BY <1>2, <2>1, <3>1
      <4>3. ~(n > nconn')
        BY <1>2, <3>1
      <4>4. Len(up'[n]) = 0
        BY <4>1
      <4>5. QED
        BY <4>2, <4>3, <4>4
    <3>2. CASE n # nconn + 1
      BY <1>2, <3>2 DEF ConnectLocked, Discarded
    <3>3. QED
      BY <3>1, <3>2
  <2>4. QED
    BY <2>3
<1>3. QED
  BY <1>1, <1>2 DEF ConnectLocked

(* Only the sensor's current boot has frames to run. *)
LEMMA FrameStep ==
  ASSUME TypeOK, LockInv, FrameInv, ProbeInv, [Next]_vars
  PROVE  FrameInv'
<1>1. ASSUME UNCHANGED <<up, peer, boot, bootGen, nconn>>,
             \A n \in Conns : \/ n = socket
                              \/ down'[n] \in {down[n], <<>>}
      PROVE  FrameInv'
  <2>1. socket <= nconn
    BY DEF LockInv
  <2>2. ASSUME NEW n \in Conns, n > nconn PROVE down'[n] = <<>>
    BY <1>1, <2>1, <2>2 DEF FrameInv, TypeOK, Conns
  <2>3. QED
    BY <1>1, <2>2 DEF FrameInv
<1>2. ASSUME CloseLocked, UNCHANGED <<up, peer, boot, bootGen, nconn>>
      PROVE  FrameInv'
  BY <1>1, <1>2 DEF CloseLocked, Discarded
<1>3. ASSUME NEW c \in Callers, NEW ret, Fail(c, ret),
             UNCHANGED <<up, peer, boot, bootGen, nconn>>
      PROVE  FrameInv'
  BY <1>2, <1>3 DEF Fail
<1>4. ASSUME NEW c \in Callers, mutex = c,
             down' = [down EXCEPT ![socket] = Tail(@)],
             UNCHANGED <<up, peer, boot, bootGen, nconn>>
      PROVE  FrameInv'
  BY <1>1, <1>4 DEF TypeOK
<1>5. ASSUME NEW c \in Callers, NEW m \in Methods, NEW z \in Sizes,
             BeginRequest(c, m, z)
      PROVE  FrameInv'
  BY <1>1, <1>5 DEF BeginRequest, sensor
<1>6. ASSUME NEW c \in Callers, Refuse(c) \/ UseSocket(c) \/ Finish(c)
      PROVE  FrameInv'
  BY <1>1, <1>6 DEF Refuse, UseSocket, Finish, sensor
<1>7. ASSUME NEW c \in Callers, Reopen(c) \/ Connect(c) PROVE FrameInv'
  BY <1>7, ConnectFrames DEF Reopen, Connect
<1>8. ASSUME NEW c \in Callers, Disconnect(c) PROVE FrameInv'
  BY <1>2, <1>8 DEF Disconnect
<1>9. ASSUME NEW c \in Callers, Send(c) PROVE FrameInv'
  <2>1. CASE Fail(c, "transport") /\ UNCHANGED up
    BY <1>3, <1>9, <2>1 DEF Send
  <2>2. CASE peer[socket] # boot /\ UNCHANGED <<up, down>>
    BY <1>1, <1>9, <2>2 DEF Send
  <2>3. CASE /\ peer[socket] = boot
             /\ up' = [up EXCEPT ![socket] =
                         Append(@, [Expected(c) EXCEPT !.session = session'])]
             /\ UNCHANGED <<cur, down>>
    <3> DEFINE f == [Expected(c) EXCEPT !.session = session']
    <3>1. socket \in Conns /\ socket # 0 /\ mutex = c
      BY <1>9, HolderHasSocket, TransportAssumption DEF Send, At, Conns
    <3>2. up[socket] \in Seq(Frame)
      BY <3>1 DEF TypeOK
    <3>3. f.probing \/ bootGen[peer[socket]] = "v1.1"
      <4>1. f.probing = cur[c].probing
        BY DEF Expected
      <4>2. ~cur[c].probing => \A d \in Callers : mutex = d => ~cur[d].probing
        BY <3>1
      <4>3. peer[socket] # 0
        BY <2>3, TransportAssumption DEF TypeOK, Boots
      <4>4. QED
        BY <3>1, <4>1, <4>2, <4>3 DEF ProbeInv, PeerIsCurrent
    <3> HIDE DEF f
    <3>4. up' = [up EXCEPT ![socket] = Append(up[socket], f)]
      BY <2>3 DEF f
    <3>5. ASSUME NEW n \in Conns, NEW i \in 1..Len(up'[n])
          PROVE  up'[n][i].probing \/ bootGen[peer[n]] = "v1.1"
      <4>1. CASE n # socket
        BY <3>4, <3>5, <4>1 DEF FrameInv, TypeOK
      <4>2. CASE n = socket
        <5>1. up'[n] = Append(up[socket], f)
          BY <3>1, <3>4, <4>2 DEF TypeOK
        <5>2. Len(up'[n]) = Len(up[socket]) + 1
          BY <3>2, <5>1
        <5>3. CASE i = Len(up[socket]) + 1
          BY <3>2, <3>3, <4>2, <5>1, <5>3
        <5>4. CASE i \in 1..Len(up[socket])
          <6>1. up'[n][i] = up[socket][i]
            BY <3>2, <5>1, <5>4
          <6>2. QED
            BY <3>1, <4>2, <5>4, <6>1 DEF FrameInv
        <5>5. QED
          BY <3>2, <3>5, <5>2, <5>3, <5>4
      <4>3. QED
        BY <4>1, <4>2
    <3>6. UNCHANGED <<peer, boot, bootGen, nconn, down>>
      BY <1>9, <2>3 DEF Send
    <3>7. QED
      BY <2>3, <3>1, <3>4, <3>5, <3>6 DEF FrameInv, TypeOK
  <2>4. QED
    BY <1>9, <2>1, <2>2, <2>3 DEF Send
<1>10. ASSUME NEW c \in Callers, RecvHeader(c) PROVE FrameInv'
  BY <1>3, <1>4, <1>10 DEF RecvHeader, At
<1>11. ASSUME NEW c \in Callers, RecvProbeBody(c) PROVE FrameInv'
  BY <1>2, <1>3, <1>4, <1>11 DEF RecvProbeBody, LegacyFound, At
<1>12. ASSUME NEW c \in Callers, RecvBody(c) PROVE FrameInv'
  BY <1>3, <1>4, <1>12 DEF RecvBody, At
<1>13. ASSUME NEW c \in Callers, RecvFails(c) PROVE FrameInv'
  BY <1>3, <1>13 DEF RecvFails
<1>14. ASSUME NEW n \in Conns, NEW b \in AnyBody, NEW e \in Echoes,
              SensorAnswers(n, b, e)
       PROVE  FrameInv'
  <2>1. up[n] \in Seq(Frame) /\ up[n] # <<>> /\ peer[n] = boot
    BY <1>14 DEF SensorAnswers, TypeOK
  <2>2. /\ up' = [up EXCEPT ![n] = Tail(up[n])]
        /\ UNCHANGED <<peer, boot, bootGen, nconn>>
        /\ \A k \in Conns : k # n => down'[k] = down[k]
        /\ n <= nconn
    <3>1. boot # 0
      BY TransportAssumption DEF TypeOK, Boots
    <3>2. QED
      BY <1>14, <2>1, <3>1 DEF SensorAnswers, TypeOK, LockInv, Conns
  <2>3. \A i \in 1..Len(Tail(up[n])) : Tail(up[n])[i].probing
                                     \/ bootGen[peer[n]] = "v1.1"
    <3>1. ASSUME NEW i \in 1..Len(Tail(up[n]))
          PROVE  Tail(up[n])[i] = up[n][i + 1] /\ i + 1 \in 1..Len(up[n])
      BY <2>1, <3>1
    <3>2. QED
      BY <3>1 DEF FrameInv
  <2>4. ASSUME NEW k \in Conns
        PROVE  /\ peer'[k] # boot' => up'[k] = <<>>
               /\ k > nconn' => down'[k] = <<>>
               /\ \A i \in 1..Len(up'[k]) :
                    up'[k][i].probing \/ bootGen'[peer'[k]] = "v1.1"
    <3>1. CASE k = n
      BY <2>1, <2>2, <2>3, <3>1 DEF TypeOK, Conns
    <3>2. CASE k # n
      BY <2>2, <3>2 DEF FrameInv, TypeOK
    <3>3. QED
      BY <3>1, <3>2
  <2>5. QED
    BY <2>4 DEF FrameInv
<1>15. ASSUME NEW n \in Conns, NEW k \in 0..2, ConnectionLost(n, k)
       PROVE  FrameInv'
  <2>1. down[n] = <<>> => SubSeq(down[n], 1, k) = <<>>
    BY <1>15 DEF ConnectionLost
  <2>2. ASSUME NEW j \in Conns
        PROVE  /\ peer'[j] # boot' => up'[j] = <<>>
               /\ j > nconn' => down'[j] = <<>>
               /\ \A i \in 1..Len(up'[j]) :
                    up'[j][i].probing \/ bootGen'[peer'[j]] = "v1.1"
    BY <1>15, <2>1 DEF ConnectionLost, FrameInv, TypeOK
  <2>3. QED
    BY <2>2 DEF FrameInv
<1>16. ASSUME SensorReboots PROVE FrameInv'
  BY <1>16 DEF SensorReboots, FrameInv, TypeOK
<1>17. CASE UNCHANGED vars
  BY <1>1, <1>17 DEF vars, sensor
<1>18. QED
  BY <1>5, <1>6, <1>7, <1>8, <1>9, <1>10, <1>11, <1>12, <1>13, <1>14, <1>15,
     <1>16, <1>17
  DEF Next, ThreadStep, Application, Sensor

-----------------------------------------------------------------------------
(* Probes: what is known of the sensor behind an open socket. *)

(* An open socket is a connection. *)
LEMMA SocketIsConn ==
  ASSUME TypeOK, socket # 0
  PROVE  socket \in Conns /\ socket \in Int
BY TransportAssumption DEF TypeOK, Conns

(* The head and the tail of a sequence of one element. *)
LEMMA HeadOfOne ==
  ASSUME NEW S, NEW s \in Seq(S), s # <<>>, Len(s) <= 1
  PROVE  Len(s) = 1 /\ Head(s) = s[1] /\ Tail(s) = <<>>
<1>1. Len(s) \in Nat /\ Len(s) # 0
  OBVIOUS
<1>2. Len(s) = 1
  BY <1>1
<1>3. Head(s) = s[1]
  OBVIOUS
<1>4. Tail(s) \in Seq(S) /\ Len(Tail(s)) = 0
  BY <1>2
<1>5. Tail(s) = <<>>
  BY <1>4
<1>6. QED
  BY <1>2, <1>3, <1>5

(* A new connection is inside its probe. *)
LEMMA ConnectProbes ==
  ASSUME TypeOK, NEW c \in Callers, NEW b \in Call, ConnectLocked(c, b)
  PROVE  ProbeInv'
<1>1. CASE socket' = 0
  BY <1>1 DEF ProbeInv
<1>2. CASE mutex' = c /\ cur' = [cur EXCEPT ![c] = Probing(b)]
  <2>1. Probing(b).probing
    BY DEF Probing, Call
  <2>2. cur'[c].probing
    BY <1>2, <2>1 DEF TypeOK
  <2>3. QED
    BY <1>2, <2>2 DEF ProbeInv
<1>3. QED
  BY <1>1, <1>2 DEF ConnectLocked

(* Outside a probe an open socket has been probed. *)
LEMMA ProbeStep ==
  ASSUME TypeOK, LockInv, ProbeInv, StreamInv, [Next]_vars
  PROVE  ProbeInv'
<1>1. ASSUME UNCHANGED <<socket, generation, peer, bootGen>>,
             \/ mutex = NoCaller
             \/ \E c \in Callers : /\ mutex = c
                                   /\ \/ ~cur[c].probing
                                      \/ mutex' = c /\ cur'[c] = cur[c]
      PROVE  ProbeInv'
  BY <1>1, TransportAssumption DEF ProbeInv, PeerIsCurrent
<1>2. CASE socket' = 0
  BY <1>2 DEF ProbeInv
<1>3. ASSUME NEW c \in Callers, NEW ret, Fail(c, ret) PROVE ProbeInv'
  BY <1>2, <1>3 DEF Fail, CloseLocked
<1>4. ASSUME NEW c \in Callers, NEW m \in Methods, NEW z \in Sizes,
             BeginRequest(c, m, z)
      PROVE  ProbeInv'
  <2>1. mutex # c
    BY <1>4 DEF BeginRequest, LockInv, Holding
  <2>2. \A d \in Callers : d # c => cur'[d] = cur[d]
    BY <1>4 DEF BeginRequest, TypeOK
  <2>3. QED
    BY <1>1, <1>4, <2>1, <2>2 DEF BeginRequest, client, sensor, TypeOK
<1>5. ASSUME NEW c \in Callers, Refuse(c) \/ UseSocket(c) PROVE ProbeInv'
  BY <1>1, <1>5 DEF Refuse, UseSocket, EntersSendRequest, sensor
<1>6. ASSUME NEW c \in Callers, Reopen(c) PROVE ProbeInv'
  BY <1>6, ConnectProbes DEF Reopen, TypeOK
<1>7. ASSUME NEW c \in Callers, Connect(c) PROVE ProbeInv'
  <2>1. NoCall \in Call
    BY TransportAssumption DEF NoCall, Call, Rets
  <2>2. QED
    BY <1>7, <2>1, ConnectProbes DEF Connect
<1>8. ASSUME NEW c \in Callers, Disconnect(c) PROVE ProbeInv'
  BY <1>2, <1>8 DEF Disconnect, CloseLocked
<1>9. ASSUME NEW c \in Callers, Send(c) PROVE ProbeInv'
  BY <1>1, <1>3, <1>9 DEF Send, At
<1>10. ASSUME NEW c \in Callers, RecvHeader(c) PROVE ProbeInv'
  BY <1>1, <1>3, <1>10 DEF RecvHeader, At
<1>11. ASSUME NEW c \in Callers, RecvProbeBody(c) PROVE ProbeInv'
  <2>1. CASE LegacyFound(c) \/ Fail(c, "protocol")
    BY <1>2, <1>3, <2>1 DEF LegacyFound, CloseLocked
  <2>2. CASE /\ Head(down[socket]).body \in {"good", "badE2e", "noJson"}
             /\ generation' = "v1.1"
             /\ UNCHANGED socket
    <3>1. socket # 0 /\ At(c, "body") /\ down[socket] # <<>>
      BY <1>11, TransportAssumption DEF RecvProbeBody, At, LockInv, TypeOK
    <3>2. down[socket] \in Seq(Part) /\ Len(down[socket]) <= 1
          /\ (Len(down[socket]) = 1 => BodyPart(down[socket][1], c))
      BY <3>1, SocketIsConn DEF StreamInv, TypeOK
    <3>3. BodyPart(Head(down[socket]), c)
      BY <3>1, <3>2, HeadOfOne
    <3>4. PeerIsCurrent
      BY <2>2, <3>3 DEF BodyPart
    <3>5. QED
      BY <1>11, <2>2, <3>4 DEF RecvProbeBody, ProbeInv, PeerIsCurrent
  <2>3. QED
    BY <1>11, <2>1, <2>2 DEF RecvProbeBody
<1>12. ASSUME NEW c \in Callers, RecvBody(c) PROVE ProbeInv'
  BY <1>1, <1>3, <1>12 DEF RecvBody, At
<1>13. ASSUME NEW c \in Callers, RecvFails(c) PROVE ProbeInv'
  BY <1>3, <1>13 DEF RecvFails
<1>14. ASSUME NEW c \in Callers, Finish(c) PROVE ProbeInv'
  <2>1. mutex # c
    BY <1>14 DEF Finish, LockInv, Holding
  <2>2. \A d \in Callers : d # c => cur'[d] = cur[d]
    BY <1>14 DEF Finish, TypeOK
  <2>3. QED
    BY <1>1, <1>14, <2>1, <2>2 DEF Finish, client, sensor, TypeOK
<1>15. ASSUME UNCHANGED <<client, calls>> PROVE
              \/ mutex = NoCaller
              \/ \E c \in Callers : mutex = c /\ mutex' = c /\ cur'[c] = cur[c]
  BY <1>15 DEF client, calls, TypeOK
<1>16. ASSUME NEW n \in Conns, NEW b \in AnyBody, NEW e \in Echoes,
              SensorAnswers(n, b, e)
       PROVE  ProbeInv'
  BY <1>1, <1>15, <1>16 DEF SensorAnswers, client
<1>17. ASSUME NEW n \in Conns, NEW k \in 0..2, ConnectionLost(n, k)
       PROVE  ProbeInv'
  <2>1. peer'[socket] \in {peer[socket], 0} \/ socket = 0
    BY <1>17, SocketIsConn DEF ConnectionLost, TypeOK
  <2>2. QED
    BY <1>15, <1>17, <2>1
    DEF ConnectionLost, ProbeInv, PeerIsCurrent, client, calls
<1>18. ASSUME SensorReboots PROVE ProbeInv'
  BY <1>1, <1>15, <1>18 DEF SensorReboots, client
<1>19. CASE UNCHANGED vars
  BY <1>1, <1>15, <1>19 DEF vars, client, sensor
<1>20. QED
  BY <1>4, <1>5, <1>6, <1>7, <1>8, <1>9, <1>10, <1>11, <1>12, <1>13, <1>14,
     <1>16, <1>17, <1>18, <1>19
  DEF Next, ThreadStep, Application, Sensor

-----------------------------------------------------------------------------
(* Streams: an exchange can read nothing but the answer to its own frame.  *)

(* A connection made by ConnectLocked starts empty. *)
LEMMA ConnectEmpty ==
  ASSUME TypeOK, LockInv, FrameInv, NEW c \in Callers, NEW b,
         ConnectLocked(c, b), socket' # 0, UNCHANGED up
  PROVE  up'[socket'] = <<>> /\ down'[socket'] = <<>>
<1>1. nconn + 1 \in Conns /\ nconn + 1 > nconn /\ socket' = nconn + 1
  BY TransportAssumption DEF ConnectLocked, TypeOK, Conns
<1>2. peer[nconn + 1] # boot
  <2>1. peer[nconn + 1] = 0
    BY <1>1 DEF LockInv
  <2>2. boot # 0
    BY TransportAssumption DEF TypeOK, Boots
  <2>3. QED
    BY <2>1, <2>2
<1>3. up[nconn + 1] = <<>> /\ down[nconn + 1] = <<>>
  BY <1>1, <1>2 DEF FrameInv
<1>4. QED
  BY <1>1, <1>3 DEF ConnectLocked, Discarded

(* Every step keeps the streams aligned with the exchanges. *)
LEMMA StreamStep ==
  ASSUME TypeOK, LockInv, FrameInv, StreamInv, [Next]_vars
  PROVE  StreamInv'
<1>1. ASSUME UNCHANGED <<socket, session, bootGen>>,
             peer'[socket] \in {peer[socket], 0},
             up'[socket] = up[socket], down'[socket] = down[socket],
             mutex' = NoCaller => mutex = NoCaller,
             \A d \in Callers :
               mutex' = d => mutex = d /\ pc'[d] = pc[d] /\ cur'[d] = cur[d]
      PROVE  StreamInv'
  <2>1. ASSUME NEW part, NEW d \in Callers, mutex' = d, BodyPart(part, d)
        PROVE  BodyPart(part, d)'
    BY <1>1, <2>1 DEF BodyPart, Expected, PeerIsCurrent
  <2>2. \A d \in Callers : mutex' = d => Expected(d)' = Expected(d)
    BY <1>1 DEF Expected
  <2>3. QED
    BY <1>1, <2>1, <2>2 DEF StreamInv, At
<1>2. CASE socket' = 0
  BY <1>2 DEF StreamInv
<1>3. CASE up'[socket'] = <<>> /\ down'[socket'] = <<>>
  BY <1>3 DEF StreamInv
<1>4. ASSUME NEW c \in Callers, NEW ret, Fail(c, ret) PROVE StreamInv'
  BY <1>2, <1>4 DEF Fail, CloseLocked
<1>5. ASSUME NEW c \in Callers, pc[c] \notin Holding, UNCHANGED <<client, sensor>>,
             \A d \in Callers : d # c => pc'[d] = pc[d] /\ cur'[d] = cur[d]
      PROVE  StreamInv'
  BY <1>1, <1>5 DEF LockInv, client, sensor
<1>6. ASSUME NEW c \in Callers, NEW m \in Methods, NEW z \in Sizes,
             BeginRequest(c, m, z)
      PROVE  StreamInv'
  BY <1>5, <1>6 DEF BeginRequest, sensor, client, Holding, TypeOK
<1>7. ASSUME NEW c \in Callers, Finish(c) PROVE StreamInv'
  BY <1>5, <1>7 DEF Finish, sensor, client, Holding, TypeOK
<1>8. ASSUME NEW c \in Callers, Refuse(c) PROVE StreamInv'
  BY <1>1, <1>8, TransportAssumption
  DEF Refuse, EntersSendRequest, Return, sensor
<1>9. ASSUME NEW c \in Callers, UseSocket(c) PROVE StreamInv'
  BY <1>3, <1>9 DEF UseSocket, EntersSendRequest, StreamInv, sensor
<1>10. ASSUME NEW c \in Callers, Reopen(c) \/ Connect(c) PROVE StreamInv'
  BY <1>2, <1>3, <1>10, ConnectEmpty DEF Reopen, Connect
<1>11. ASSUME NEW c \in Callers, Disconnect(c) PROVE StreamInv'
  BY <1>2, <1>11 DEF Disconnect, CloseLocked
<1>12. ASSUME NEW c \in Callers, Send(c) PROVE StreamInv'
  <2>1. socket # 0 /\ socket \in Conns /\ mutex = c
    BY <1>12, HolderHasSocket, TransportAssumption DEF Send, At, LockInv, TypeOK
  <2>2. up[socket] = <<>> /\ down[socket] = <<>>
    BY <1>12, <2>1 DEF Send, StreamInv
  <2>3. CASE UNCHANGED <<up, down, socket>>
    BY <1>3, <2>2, <2>3
  <2>4. CASE /\ up' = [up EXCEPT ![socket] =
                         Append(@, [Expected(c) EXCEPT !.session = session'])]
             /\ pc' = [pc EXCEPT ![c] = "header"]
             /\ UNCHANGED <<mutex, socket, cur, down>>
    <3>1. Expected(c)' = [Expected(c) EXCEPT !.session = session']
      BY <2>4 DEF Expected
    <3>2. up'[socket'] = <<Expected(c)'>> /\ down'[socket'] = <<>>
      <4> DEFINE f == [Expected(c) EXCEPT !.session = session']
      <4>1. up' = [up EXCEPT ![socket] = Append(up[socket], f)] /\ f = Expected(c)'
        BY <2>4, <3>1
      <4> HIDE DEF f
      <4>2. Append(up[socket], f) = <<f>>
        BY <2>2
      <4>3. up'[socket] = <<f>>
        BY <2>1, <4>1, <4>2 DEF TypeOK
      <4>4. QED
        BY <2>2, <2>4, <4>1, <4>3
    <3>3. \A d \in Callers : mutex' = d => d = c /\ pc'[d] = "header"
      BY <2>1, <2>4 DEF TypeOK
    <3>4. mutex' # NoCaller
      BY <2>1, <2>4, TransportAssumption
    <3>5. QED
      BY <3>2, <3>3, <3>4 DEF StreamInv, At
  <2>5. QED
    BY <1>4, <1>12, <2>3, <2>4 DEF Send
<1>13. ASSUME NEW c \in Callers, RecvHeader(c) PROVE StreamInv'
  <2>1. socket # 0 /\ socket \in Conns /\ mutex = c
    BY <1>13, HolderHasSocket, TransportAssumption
    DEF RecvHeader, At, LockInv, TypeOK
  <2> DEFINE u == up[socket]
             d == down[socket]
  <2>2. /\ u \in Seq(Frame) /\ d \in Seq(Part) /\ d # <<>>
        /\ Len(u) <= 1 /\ Len(d) <= 2
        /\ Len(u) = 1 => d = <<>>
        /\ Len(d) = 2 => BodyPart(d[2], c)
    BY <1>13, <2>1 DEF RecvHeader, StreamInv, TypeOK
  <2>3. CASE /\ down' = [down EXCEPT ![socket] = Tail(@)]
             /\ pc' = [pc EXCEPT ![c] = "body"]
             /\ UNCHANGED <<mutex, socket, cur>>
    <3> HIDE DEF u, d
    <3>1. u = <<>>
      BY <2>2
    <3>2. Len(Tail(d)) <= 1 /\ (Len(Tail(d)) = 1 => Len(d) = 2 /\ Tail(d)[1] = d[2])
      BY <2>2
    <3>3. up'[socket'] = <<>> /\ down'[socket'] = Tail(d)
      BY <1>13, <2>1, <2>3, <3>1 DEF RecvHeader, TypeOK, u, d
    <3>4. Expected(c)' = Expected(c) /\ (PeerIsCurrent => PeerIsCurrent')
      BY <1>13, <2>3 DEF RecvHeader, Expected, PeerIsCurrent
    <3>5. Len(Tail(d)) = 1 =>
            /\ Tail(d)[1].frame = Expected(c)'
            /\ Tail(d)[1].body # "legacy" => PeerIsCurrent'
      BY <2>2, <3>2, <3>4 DEF BodyPart
    <3>6. \A e \in Callers : mutex' = e => e = c /\ pc'[e] = "body"
      BY <2>1, <2>3 DEF TypeOK
    <3>7. mutex' # NoCaller
      BY <2>1, <2>3, TransportAssumption
    <3>8. QED
      <4>1. Len(down'[socket']) <= 1
        BY <3>2, <3>3
      <4>2. QED
        BY <3>3, <3>6, <3>7, <4>1, <3>5 DEF StreamInv, At, BodyPart
  <2>4. QED
    BY <1>4, <1>13, <2>3 DEF RecvHeader
<1>14. ASSUME NEW c \in Callers, At(c, "body"), down[socket] # <<>>,
              down' = [down EXCEPT ![socket] = Tail(@)],
              UNCHANGED <<socket, up>>
       PROVE  StreamInv'
  <2>1. socket # 0 /\ socket \in Conns
    BY <1>14, HolderHasSocket, TransportAssumption DEF At, LockInv, TypeOK
  <2>2. down[socket] \in Seq(Part) /\ Len(down[socket]) <= 1 /\ up[socket] = <<>>
    BY <1>14, <2>1 DEF StreamInv, TypeOK
  <2>3. Tail(down[socket]) = <<>>
    BY <1>14, <2>2, HeadOfOne
  <2>4. QED
    BY <1>3, <1>14, <2>1, <2>2, <2>3 DEF TypeOK
<1>15. ASSUME NEW c \in Callers, RecvProbeBody(c) PROVE StreamInv'
  BY <1>2, <1>4, <1>14, <1>15 DEF RecvProbeBody, LegacyFound, CloseLocked
<1>16. ASSUME NEW c \in Callers, RecvBody(c) PROVE StreamInv'
  BY <1>4, <1>14, <1>16 DEF RecvBody
<1>17. ASSUME NEW c \in Callers, RecvFails(c) PROVE StreamInv'
  BY <1>4, <1>17 DEF RecvFails
<1>18. ASSUME NEW n \in Conns, NEW b \in AnyBody, NEW e \in Echoes,
              SensorAnswers(n, b, e)
       PROVE  StreamInv'
  <2>1. CASE n # socket
    BY <1>1, <1>18, <2>1 DEF SensorAnswers, client, calls, TypeOK
  <2>2. CASE n = socket /\ socket # 0
    <3> DEFINE f == Head(up[n])
               part == [kind |-> "header", frame |-> f, echo |-> e, body |-> b]
    <3>1. up[socket] # <<>> /\ up[socket] \in Seq(Frame)
      BY <1>18, <2>2 DEF SensorAnswers, TypeOK
    <3>2. PICK c \in Callers : mutex = c
      BY <2>2, <3>1 DEF StreamInv, TypeOK
    <3>3. At(c, "header")
      BY <2>2, <3>1, <3>2 DEF StreamInv, At, LockInv, Holding
    <3>4. /\ Len(up[socket]) <= 1
          /\ Len(up[socket]) = 1 => up[socket][1] = Expected(c)
                                    /\ down[socket] = <<>>
      BY <2>2, <3>3 DEF StreamInv
    <3>5. /\ up[socket][1] = Expected(c) /\ f = up[socket][1]
          /\ Tail(up[socket]) = <<>> /\ down[socket] = <<>>
      BY <2>2, <3>1, <3>4, HeadOfOne
    <3>6. UNCHANGED <<client, calls, boot, bootGen, nconn, peer>>
      BY <1>18 DEF SensorAnswers
    <3>7. up'[socket'] = <<>>
      BY <1>18, <2>2, <3>5, <3>6 DEF SensorAnswers, TypeOK, client
    <3> DEFINE ans == [part EXCEPT !.kind = "body"]
    <3>8. down'[socket'] = <<>> \o <<part, ans>>
      BY <1>18, <2>2, <3>5, <3>6 DEF SensorAnswers, TypeOK, client
    <3>9. ans.frame = Expected(c) /\ ans.body = b
      BY <3>5
    <3>10. b # "legacy" => bootGen[peer[socket]] = "v1.1"
      BY <1>18, <2>2 DEF SensorAnswers, TypeOK, Generations
    <3> HIDE DEF part, ans
    <3>11. Len(down'[socket']) = 2 /\ down'[socket'][2] = ans
      BY <3>8
    <3>12. Expected(c)' = Expected(c)
      BY <3>6 DEF Expected, client, calls
    <3>13. PeerIsCurrent' <=> PeerIsCurrent
      BY <3>6 DEF PeerIsCurrent, client
    <3>14. ans.frame = Expected(c)' /\ (ans.body # "legacy" => PeerIsCurrent')
      BY <3>9, <3>10, <3>12, <3>13 DEF PeerIsCurrent
    <3>15. \A d \in Callers : mutex' = d => d = c /\ pc'[d] = "header"
      BY <3>2, <3>3, <3>6 DEF At, client, calls
    <3>16. mutex' # NoCaller
      BY <3>2, <3>6, TransportAssumption DEF client
    <3>17. QED
      BY <3>7, <3>11, <3>14, <3>15, <3>16 DEF StreamInv, At, BodyPart
  <2>3. QED
    BY <1>2, <1>18, <2>1, <2>2 DEF SensorAnswers, client
<1>19. ASSUME NEW n \in Conns, NEW k \in 0..2, ConnectionLost(n, k)
       PROVE  StreamInv'
  <2>1. CASE n # socket
    BY <1>1, <1>19, <2>1 DEF ConnectionLost, client, calls, TypeOK
  <2>2. CASE n = socket /\ socket # 0
    <3> DEFINE d == down[socket]
               d2 == SubSeq(d, 1, k)
    <3>1. d \in Seq(Part) /\ k \in Nat /\ k <= Len(d)
      BY <1>19, <2>2 DEF ConnectionLost, TypeOK
    <3>2. /\ up'[socket] = <<>> /\ down'[socket] = d2 /\ peer'[socket] = 0
          /\ UNCHANGED <<client, calls>>
      BY <1>19, <2>2 DEF ConnectionLost, TypeOK
    <3>3. Len(d2) = k /\ \A i \in 1..k : d2[i] = d[i]
      <4> HIDE DEF d
      <4>1. QED
        BY <3>1
    <3>4. UNCHANGED <<socket, mutex, pc, cur, session>>
      BY <3>2 DEF client, calls
    <3>5. ASSUME NEW part, NEW c \in Callers, BodyPart(part, c)
          PROVE  part.frame = Expected(c)'
      BY <3>4, <3>5 DEF BodyPart, Expected
    <3> HIDE DEF d2
    <3>6. mutex = NoCaller => d2 = <<>>
      <4>1. mutex = NoCaller => Len(d) = 0
        BY <2>2 DEF StreamInv
      <4>2. mutex = NoCaller => k = 0
        BY <3>1, <4>1
      <4>3. QED
        BY <4>2 DEF d2
    <3>7. \A c \in Callers : At(c, "send") => d2 = <<>>
      <4>1. ASSUME NEW c \in Callers, At(c, "send") PROVE k = 0
        BY <2>2, <3>1, <4>1 DEF StreamInv
      <4>2. QED
        BY <4>1 DEF d2
    <3>8. \A c \in Callers : At(c, "header") =>
            Len(d2) <= 2 /\ (Len(d2) = 2 => d2[2].frame = Expected(c)')
      <4>1. ASSUME NEW c \in Callers, At(c, "header")
            PROVE  /\ Len(d2) <= 2
                   /\ Len(d2) = 2 => d2[2].frame = Expected(c)'
        <5>1. Len(d) <= 2 /\ (Len(d) = 2 => BodyPart(d[2], c))
          BY <2>2, <4>1 DEF StreamInv
        <5>2. Len(d) \in Nat
          BY <3>1
        <5> HIDE DEF d
        <5>3. CASE k = 2
          <6>0. Len(d) = 2
            <7>1. Len(d) <= 2 /\ 2 <= Len(d)
              BY <3>1, <5>1, <5>3
            <7>2. \A a \in Nat : a <= 2 /\ 2 <= a => a = 2
              OBVIOUS
            <7>3. QED
              BY <5>2, <7>1, <7>2, Zenon
          <6>1. BodyPart(d[2], c)
            BY <5>1, <6>0
          <6>2. d[2].frame = Expected(c)' /\ d2[2] = d[2]
            BY <3>3, <3>5, <5>3, <6>1
          <6>3. QED
            BY <3>3, <5>3, <6>2
        <5>4. CASE k # 2
          BY <3>1, <3>3, <5>1, <5>2, <5>4
        <5>5. QED
          BY <5>3, <5>4
      <4>2. QED
        BY <4>1
    <3>9. \A c \in Callers : At(c, "body") =>
            Len(d2) <= 1 /\ (Len(d2) = 1 => d2[1].frame = Expected(c)')
      <4>1. ASSUME NEW c \in Callers, At(c, "body")
            PROVE  /\ Len(d2) <= 1
                   /\ Len(d2) = 1 => d2[1].frame = Expected(c)'
        <5>1. Len(d) <= 1 /\ (Len(d) = 1 => BodyPart(d[1], c))
          BY <2>2, <4>1 DEF StreamInv
        <5>2. Len(d) \in Nat
          BY <3>1
        <5> HIDE DEF d
        <5>3. CASE k = 1
          <6>0. Len(d) = 1
            <7>1. Len(d) <= 1 /\ 1 <= Len(d)
              BY <3>1, <5>1, <5>3
            <7>2. \A a \in Nat : a <= 1 /\ 1 <= a => a = 1
              OBVIOUS
            <7>3. QED
              BY <5>2, <7>1, <7>2, Zenon
          <6>1. BodyPart(d[1], c)
            BY <5>1, <6>0
          <6>2. d[1].frame = Expected(c)' /\ d2[1] = d[1]
            BY <3>3, <3>5, <5>3, <6>1
          <6>3. QED
            BY <3>3, <5>3, <6>2
        <5>4. CASE k # 1
          BY <3>1, <3>3, <5>1, <5>2, <5>4
        <5>5. QED
          BY <5>3, <5>4
      <4>2. QED
        BY <4>1
    <3>10. QED
      <4>1. PeerIsCurrent'
        BY <3>2, <3>4 DEF PeerIsCurrent
      <4>2. QED
        BY <3>2, <3>4, <3>6, <3>7, <3>8, <3>9, <4>1 DEF StreamInv, At, BodyPart
  <2>3. QED
    BY <1>2, <1>19, <2>1, <2>2 DEF ConnectionLost, client
<1>20. ASSUME SensorReboots PROVE StreamInv'
  <2>1. CASE socket = 0
    BY <1>2, <1>20, <2>1 DEF SensorReboots, client
  <2>2. CASE socket # 0
    <3>1. UNCHANGED <<socket, mutex, pc, cur, session, down, peer, bootGen>>
      BY <1>20 DEF SensorReboots, client, calls
    <3>2. up'[socket] = <<>>
      BY <1>20, <2>2, SocketIsConn DEF SensorReboots
    <3>3. \A c \in Callers : Expected(c)' = Expected(c)
      BY <3>1 DEF Expected
    <3>4. \A c \in Callers : \A part : BodyPart(part, c) => BodyPart(part, c)'
      BY <3>1, <3>3 DEF BodyPart, PeerIsCurrent
    <3>5. QED
      BY <3>1, <3>2, <3>4, <2>2 DEF StreamInv, At
  <2>3. QED
    BY <2>1, <2>2
<1>21. CASE UNCHANGED vars
  BY <1>1, <1>21 DEF vars, client, calls, sensor
<1>22. QED
  BY <1>6, <1>7, <1>8, <1>9, <1>10, <1>11, <1>12, <1>13, <1>15, <1>16, <1>17,
     <1>18, <1>19, <1>20, <1>21
  DEF Next, ThreadStep, Application, Sensor

-----------------------------------------------------------------------------
(* Histories: what the sensor ran and what the callers were given. *)

(* No step runs a request on a v1.0.x sensor. *)
LEMMA RunsStep ==
  ASSUME TypeOK, FrameInv, LegacySensorOnlyProbed, [Next]_vars
  PROVE  LegacySensorOnlyProbed'
<1>1. CASE UNCHANGED runs
  BY <1>1 DEF LegacySensorOnlyProbed
<1>2. ASSUME NEW n \in Conns, NEW b \in AnyBody, NEW e \in Echoes,
             SensorAnswers(n, b, e)
      PROVE  LegacySensorOnlyProbed'
  <2> DEFINE f == Head(up[n])
  <2>1. CASE f.probing
    BY <1>1, <1>2, <2>1 DEF SensorAnswers
  <2>2. CASE ~f.probing
    <3>1. up[n] \in Seq(Frame) /\ up[n] # <<>> /\ peer[n] = boot
      BY <1>2 DEF SensorAnswers, TypeOK
    <3>2. Len(up[n]) >= 1 /\ f = up[n][1]
      BY <3>1
    <3>3. f.probing \/ bootGen[peer[n]] = "v1.1"
      BY <3>2 DEF FrameInv
    <3>4. bootGen[boot] = "v1.1"
      BY <2>2, <3>1, <3>3
    <3>5. runs' = [runs EXCEPT ![f.call] = Append(runs[f.call], "v1.1")]
      BY <1>2, <2>2, <3>4 DEF SensorAnswers
    <3> HIDE DEF f
    <3>6. ASSUME NEW k \in Calls, NEW i \in 1..Len(runs'[k])
          PROVE  runs'[k][i] = "v1.1"
      <4>1. CASE k # f.call
        BY <3>5, <3>6, <4>1 DEF LegacySensorOnlyProbed, TypeOK
      <4>2. CASE k = f.call
        <5>1. runs[k] \in Seq(Generations) /\ runs'[k] = Append(runs[k], "v1.1")
          BY <3>5, <4>2 DEF TypeOK
        <5>2. Len(runs'[k]) = Len(runs[k]) + 1
          BY <5>1
        <5>3. CASE i = Len(runs[k]) + 1
          BY <5>1, <5>3
        <5>4. CASE i \in 1..Len(runs[k])
          <6>1. runs'[k][i] = runs[k][i]
            BY <5>1, <5>4
          <6>2. QED
            BY <5>4, <6>1 DEF LegacySensorOnlyProbed
        <5>5. QED
          BY <3>6, <5>1, <5>2, <5>3, <5>4
      <4>3. QED
        BY <4>1, <4>2
    <3>7. QED
      BY <3>6 DEF LegacySensorOnlyProbed
  <2>3. QED
    BY <2>1, <2>2
<1>3. ASSUME NEW c \in Callers, ThreadStep(c) \/ Application(c)
      PROVE  UNCHANGED runs
  BY <1>3
  DEF ThreadStep, Application, BeginRequest, Refuse, UseSocket, Reopen, Connect,
      Disconnect, Send, RecvHeader, RecvProbeBody, RecvBody, RecvFails, Finish,
      sensor
<1>4. QED
  BY <1>1, <1>2, <1>3
  DEF Next, Sensor, ConnectionLost, SensorReboots, vars, sensor

(* No step hands a request the answer to another. *)
LEMMA TakenStep ==
  ASSUME TypeOK, LockInv, StreamInv, AnswerMatchesRequest, [Next]_vars
  PROVE  AnswerMatchesRequest'
<1>1. CASE UNCHANGED taken
  BY <1>1 DEF AnswerMatchesRequest
<1>2. ASSUME NEW c \in Callers, RecvBody(c) PROVE AnswerMatchesRequest'
  <2> DEFINE part == Head(down[socket])
             id   == cur[c].id
             got  == [call |-> part.frame.call, e2eOk |-> part.body = "good"]
  <2>1. CASE taken' = [taken EXCEPT ![id] = got]
    <3>1. socket # 0 /\ socket \in Conns /\ down[socket] # <<>> /\ At(c, "body")
      BY <1>2, HolderHasSocket, TransportAssumption
      DEF RecvBody, At, LockInv, TypeOK
    <3>2. /\ down[socket] \in Seq(Part) /\ Len(down[socket]) <= 1
          /\ Len(down[socket]) = 1 => BodyPart(down[socket][1], c)
      BY <3>1 DEF StreamInv, TypeOK
    <3>3. BodyPart(part, c)
      BY <3>1, <3>2, HeadOfOne
    <3>4. got.call = id
      BY <3>3 DEF BodyPart, Expected, RecvBody
    <3> HIDE DEF got, id
    <3>5. QED
      BY <2>1, <3>4 DEF AnswerMatchesRequest, TypeOK
  <2>2. QED
    BY <1>1, <1>2, <2>1 DEF RecvBody
<1>3. ASSUME NEW c \in Callers,
             \/ Refuse(c) \/ UseSocket(c) \/ Reopen(c) \/ Send(c)
             \/ RecvHeader(c) \/ RecvProbeBody(c) \/ RecvFails(c) \/ Finish(c)
             \/ Application(c)
      PROVE  UNCHANGED taken
  BY <1>3
  DEF Application, BeginRequest, Refuse, UseSocket, Reopen, Connect,
      Disconnect, Send, RecvHeader, RecvProbeBody, RecvFails, Finish, calls
<1>4. QED
  BY <1>1, <1>2, <1>3
  DEF Next, ThreadStep, Sensor, SensorAnswers, ConnectionLost, SensorReboots,
      vars, calls

-----------------------------------------------------------------------------
(* The inductive invariant and what follows from it. *)

(* The inductive invariant holds at the start. *)
LEMMA InvInit == Init => IInv
<1> SUFFICES ASSUME Init PROVE IInv
  OBVIOUS
<1>1. TypeOK
  BY InitTypes
<1>2. LockInv
  BY TransportAssumption DEF Init, LockInv, Holding
<1>3. FrameInv
  BY DEF Init, FrameInv
<1>4. ProbeInv /\ StreamInv
  BY DEF Init, ProbeInv, StreamInv
<1>5. LegacySensorOnlyProbed /\ AnswerMatchesRequest
  BY DEF Init, LegacySensorOnlyProbed, AnswerMatchesRequest
<1>6. QED
  BY <1>1, <1>2, <1>3, <1>4, <1>5 DEF IInv

(* Every step keeps it. *)
LEMMA InvStep == IInv /\ [Next]_vars => IInv'
BY TypeStep, LockStep, FrameStep, ProbeStep, StreamStep, RunsStep, TakenStep
DEF IInv

(* The inductive invariant holds in every reachable state. *)
THEOREM Inductive == Spec => []IInv
BY InvInit, InvStep, PTL DEF Spec

(* Whatever reconnects and firmware changes happen, in whichever order the *)
(* threads take the mutex, a sensor of generation v1.0.x runs nothing but  *)
(* the probe of ProbeLocked (tcp_client.cpp:97-126).                       *)
THEOREM LegacyNeverActs == Spec => []LegacySensorOnlyProbed
<1>1. IInv => LegacySensorOnlyProbed
  BY DEF IInv
<1>2. QED
  BY <1>1, Inductive, PTL

(* The answer handed to the caller of SendRequest is the sensor's answer   *)
(* to that request, although the echo check of ExchangeLocked compares     *)
(* only a method id that repeats and a session id that wraps and restarts. *)
THEOREM AnswersMatch == Spec => []AnswerMatchesRequest
<1>1. IInv => AnswerMatchesRequest
  BY DEF IInv
<1>2. QED
  BY <1>1, Inductive, PTL

(* Between calls, an open socket is one whose sensor was probed and found  *)
(* to speak v1.1.0, and nothing is left unread in it.                      *)
THEOREM IdleSocketProbed == Spec => []OpenSocketIsProbed
<1>1. IInv => OpenSocketIsProbed
  <2> SUFFICES ASSUME IInv, mutex = NoCaller, socket # 0
               PROVE  /\ generation = "v1.1"
                      /\ peer[socket] # 0 => bootGen[peer[socket]] = "v1.1"
                      /\ up[socket] = <<>> /\ down[socket] = <<>>
    BY DEF OpenSocketIsProbed
  <2>1. \A c \in Callers : mutex # c
    BY TransportAssumption
  <2>2. QED
    BY <2>1 DEF IInv, ProbeInv, PeerIsCurrent, StreamInv
<1>2. QED
  BY <1>1, Inductive, PTL

(* Only TcpClient::Connect, or a request while it remembers its endpoint,  *)
(* opens a connection.                                                     *)
THEOREM NoStrayConnection == Spec => NoConnectionWithoutEndpoint
<1>1. TypeOK /\ [Next]_vars => (nconn' # nconn => reconnect')
  <2> SUFFICES ASSUME TypeOK, [Next]_vars, nconn' # nconn PROVE reconnect'
    OBVIOUS
  <2>1. ASSUME NEW c \in Callers,
               \/ Application(c) \/ Refuse(c) \/ UseSocket(c) \/ Reopen(c)
        PROVE  reconnect'
    <3>1. ASSUME Connect(c) PROVE reconnect'
      BY <3>1 DEF Connect
    <3>2. ASSUME Reopen(c) PROVE reconnect'
      BY <3>2 DEF Reopen, MayReopen
    <3>3. ASSUME \/ Disconnect(c) \/ Refuse(c) \/ UseSocket(c)
                 \/ \E m \in Methods, z \in Sizes : BeginRequest(c, m, z)
          PROVE  FALSE
      BY <3>3 DEF Disconnect, Refuse, UseSocket, BeginRequest, sensor
    <3>4. QED
      BY <2>1, <3>1, <3>2, <3>3 DEF Application
  <2>2. ASSUME NEW c \in Callers,
               \/ Send(c) \/ RecvHeader(c) \/ RecvProbeBody(c) \/ RecvBody(c)
               \/ RecvFails(c) \/ Finish(c)
        PROVE  FALSE
    BY <2>2
    DEF Send, RecvHeader, RecvProbeBody, RecvBody, RecvFails, Finish, sensor
  <2>3. QED
    BY <2>1, <2>2
    DEF Next, ThreadStep, Sensor, SensorAnswers, ConnectionLost, SensorReboots,
        vars, sensor
<1>2. QED
  BY <1>1, TypeCorrect, PTL DEF NoConnectionWithoutEndpoint, Spec

-----------------------------------------------------------------------------
(* Requests: each has one thread, is sent once, and is run once. *)

(* What the parts of a call keep when others of its fields change. *)
LEMMA CallFields ==
  ASSUME NEW b \in Call, NEW ret, NEW p
  PROVE  /\ [b EXCEPT !.ret = ret].id = b.id
         /\ [b EXCEPT !.ret = ret].probing = b.probing
         /\ [b EXCEPT !.ret = ret].ret = ret
         /\ [b EXCEPT !.probing = p].id = b.id
         /\ [b EXCEPT !.probing = p].probing = p
         /\ Probing(b).id = b.id
         /\ Probing(b).probing
BY DEF Call, Probing

(* The other threads stay where they are. *)
OthersStay(c) == \A d \in Callers \ {c} : pc'[d] = pc[d] /\ cur'[d] = cur[d]

(* The call of thread c ends with ret. *)
Ends(c, ret) ==
  /\ pc'[c] = "finish" /\ cur'[c].ret = ret
  /\ cur'[c].id = cur[c].id /\ cur'[c].probing = cur[c].probing
  /\ OthersStay(c)

(* How a TcpClient call ends. *)
LEMMA Returns ==
  ASSUME TypeOK, NEW c \in Callers, NEW ret, Return(c, ret)
  PROVE  Ends(c, ret)
<1>1. cur[c] \in Call
  BY DEF TypeOK
<1>2. cur'[c] = [cur[c] EXCEPT !.ret = ret]
  BY DEF Return, TypeOK
<1>3. pc'[c] = "finish" /\ OthersStay(c)
  BY DEF Return, TypeOK, OthersStay
<1>4. QED
  BY <1>1, <1>2, <1>3, CallFields DEF Ends

(* A failure ends the call, as itself or as one of the connection. *)
LEMMA Failures ==
  ASSUME TypeOK, NEW c \in Callers, NEW ret, Fail(c, ret)
  PROVE  \E r \in {"transport", ret} : Ends(c, r)
<1>1. Return(c, IF IsRequest(c) /\ cur[c].probing THEN "transport" ELSE ret)
  BY DEF Fail, Failure
<1>2. QED
  BY <1>1, Returns

(* Where a connection attempt leaves its thread. *)
LEMMA Connects ==
  ASSUME TypeOK, NEW c \in Callers, NEW b \in Call, ConnectLocked(c, b)
  PROVE  /\ cur'[c].id = b.id /\ OthersStay(c)
         /\ \/ pc'[c] = "send"
            \/ pc'[c] = "finish" /\ cur'[c].ret = "transport"
<1>1. \/ /\ cur' = [cur EXCEPT ![c] = Probing(b)]
         /\ pc' = [pc EXCEPT ![c] = "send"]
      \/ /\ cur' = [cur EXCEPT ![c] = [b EXCEPT !.ret = "transport"]]
         /\ pc' = [pc EXCEPT ![c] = "finish"]
  BY DEF ConnectLocked
<1>2. OthersStay(c)
  BY <1>1 DEF TypeOK, OthersStay
<1>3. \/ cur'[c] = Probing(b) /\ pc'[c] = "send"
      \/ cur'[c] = [b EXCEPT !.ret = "transport"] /\ pc'[c] = "finish"
  BY <1>1 DEF TypeOK
<1>4. QED
  BY <1>2, <1>3 DEF Call, Probing

(* The steps of a thread inside a TcpClient call. *)
InsideStep(c) ==
  \/ Refuse(c) \/ UseSocket(c) \/ Reopen(c) \/ Send(c) \/ RecvHeader(c)
  \/ RecvProbeBody(c) \/ RecvBody(c) \/ RecvFails(c)

(* What such a step does to the request of the thread that takes it, by    *)
(* where the thread was; the other threads are outside TcpClient.          *)
Inside(c) ==
  /\ UNCHANGED <<ncall, outcome, runs>>
  /\ pc[c] # "idle" /\ pc'[c] # "idle" /\ cur'[c].id = cur[c].id
  /\ OthersStay(c)
  /\ mutex \in {NoCaller, c}

(* The steps inside TcpClient are such steps. *)
LEMMA InsideKeeps ==
  ASSUME TypeOK, NEW c \in Callers, InsideStep(c)
  PROVE  Inside(c)
<1>0. cur[c] \in Call
  BY DEF TypeOK
<1>1. UNCHANGED <<ncall, outcome, runs>>
  BY DEF InsideStep, Refuse, UseSocket, Reopen, Send, RecvHeader,
         RecvProbeBody, RecvBody, RecvFails, sensor
<1>2. mutex \in {NoCaller, c} /\ pc[c] # "idle"
  BY DEF InsideStep, Refuse, UseSocket, Reopen, Send, RecvHeader,
         RecvProbeBody, RecvBody, RecvFails, EntersSendRequest, At
<1>3. ASSUME NEW ret, Ends(c, ret) PROVE Inside(c)
  BY <1>1, <1>2, <1>3 DEF Ends, Inside
<1>4. ASSUME NEW ret \in {"transport", "timeout", "protocol"}, Fail(c, ret)
      PROVE  Inside(c)
  BY <1>3, <1>4, Failures
<1>5. ASSUME NEW w, w # "idle", pc' = [pc EXCEPT ![c] = w],
             \/ cur' = cur
             \/ cur' = [cur EXCEPT ![c] = [cur[c] EXCEPT !.probing = FALSE]]
      PROVE  Inside(c)
  <2>1. cur'[c] = cur[c] \/ cur'[c] = [cur[c] EXCEPT !.probing = FALSE]
    BY <1>5 DEF TypeOK
  <2>2. cur'[c].id = cur[c].id
    BY <1>0, <2>1 DEF Call
  <2>3. pc'[c] # "idle" /\ OthersStay(c)
    BY <1>5 DEF TypeOK, OthersStay
  <2>4. QED
    BY <1>1, <1>2, <2>2, <2>3 DEF Inside
<1>6. CASE Refuse(c)
  BY <1>3, <1>6, Returns DEF Refuse
<1>7. CASE UseSocket(c)
  BY <1>5, <1>7 DEF UseSocket
<1>8. CASE Reopen(c)
  <2>1. ConnectLocked(c, cur[c])
    BY <1>8 DEF Reopen
  <2>2. QED
    BY <1>0, <1>1, <1>2, <2>1, Connects DEF Inside
<1>9. CASE Send(c)
  BY <1>4, <1>5, <1>9 DEF Send
<1>10. CASE RecvHeader(c)
  BY <1>4, <1>5, <1>10 DEF RecvHeader
<1>11. CASE RecvProbeBody(c)
  <2>1. CASE \E ret : Return(c, ret)
    BY <1>3, <2>1, Returns
  <2>2. CASE Fail(c, "protocol")
    BY <1>4, <2>2
  <2>3. CASE /\ pc' = [pc EXCEPT ![c] = "send"]
             /\ cur' = [cur EXCEPT ![c].probing = FALSE]
    BY <1>5, <2>3
  <2>4. QED
    BY <1>11, <2>1, <2>2, <2>3 DEF RecvProbeBody, LegacyFound
<1>12. CASE RecvBody(c)
  BY <1>3, <1>4, <1>12, Returns DEF RecvBody
<1>13. CASE RecvFails(c)
  BY <1>4, <1>13 DEF RecvFails, RecvErrors
<1>14. QED
  BY <1>6, <1>7, <1>8, <1>9, <1>10, <1>11, <1>12, <1>13 DEF InsideStep

(* A step that keeps the requests of the threads keeps CallInv. *)
LEMMA CallStep ==
  ASSUME IInv, CallInv, [Next]_vars
  PROVE  CallInv'
<1>0. TypeOK /\ ncall \in Nat /\ \A c \in Callers : cur[c].id \in Nat
  BY TransportAssumption DEF IInv, TypeOK, Call
<1>1. ASSUME NEW c \in Callers, InsideStep(c) PROVE CallInv'
  <2>1. Inside(c)
    BY <1>0, <1>1, InsideKeeps
  <2>2. \A d \in Callers : cur'[d].id = cur[d].id
    BY <2>1 DEF Inside, OthersStay
  <2>3. \A d \in Callers : pc[d] # "idle" => pc'[d] # "idle"
    BY <2>1 DEF Inside, OthersStay
  <2>4. QED
    BY <2>1, <2>2, <2>3 DEF Inside, CallInv, IsRequest
<1>2. ASSUME NEW c \in Callers, OthersStay(c), cur'[c].id = 0,
             UNCHANGED <<ncall, outcome>>
      PROVE  CallInv'
  BY <1>2 DEF CallInv, IsRequest, OthersStay
<1>3. ASSUME NEW c \in Callers, NEW m \in Methods, NEW z \in Sizes,
             BeginRequest(c, m, z)
      PROVE  CallInv'
  <2> DEFINE k == ncall + 1
  <2>1. ncall' = k /\ k \in Nat /\ k > ncall /\ outcome[k] = "none"
    BY <1>0, <1>3, TransportAssumption DEF BeginRequest, CallInv, Calls
  <2>2. CASE reconnect
    <3> DEFINE b == [NoCall EXCEPT !.id = k, !.method = m, !.size = z]
    <3>1. cur' = [cur EXCEPT ![c] = b] /\ pc' = [pc EXCEPT ![c] = "lock"]
          /\ outcome' = outcome
      BY <1>3, <2>2 DEF BeginRequest
    <3>2. b.id = k
      BY DEF NoCall
    <3> HIDE DEF b
    <3>3. cur'[c].id = k /\ pc'[c] = "lock" /\ OthersStay(c)
      BY <1>0, <3>1, <3>2 DEF TypeOK, OthersStay
    <3>4. \A d \in Callers \ {c} :
            IsRequest(d) => cur[d].id <= ncall /\ cur[d].id # k
      BY <1>0, <2>1 DEF CallInv
    <3>5. /\ \A j \in Calls : j > k => j > ncall
          /\ \A j \in Nat : j <= ncall => j <= k
      BY <1>0 DEF Calls
    <3> HIDE DEF k
    <3>6. \A d \in Callers : IsRequest(d)' =>
            /\ pc'[d] # "idle" /\ cur'[d].id <= ncall'
            /\ outcome'[cur'[d].id] = "none"
            /\ \A e \in Callers : cur'[e].id = cur'[d].id => e = d
      <4>1. ASSUME NEW d \in Callers \ {c}, IsRequest(d)'
            PROVE  /\ pc'[d] # "idle" /\ cur'[d].id <= ncall'
                   /\ outcome'[cur'[d].id] = "none"
                   /\ \A e \in Callers : cur'[e].id = cur'[d].id => e = d
        BY <1>0, <2>1, <3>1, <3>3, <3>4, <3>5, <4>1
        DEF CallInv, IsRequest, OthersStay
      <4>2. cur'[c].id <= ncall'
        BY <2>1, <3>3
      <4>3. \A e \in Callers \ {c} : cur'[e].id # k
        BY <1>0, <2>1, <3>3, <3>4 DEF IsRequest, OthersStay
      <4>4. QED
        BY <2>1, <3>1, <3>3, <4>1, <4>2, <4>3
    <3>7. \A j \in Calls : j > ncall' => outcome'[j] = "none"
      BY <2>1, <3>1, <3>5 DEF CallInv
    <3>8. QED
      BY <3>6, <3>7 DEF CallInv
  <2>3. CASE ~reconnect
    <3>1. /\ outcome' = [outcome EXCEPT ![k] = "disconnected"]
          /\ UNCHANGED <<pc, cur>>
      BY <1>3, <2>3 DEF BeginRequest
    <3>2. \A d \in Callers : IsRequest(d) => cur[d].id <= ncall /\ cur[d].id # k
      BY <1>0, <2>1 DEF CallInv
    <3>3. \A j \in Calls : j # k => outcome'[j] = outcome[j]
      BY <1>0, <3>1 DEF TypeOK
    <3>4. \A d \in Callers : IsRequest(d) => cur[d].id \in Calls
      BY <1>0 DEF TypeOK, Call, IsRequest, Calls
    <3>5. \A j \in Calls : j > k => j > ncall /\ j # k
      BY <1>0 DEF Calls
    <3> HIDE DEF k
    <3>6. QED
      BY <1>0, <2>1, <3>1, <3>2, <3>3, <3>4, <3>5 DEF CallInv, IsRequest
  <2>4. QED
    BY <2>2, <2>3
<1>4. ASSUME NEW c \in Callers, Connect(c) PROVE CallInv'
  <2>1. NoCall \in Call /\ NoCall.id = 0
    BY TransportAssumption DEF NoCall, Call, Rets
  <2>2. cur'[c].id = 0 /\ OthersStay(c)
    BY <1>0, <1>4, <2>1, Connects DEF Connect
  <2>3. QED
    BY <1>2, <1>4, <2>2 DEF Connect
<1>5. ASSUME NEW c \in Callers, Finish(c) PROVE CallInv'
  <2>1. cur'[c].id = 0 /\ OthersStay(c) /\ ncall' = ncall
    BY <1>0, <1>5 DEF Finish, TypeOK, OthersStay, NoCall
  <2>2. CASE ~IsRequest(c)
    BY <1>2, <1>5, <2>1, <2>2 DEF Finish
  <2>3. CASE IsRequest(c)
    <3> DEFINE k == cur[c].id
    <3>1. PICK x : outcome' = [outcome EXCEPT ![k] = x]
      BY <1>5, <2>3 DEF Finish
    <3>2. \A j \in Calls : j # k => outcome'[j] = outcome[j]
      BY <1>0, <3>1 DEF TypeOK
    <3>3. k <= ncall /\ \A d \in Callers \ {c} : cur[d].id # k
      BY <2>3 DEF CallInv
    <3>4. \A d \in Callers : IsRequest(d) => cur[d].id \in Calls
      BY <1>0 DEF TypeOK, Call, IsRequest, Calls
    <3>5. \A j \in Calls : j > ncall => j # k
      BY <1>0, <3>3 DEF Calls
    <3>6. \A d \in Callers \ {c} : IsRequest(d)' =>
            /\ pc'[d] # "idle" /\ cur'[d].id <= ncall'
            /\ outcome'[cur'[d].id] = "none"
            /\ \A e \in Callers : cur'[e].id = cur'[d].id => e = d
      BY <2>1, <3>2, <3>3, <3>4 DEF CallInv, IsRequest, OthersStay
    <3>7. QED
      BY <2>1, <3>2, <3>5, <3>6 DEF CallInv, IsRequest
  <2>4. QED
    BY <2>2, <2>3
<1>6. CASE UNCHANGED <<pc, cur, ncall, outcome>>
  BY <1>6 DEF CallInv, IsRequest
<1>7. QED
  BY <1>1, <1>3, <1>4, <1>5, <1>6
  DEF Next, ThreadStep, Application, Sensor, InsideStep, Disconnect,
      SensorAnswers, ConnectionLost, SensorReboots, vars, calls

(* The only frame of a connection, as its sensor takes it. *)
LEMMA OneFrame ==
  ASSUME TypeOK, FlightInv, NEW n \in Conns, up[n] # <<>>
  PROVE  /\ Head(up[n]) \in Frame /\ Tail(up[n]) = <<>>
         /\ \A k : Flying(n, k) <=> /\ Head(up[n]).call = k
                                    /\ ~Head(up[n]).probing
<1>1. up[n] \in Seq(Frame) /\ Len(up[n]) <= 1
  BY DEF TypeOK, FlightInv
<1>2. Len(up[n]) = 1 /\ Head(up[n]) = up[n][1] /\ Tail(up[n]) = <<>>
  BY <1>1, HeadOfOne
<1>3. up[n][1] \in Frame
  BY <1>1, <1>2
<1>4. QED
  BY <1>2, <1>3 DEF Flying

(* A step that only takes frames away, and ends no request. *)
LEMMA FlightFrame ==
  ASSUME FlightInv, UNCHANGED <<ncall, outcome, runs>>,
         \A n \in Conns : up'[n] \in {up[n], <<>>}
  PROVE  FlightInv'
<1>1. \A n \in Conns, k \in Calls : Flying(n, k)' => Flying(n, k)
  BY DEF Flying
<1>2. \A n \in Conns : Len(up'[n]) <= 1
  BY DEF FlightInv
<1>3. QED
  BY <1>1, <1>2 DEF FlightInv

(* What thread c puts on the wire. *)
LEMMA Sends ==
  ASSUME TypeOK, LockInv, StreamInv, NEW c \in Callers, Send(c), up' # up
  PROVE  /\ socket \in Conns /\ pc[c] = "send" /\ mutex = c
         /\ pc' = [pc EXCEPT ![c] = "header"]
         /\ UNCHANGED <<mutex, socket, cur, down, runs>>
         /\ up[socket] = <<>> /\ down[socket] = <<>>
         /\ \A k : Flying(socket, k)' <=> cur[c].id = k /\ ~cur[c].probing
         /\ \A n \in Conns \ {socket} : up'[n] = up[n]
         /\ Len(up'[socket]) = 1
<1> DEFINE f == [Expected(c) EXCEPT !.session = session']
<1>1. socket \in Conns /\ socket # 0 /\ mutex = c /\ pc[c] = "send"
  BY HolderHasSocket, TransportAssumption DEF Send, At, LockInv, TypeOK
<1>2. up[socket] = <<>> /\ down[socket] = <<>>
  BY <1>1 DEF StreamInv, At
<1>3. /\ up' = [up EXCEPT ![socket] = Append(@, f)]
      /\ pc' = [pc EXCEPT ![c] = "header"]
      /\ UNCHANGED <<mutex, socket, cur, down, runs>>
  BY DEF Send
<1>4. f.call = cur[c].id /\ f.probing = cur[c].probing
  BY DEF Expected
<1> HIDE DEF f
<1>5. Append(up[socket], f) = <<f>>
  BY <1>2
<1>6. up'[socket] = <<f>> /\ \A n \in Conns \ {socket} : up'[n] = up[n]
  BY <1>1, <1>3, <1>5 DEF TypeOK
<1>7. Len(up'[socket]) = 1 /\ up'[socket][1] = f
  BY <1>6
<1>8. \A k : Flying(socket, k)' <=> f.call = k /\ ~f.probing
  BY <1>3, <1>7 DEF Flying
<1>9. QED
  BY <1>1, <1>2, <1>3, <1>4, <1>6, <1>7, <1>8

(* What the sensor does when it takes a frame: a request that is on its    *)
(* way is run for the first time.                                          *)
LEMMA AnswerRuns ==
  ASSUME TypeOK, FlightInv,
         NEW n \in Conns, NEW b \in AnyBody, NEW e \in Echoes,
         SensorAnswers(n, b, e)
  PROVE  /\ \A m \in Conns : \A k : Flying(m, k)' <=> Flying(m, k) /\ m # n
         /\ \A m \in Conns : Len(up'[m]) <= 1
         /\ \A k \in Calls :
              \/ runs'[k] = runs[k] /\ ~Flying(n, k)
              \/ runs[k] = <<>> /\ Len(runs'[k]) = 1 /\ Flying(n, k)
<1> DEFINE f == Head(up[n])
<1>1. up[n] # <<>>
  BY DEF SensorAnswers
<1>2. f \in Frame /\ Tail(up[n]) = <<>>
      /\ \A k : Flying(n, k) <=> f.call = k /\ ~f.probing
  BY <1>1, OneFrame
<1>3. up' = [up EXCEPT ![n] = <<>>]
  BY <1>2 DEF SensorAnswers
<1>4. /\ up'[n] = <<>> /\ \A m \in Conns \ {n} : up'[m] = up[m]
      /\ \A m \in Conns : Len(up'[m]) <= 1
  BY <1>3 DEF TypeOK, FlightInv
<1>5. \A m \in Conns : \A k : Flying(m, k)' <=> Flying(m, k) /\ m # n
  BY <1>4 DEF Flying
<1>6. ASSUME NEW k \in Calls
      PROVE  \/ runs'[k] = runs[k] /\ ~Flying(n, k)
             \/ runs[k] = <<>> /\ Len(runs'[k]) = 1 /\ Flying(n, k)
  <2> DEFINE g == bootGen[boot]
  <2>1. CASE f.probing
    BY <1>2, <2>1 DEF SensorAnswers
  <2>2. CASE ~f.probing
    <3>1. runs' = [runs EXCEPT ![f.call] = Append(@, g)]
      BY <2>2 DEF SensorAnswers
    <3> HIDE DEF f, g
    <3>2. CASE f.call # k
      BY <1>2, <3>1, <3>2 DEF TypeOK
    <3>3. CASE f.call = k
      <4>1. Flying(n, k) /\ runs[k] = <<>>
        BY <1>2, <2>2, <3>3 DEF FlightInv
      <4>2. runs'[k] = Append(<<>>, g)
        BY <3>1, <3>3, <4>1 DEF TypeOK
      <4>3. QED
        BY <4>1, <4>2
    <3>4. QED
      BY <3>2, <3>3
  <2>3. QED
    BY <2>1, <2>2
<1>7. QED
  BY <1>4, <1>5, <1>6

(* A frame of a request is sent once, and the sensor runs it once. *)
LEMMA FlightStep ==
  ASSUME IInv, RpcInv, [Next]_vars
  PROVE  FlightInv'
<1>0. /\ TypeOK /\ LockInv /\ StreamInv /\ CallInv /\ FlightInv /\ SendInv
      /\ ncall \in Nat
      /\ \A c \in Callers : IsRequest(c) => cur[c].id \in Calls
  BY TransportAssumption DEF IInv, RpcInv, TypeOK, Call, IsRequest, Calls
<1>1. CASE /\ UNCHANGED <<ncall, outcome, runs>>
           /\ \A n \in Conns : up'[n] \in {up[n], <<>>}
  BY <1>0, <1>1, FlightFrame
<1>2. ASSUME UNCHANGED <<runs, up>>,
             \A k \in Calls : k > ncall' => k > ncall,
             \A k \in Calls :
               \/ outcome'[k] = outcome[k]
               \/ outcome'[k] \notin {"answered", "notSupported", "invalid"}
               \/ outcome'[k] = "answered" /\ Len(runs[k]) = 1
               \/ /\ outcome'[k] # "answered"
                  /\ runs[k] = <<>> /\ \A n \in Conns : ~Flying(n, k)
      PROVE  FlightInv'
  <2>1. \A n \in Conns, k \in Calls : Flying(n, k)' = Flying(n, k)
    BY <1>2 DEF Flying
  <2>2. \A k \in Calls : Len(runs[k]) = 1 => runs[k] # <<>>
    OBVIOUS
  <2>3. ASSUME NEW k \in Calls
        PROVE  /\ Len(runs'[k]) <= 1
               /\ outcome'[k] = "answered" => Len(runs'[k]) = 1
               /\ k > ncall' \/ outcome'[k] \in {"notSupported", "invalid"} =>
                    runs'[k] = <<>> /\ \A n \in Conns : ~Flying(n, k)'
               /\ \A n \in Conns : Flying(n, k)' =>
                    /\ runs'[k] = <<>> /\ outcome'[k] # "answered"
                    /\ \A m \in Conns : Flying(m, k)' => m = n
    <3>1. /\ Len(runs[k]) <= 1
          /\ outcome[k] = "answered" => Len(runs[k]) = 1
          /\ k > ncall \/ outcome[k] \in {"notSupported", "invalid"} =>
               runs[k] = <<>> /\ \A n \in Conns : ~Flying(n, k)
          /\ \A n \in Conns : Flying(n, k) =>
               /\ runs[k] = <<>> /\ outcome[k] # "answered"
               /\ \A m \in Conns : Flying(m, k) => m = n
      BY <1>0 DEF FlightInv
    <3>2. runs'[k] = runs[k] /\ (k > ncall' => k > ncall)
      BY <1>2
    <3>3. \/ outcome'[k] = outcome[k]
          \/ outcome'[k] \notin {"answered", "notSupported", "invalid"}
          \/ outcome'[k] = "answered" /\ Len(runs[k]) = 1
          \/ /\ outcome'[k] # "answered"
             /\ runs[k] = <<>> /\ \A n \in Conns : ~Flying(n, k)
      BY <1>2
    <3>4. QED
      BY <2>1, <2>2, <3>1, <3>2, <3>3
  <2>4. \A n \in Conns : Len(up'[n]) <= 1
    BY <1>0, <1>2 DEF FlightInv
  <2>5. QED
    BY <2>3, <2>4 DEF FlightInv
<1>3. ASSUME NEW c \in Callers, NEW m \in Methods, NEW z \in Sizes,
             BeginRequest(c, m, z)
      PROVE  FlightInv'
  <2>1. \A k \in Calls : k > ncall' => k > ncall
    BY <1>0, <1>3 DEF BeginRequest, Calls
  <2>2. \A k \in Calls : outcome'[k] \in {outcome[k], "disconnected"}
    BY <1>0, <1>3 DEF BeginRequest, TypeOK
  <2>3. QED
    BY <1>2, <1>3, <2>1, <2>2 DEF BeginRequest, sensor
<1>4. ASSUME NEW c \in Callers, Finish(c) PROVE FlightInv'
  <2>1. CASE ~IsRequest(c)
    BY <1>1, <1>4, <2>1 DEF Finish, sensor
  <2>2. CASE IsRequest(c)
    <3> DEFINE id == cur[c].id
               x == CASE cur[c].ret = "ok"         -> "answered"
                      [] cur[c].ret = "unparsable" -> "protocol"
                      [] cur[c].ret = "legacy"     -> "notSupported"
                      [] OTHER          -> ErrorFromTransport(cur[c].ret)
    <3>1. outcome' = [outcome EXCEPT ![id] = x]
      BY <1>4, <2>2 DEF Finish
    <3>2. /\ x = "answered" => cur[c].ret = "ok"
          /\ x \in {"notSupported", "invalid"} =>
               cur[c].ret \in {"legacy", "large"}
      BY DEF ErrorFromTransport
    <3>3. SendOf(c) /\ pc[c] = "finish"
      BY <1>0, <1>4, <2>2 DEF SendInv, Finish
    <3>4. /\ x = "answered" => Len(runs[id]) = 1
          /\ x \in {"notSupported", "invalid"} =>
               runs[id] = <<>> /\ \A n \in Conns : ~Flying(n, id)
      BY <3>2, <3>3 DEF SendOf, Unsent, Answered
    <3> HIDE DEF x, id
    <3>5. \A k \in Calls : outcome'[k] = IF k = id THEN x ELSE outcome[k]
      BY <1>0, <3>1 DEF TypeOK
    <3>6. UNCHANGED <<runs, up, ncall>>
      BY <1>4 DEF Finish, sensor
    <3>7. QED
      BY <1>2, <3>4, <3>5, <3>6
  <2>3. QED
    BY <2>1, <2>2
<1>5. ASSUME NEW c \in Callers, Send(c), up' # up PROVE FlightInv'
  <2>1. /\ socket \in Conns /\ pc[c] = "send"
        /\ \A k : Flying(socket, k)' <=> cur[c].id = k /\ ~cur[c].probing
        /\ \A n \in Conns \ {socket} : up'[n] = up[n]
        /\ Len(up'[socket]) = 1 /\ UNCHANGED <<runs, socket>>
        /\ up[socket] = <<>>
    BY <1>0, <1>5, Sends
  <2>2. \A n \in Conns \ {socket}, k \in Calls : Flying(n, k)' <=> Flying(n, k)
    BY <2>1 DEF Flying
  <2>3. ASSUME NEW n \in Conns PROVE Len(up'[n]) <= 1
    <3>1. CASE n = socket
      <4>1. Len(up'[n]) = 1
        BY <2>1, <3>1
      <4>2. QED
        BY <4>1
    <3>2. CASE n # socket
      BY <1>0, <2>1, <3>2 DEF FlightInv
    <3>3. QED
      BY <3>1, <3>2
  <2>4. UNCHANGED <<ncall, outcome>>
    BY <1>5 DEF Send
  <2>5. ASSUME NEW k \in Calls, cur[c].id = k
        PROVE  /\ runs[k] = <<>> /\ \A n \in Conns : ~Flying(n, k)
               /\ k <= ncall /\ outcome[k] = "none"
    <3>1. IsRequest(c)
      BY <2>5 DEF IsRequest, Calls
    <3>2. SendOf(c)
      BY <1>0, <3>1 DEF SendInv
    <3>3. QED
      BY <1>0, <2>1, <2>5, <3>1, <3>2 DEF SendOf, Unsent, CallInv
  <2>6. ASSUME NEW k \in Calls
        PROVE  /\ Len(runs'[k]) <= 1
               /\ outcome'[k] = "answered" => Len(runs'[k]) = 1
               /\ k > ncall' \/ outcome'[k] \in {"notSupported", "invalid"} =>
                    runs'[k] = <<>> /\ \A n \in Conns : ~Flying(n, k)'
               /\ \A n \in Conns : Flying(n, k)' =>
                    /\ runs'[k] = <<>> /\ outcome'[k] # "answered"
                    /\ \A m \in Conns : Flying(m, k)' => m = n
    <3>1. /\ Len(runs[k]) <= 1
          /\ outcome[k] = "answered" => Len(runs[k]) = 1
          /\ k > ncall \/ outcome[k] \in {"notSupported", "invalid"} =>
               runs[k] = <<>> /\ \A n \in Conns : ~Flying(n, k)
          /\ \A n \in Conns : Flying(n, k) =>
               /\ runs[k] = <<>> /\ outcome[k] # "answered"
               /\ \A m \in Conns : Flying(m, k) => m = n
      BY <1>0 DEF FlightInv
    <3>2. CASE cur[c].id = k /\ ~cur[c].probing
      <4>1. ~(k > ncall)
        BY <1>0, <2>5, <3>2 DEF Calls
      <4>2. QED
        BY <2>1, <2>2, <2>4, <2>5, <3>1, <3>2, <4>1
    <3>3. CASE ~(cur[c].id = k /\ ~cur[c].probing)
      <4>1. \A n \in Conns : Flying(n, k)' => Flying(n, k)
        BY <2>1, <2>2, <3>3
      <4>2. UNCHANGED <<runs, ncall, outcome>>
        BY <2>1, <2>4
      <4>3. QED
        BY <3>1, <4>1, <4>2
    <3>4. QED
      BY <3>2, <3>3
  <2>7. QED
    BY <2>3, <2>6 DEF FlightInv
<1>6. ASSUME NEW n \in Conns, NEW b \in AnyBody, NEW e \in Echoes,
             SensorAnswers(n, b, e)
      PROVE  FlightInv'
  <2>1. /\ \A m \in Conns : \A k : Flying(m, k)' <=> Flying(m, k) /\ m # n
        /\ \A m \in Conns : Len(up'[m]) <= 1
        /\ \A k \in Calls :
             \/ runs'[k] = runs[k] /\ ~Flying(n, k)
             \/ runs[k] = <<>> /\ Len(runs'[k]) = 1 /\ Flying(n, k)
    BY <1>0, <1>6, AnswerRuns
  <2>2. UNCHANGED <<ncall, outcome>>
    BY <1>6 DEF SensorAnswers, calls
  <2>3. ASSUME NEW k \in Calls
        PROVE  /\ Len(runs'[k]) <= 1
               /\ outcome'[k] = "answered" => Len(runs'[k]) = 1
               /\ k > ncall' \/ outcome'[k] \in {"notSupported", "invalid"} =>
                    runs'[k] = <<>> /\ \A m \in Conns : ~Flying(m, k)'
               /\ \A m \in Conns : Flying(m, k)' =>
                    /\ runs'[k] = <<>> /\ outcome'[k] # "answered"
                    /\ \A l \in Conns : Flying(l, k)' => l = m
    <3>1. /\ Len(runs[k]) <= 1
          /\ outcome[k] = "answered" => Len(runs[k]) = 1
          /\ k > ncall \/ outcome[k] \in {"notSupported", "invalid"} =>
               runs[k] = <<>> /\ \A m \in Conns : ~Flying(m, k)
          /\ \A m \in Conns : Flying(m, k) =>
               /\ runs[k] = <<>> /\ outcome[k] # "answered"
               /\ \A l \in Conns : Flying(l, k) => l = m
      BY <1>0 DEF FlightInv
    <3>2. CASE runs'[k] = runs[k]
      BY <2>1, <2>2, <3>1, <3>2
    <3>3. CASE runs[k] = <<>> /\ Len(runs'[k]) = 1 /\ Flying(n, k)
      BY <2>1, <2>2, <3>1, <3>3
    <3>4. QED
      BY <2>1, <3>2, <3>3
  <2>4. QED
    BY <2>1, <2>3 DEF FlightInv
<1>7. ASSUME NEW n \in Conns, NEW k \in 0..2, ConnectionLost(n, k)
      PROVE  FlightInv'
  <2>1. \A m \in Conns : up'[m] \in {up[m], <<>>}
    BY <1>0, <1>7 DEF ConnectionLost, TypeOK
  <2>2. QED
    BY <1>1, <1>7, <2>1 DEF ConnectionLost, calls
<1>8. ASSUME SensorReboots PROVE FlightInv'
  BY <1>1, <1>8 DEF SensorReboots, calls
<1>9. ASSUME NEW c \in Callers, InsideStep(c), up' = up PROVE FlightInv'
  <2>1. Inside(c)
    BY <1>0, <1>9, InsideKeeps
  <2>2. QED
    BY <1>1, <1>9, <2>1 DEF Inside
<1>10. ASSUME NEW c \in Callers, Connect(c) \/ Disconnect(c) PROVE FlightInv'
  BY <1>1, <1>10 DEF Connect, Disconnect, calls
<1>11. CASE UNCHANGED vars
  BY <1>1, <1>11 DEF vars, calls, sensor
<1>12. ASSUME NEW c \in Callers, InsideStep(c) PROVE FlightInv'
  <2>1. up' = up \/ Send(c)
    BY <1>12 DEF InsideStep, Refuse, UseSocket, Reopen, RecvHeader,
                 RecvProbeBody, RecvBody, RecvFails, sensor
  <2>2. QED
    BY <1>5, <1>9, <1>12, <2>1
<1>13. QED
  BY <1>3, <1>4, <1>6, <1>7, <1>8, <1>10, <1>11, <1>12
  DEF Next, ThreadStep, Application, Sensor, InsideStep

(* What a step has to leave alone for a request to keep its place. *)
LEMMA SendFrame ==
  ASSUME NEW d \in Callers, NEW k, cur[d].id = k, SendOf(d),
         cur'[d] = cur[d], pc'[d] = pc[d], runs'[k] = runs[k],
         \A n \in Conns : Flying(n, k)' => Flying(n, k),
         pc[d] = "header" /\ ~cur[d].probing /\ down'[socket'] # <<>> =>
           down[socket] # <<>>
  PROVE  SendOf(d)'
<1>1. cur'[d].id = k
  OBVIOUS
<1>2. Unsent(d)' => Unsent(d)
  BY DEF Unsent
<1>3. Answered(d)' => Answered(d)
  BY DEF Answered
<1>4. QED
  BY <1>1, <1>2, <1>3 DEF SendOf

(* A request outside TcpClient keeps its place in a step of another thread. *)
LEMMA OthersSend ==
  ASSUME TypeOK, LockInv, NEW c \in Callers, NEW d \in Callers \ {c},
         SendOf(d), OthersStay(c), mutex \in {NoCaller, c}, UNCHANGED runs,
         \A n \in Conns : Flying(n, cur[d].id)' => Flying(n, cur[d].id)
  PROVE  SendOf(d)'
<1>1. pc[d] # "header"
  BY TransportAssumption DEF LockInv, Holding
<1>2. cur'[d] = cur[d] /\ pc'[d] = pc[d]
  BY DEF OthersStay
<1> DEFINE k == cur[d].id
<1>3. \A n \in Conns : Flying(n, k)' => Flying(n, k)
  OBVIOUS
<1>4. cur[d].id = k /\ runs'[k] = runs[k]
  OBVIOUS
<1>5. QED
  BY <1>1, <1>2, <1>3, <1>4, SendFrame

(* A request whose call ends with a failure: nothing is claimed of it. *)
LEMMA FailedSend ==
  ASSUME NEW c \in Callers,
         NEW ret \in {"transport", "timeout", "protocol", "unparsable"},
         Ends(c, ret)
  PROVE  SendOf(c)'
<1>1. ~Unsent(c)' /\ ~Answered(c)'
  BY DEF Ends, Unsent, Answered, Holding
<1>2. QED
  BY <1>1 DEF SendOf

(* A request that stays unsent. *)
LEMMA UnsentSend ==
  ASSUME NEW c \in Callers, Unsent(c), SendOf(c), ~Answered(c)',
         cur'[c].id = cur[c].id, UNCHANGED <<runs, up>>
  PROVE  SendOf(c)'
<1>1. \A n \in Conns : Flying(n, cur[c].id)' <=> Flying(n, cur[c].id)
  BY DEF Flying
<1>2. QED
  BY <1>1 DEF SendOf

(* The request of the thread that takes a step inside TcpClient. *)
LEMMA InsideSend ==
  ASSUME IInv, NEW c \in Callers, IsRequest(c), SendOf(c), InsideStep(c)
  PROVE  SendOf(c)'
<1>0. TypeOK /\ LockInv /\ StreamInv /\ cur[c] \in Call
  BY DEF IInv, TypeOK
<1>1. ASSUME NEW ret \in {"transport", "timeout", "protocol"}, Fail(c, ret)
      PROVE  SendOf(c)'
  BY <1>0, <1>1, Failures, FailedSend
<1>2. CASE Refuse(c)
  <2>1. PICK ret \in {"legacy", "large", "transport"} : Return(c, ret)
    BY <1>2 DEF Refuse
  <2>2. Ends(c, ret)
    BY <1>0, <2>1, Returns
  <2>3. Unsent(c) /\ ~Answered(c)'
    BY <1>2, <2>2 DEF Refuse, EntersSendRequest, Unsent, Ends, Answered
  <2>4. cur'[c].id = cur[c].id /\ UNCHANGED <<runs, up>>
    BY <1>2, <2>2 DEF Ends, Refuse, sensor
  <2>5. QED
    BY <2>3, <2>4, UnsentSend
<1>3. CASE UseSocket(c)
  <2>1. pc'[c] = "send" /\ pc[c] = "lock" /\ UNCHANGED <<cur, runs, up>>
    BY <1>0, <1>3 DEF UseSocket, EntersSendRequest, TypeOK, sensor
  <2>2. Unsent(c) /\ ~Answered(c)'
    BY <2>1 DEF Unsent, Answered
  <2>3. QED
    BY <2>1, <2>2, UnsentSend
<1>4. CASE Reopen(c)
  <2>1. /\ cur'[c].id = cur[c].id
        /\ \/ pc'[c] = "send"
           \/ pc'[c] = "finish" /\ cur'[c].ret = "transport"
    BY <1>0, <1>4, Connects DEF Reopen
  <2>2. Unsent(c) /\ UNCHANGED <<runs, up>>
    BY <1>4 DEF Reopen, EntersSendRequest, Unsent
  <2>3. ~Answered(c)'
    BY <2>1 DEF Answered
  <2>4. QED
    BY <2>1, <2>2, <2>3, UnsentSend
<1>5. CASE Send(c)
  <2>1. CASE Fail(c, "transport")
    BY <1>1, <2>1
  <2>2. CASE /\ UNCHANGED <<mutex, socket, cur, down>>
             /\ pc' = [pc EXCEPT ![c] = "header"]
    <3>1. pc'[c] = "header" /\ pc[c] = "send" /\ UNCHANGED runs
      BY <1>0, <1>5, <2>2 DEF Send, At, TypeOK
    <3>2. socket # 0
      BY <1>0, <1>5, HolderHasSocket, TransportAssumption
      DEF Send, At, LockInv
    <3>3. down[socket] = <<>>
      BY <1>0, <1>5, <3>2 DEF StreamInv, Send
    <3>4. ~Answered(c)'
      BY <2>2, <3>1, <3>3 DEF Answered
    <3>5. Unsent(c)' => cur[c].probing
      BY <2>2, <3>1 DEF Unsent
    <3>6. CASE up' = up
      BY <2>2, <3>1, <3>4, <3>6, UnsentSend DEF Unsent
    <3>7. CASE up' # up
      <4>1. /\ \A k : Flying(socket, k)' <=> cur[c].id = k /\ ~cur[c].probing
            /\ \A n \in Conns \ {socket} : up'[n] = up[n]
            /\ UNCHANGED socket
        BY <1>0, <1>5, <3>7, Sends
      <4>2. \A n \in Conns \ {socket} : \A k : Flying(n, k)' <=> Flying(n, k)
        BY <4>1 DEF Flying
      <4>3. ASSUME cur[c].probing
            PROVE  /\ runs'[cur'[c].id] = <<>>
                   /\ \A n \in Conns : ~Flying(n, cur[c].id)'
        <5>1. runs[cur[c].id] = <<>> /\ \A n \in Conns : ~Flying(n, cur[c].id)
          BY <3>1 DEF SendOf, Unsent
        <5>2. ASSUME NEW n \in Conns PROVE ~Flying(n, cur[c].id)'
          <6>1. CASE n = socket
            BY <4>1, <4>3, <6>1, <2>2
          <6>2. CASE n # socket
            BY <4>2, <5>1, <6>2, <2>2
          <6>3. QED
            BY <6>1, <6>2
        <5>3. QED
          BY <2>2, <3>1, <5>1, <5>2
      <4>4. QED
        BY <3>4, <3>5, <4>3 DEF SendOf
    <3>8. QED
      BY <3>6, <3>7
  <2>3. QED
    BY <1>5, <2>1, <2>2 DEF Send
<1>6. CASE RecvHeader(c)
  <2>1. CASE Fail(c, "protocol")
    BY <1>1, <2>1
  <2>2. CASE UNCHANGED <<mutex, socket, cur>> /\ pc' = [pc EXCEPT ![c] = "body"]
    <3>1. /\ pc'[c] = "body" /\ pc[c] = "header" /\ down[socket] # <<>>
          /\ UNCHANGED <<runs, up, cur>>
      BY <1>0, <1>6, <2>2 DEF RecvHeader, At, TypeOK
    <3>2. Unsent(c)' => Unsent(c) /\ cur[c].probing
      BY <3>1 DEF Unsent, Holding
    <3>3. Answered(c)' => Answered(c)
      BY <3>1 DEF Answered
    <3>4. \A n \in Conns : Flying(n, cur[c].id)' <=> Flying(n, cur[c].id)
      BY <3>1 DEF Flying
    <3>5. QED
      BY <3>1, <3>2, <3>3, <3>4 DEF SendOf
  <2>3. QED
    BY <1>6, <2>1, <2>2 DEF RecvHeader
<1>7. CASE RecvProbeBody(c)
  <2>0. Unsent(c) /\ UNCHANGED <<runs, up>>
    BY <1>7 DEF RecvProbeBody, At, Unsent, Holding
  <2>1. CASE LegacyFound(c)
    <3>1. Ends(c, "legacy")
      BY <1>0, <2>1, Returns DEF LegacyFound
    <3>2. ~Answered(c)' /\ cur'[c].id = cur[c].id
      BY <3>1 DEF Ends, Answered
    <3>3. QED
      BY <2>0, <3>2, UnsentSend
  <2>2. CASE Fail(c, "protocol")
    BY <1>1, <2>2
  <2>3. CASE /\ pc' = [pc EXCEPT ![c] = "send"]
             /\ cur' = [cur EXCEPT ![c].probing = FALSE]
    <3>1. pc'[c] = "send" /\ cur'[c] = [cur[c] EXCEPT !.probing = FALSE]
      BY <1>0, <2>3 DEF TypeOK
    <3>2. cur'[c].id = cur[c].id
      BY <1>0, <3>1 DEF Call
    <3>3. ~Answered(c)'
      BY <3>1 DEF Answered
    <3>4. QED
      BY <2>0, <3>2, <3>3, UnsentSend
  <2>4. QED
    BY <1>7, <2>1, <2>2, <2>3 DEF RecvProbeBody
<1>8. CASE RecvBody(c)
  <2>1. CASE Fail(c, "protocol")
    BY <1>1, <2>1
  <2>2. CASE Return(c, "unparsable")
    BY <1>0, <2>2, Returns, FailedSend
  <2>3. CASE Return(c, "ok")
    <3>1. Ends(c, "ok")
      BY <1>0, <2>3, Returns
    <3>2. ~Unsent(c)' /\ cur'[c].id = cur[c].id
      BY <3>1 DEF Ends, Unsent, Holding
    <3>3. Answered(c) /\ UNCHANGED runs
      BY <1>8 DEF RecvBody, At, Answered
    <3>4. QED
      BY <3>2, <3>3 DEF SendOf
  <2>4. QED
    BY <1>8, <2>1, <2>2, <2>3 DEF RecvBody
<1>9. CASE RecvFails(c)
  BY <1>1, <1>9 DEF RecvFails, RecvErrors
<1>10. QED
  BY <1>2, <1>3, <1>4, <1>5, <1>6, <1>7, <1>8, <1>9 DEF InsideStep

(* What the sensor has done with each request stays what its thread knows. *)
LEMMA SendStep ==
  ASSUME IInv, RpcInv, [Next]_vars
  PROVE  SendInv'
<1>0. /\ TypeOK /\ LockInv /\ StreamInv /\ CallInv /\ FlightInv /\ SendInv
      /\ \A c \in Callers : IsRequest(c) => cur[c].id \in Calls
  BY DEF IInv, RpcInv, TypeOK, Call, IsRequest, Calls
<1>1. ASSUME NEW c \in Callers, InsideStep(c) PROVE SendInv'
  <2>1. Inside(c)
    BY <1>0, <1>1, InsideKeeps
  <2>2. ASSUME NEW d \in Callers, IsRequest(d)' PROVE SendOf(d)'
    <3>1. IsRequest(d) /\ SendOf(d)
      BY <1>0, <2>1, <2>2 DEF Inside, OthersStay, IsRequest, SendInv
    <3>2. CASE d = c
      BY <1>1, <3>1, <3>2, InsideSend
    <3>3. CASE d # c
      <4> DEFINE k == cur[d].id
      <4>1. k # cur[c].id
        BY <1>0, <3>1, <3>3 DEF CallInv, IsRequest
      <4>2. \A n \in Conns : Flying(n, k)' => Flying(n, k)
        <5>1. CASE up' = up
          BY <2>1, <3>3, <5>1 DEF Flying, Inside, OthersStay
        <5>2. CASE up' # up
          <6>1. Send(c)
            BY <1>1, <5>2 DEF InsideStep, Refuse, UseSocket, Reopen, RecvHeader,
                              RecvProbeBody, RecvBody, RecvFails, sensor
          <6>2. /\ \A j : Flying(socket, j)' <=>
                          cur[c].id = j /\ ~cur[c].probing
                /\ \A n \in Conns \ {socket} : up'[n] = up[n]
                /\ UNCHANGED <<socket, cur>>
            BY <1>0, <5>2, <6>1, Sends
          <6>3. \A n \in Conns \ {socket} :
                  \A j : Flying(n, j)' <=> Flying(n, j)
            BY <6>2 DEF Flying
          <6>4. QED
            BY <4>1, <6>2, <6>3
        <5>3. QED
          BY <5>1, <5>2
      <4>3. QED
        BY <1>0, <2>1, <3>1, <3>3, <4>2, OthersSend DEF Inside
    <3>4. QED
      BY <3>2, <3>3
  <2>3. QED
    BY <2>2 DEF SendInv
<1>2. ASSUME UNCHANGED <<pc, cur, runs>>,
             \A n \in Conns : \A k : Flying(n, k)' => Flying(n, k),
             \A d \in Callers :
               pc[d] = "header" /\ down'[socket'] # <<>> => down[socket] # <<>>
      PROVE  SendInv'
  <2>1. ASSUME NEW d \in Callers, IsRequest(d)' PROVE SendOf(d)'
    <3> DEFINE k == cur[d].id
    <3>1. SendOf(d)
      BY <1>0, <1>2, <2>1 DEF SendInv, IsRequest
    <3>2. \A n \in Conns : Flying(n, k)' => Flying(n, k)
      BY <1>2
    <3>3. QED
      BY <1>2, <3>1, <3>2, SendFrame
  <2>2. QED
    BY <2>1 DEF SendInv
<1>3. ASSUME NEW c \in Callers, OthersStay(c), mutex \in {NoCaller, c},
             IsRequest(c)' => SendOf(c)', UNCHANGED <<runs, up>>
      PROVE  SendInv'
  <2>1. ASSUME NEW d \in Callers \ {c}, IsRequest(d)' PROVE SendOf(d)'
    <3>1. SendOf(d)
      BY <1>0, <1>3, <2>1 DEF SendInv, IsRequest, OthersStay
    <3>2. \A n \in Conns : Flying(n, cur[d].id)' => Flying(n, cur[d].id)
      BY <1>3, <2>1 DEF Flying, OthersStay
    <3>3. QED
      BY <1>0, <1>3, <3>1, <3>2, OthersSend
  <2>2. QED
    BY <1>3, <2>1 DEF SendInv
<1>4. ASSUME NEW c \in Callers, OthersStay(c), UNCHANGED <<client, sensor>>,
             IsRequest(c)' => SendOf(c)'
      PROVE  SendInv'
  <2>1. ASSUME NEW d \in Callers \ {c}, IsRequest(d)' PROVE SendOf(d)'
    <3> DEFINE k == cur[d].id
    <3>1. SendOf(d) /\ cur'[d] = cur[d] /\ pc'[d] = pc[d]
      BY <1>0, <1>4, <2>1 DEF SendInv, IsRequest, OthersStay
    <3>2. \A n \in Conns : Flying(n, k)' => Flying(n, k)
      BY <1>4, <3>1 DEF Flying, sensor
    <3>3. UNCHANGED <<runs, down, socket>>
      BY <1>4 DEF sensor, client
    <3>4. QED
      BY <3>1, <3>2, <3>3, SendFrame
  <2>2. QED
    BY <1>4, <2>1 DEF SendInv
<1>5. ASSUME NEW c \in Callers, NEW m \in Methods, NEW z \in Sizes,
             BeginRequest(c, m, z)
      PROVE  SendInv'
  <2> DEFINE k == ncall + 1
             b == [NoCall EXCEPT !.id = k, !.method = m, !.size = z]
  <2>1. CASE reconnect
    <3>1. /\ cur' = [cur EXCEPT ![c] = b] /\ pc' = [pc EXCEPT ![c] = "lock"]
          /\ UNCHANGED <<client, sensor>>
      BY <1>5, <2>1 DEF BeginRequest
    <3>2. b.id = k
      BY DEF NoCall
    <3> HIDE DEF b
    <3>3. cur'[c].id = k /\ pc'[c] = "lock" /\ OthersStay(c)
      BY <1>0, <3>1, <3>2 DEF TypeOK, OthersStay
    <3>4. k \in Calls /\ k > ncall
      BY <1>0, <1>5, TransportAssumption DEF BeginRequest, TypeOK, Calls
    <3>5. runs[k] = <<>> /\ \A n \in Conns : ~Flying(n, k)
      BY <1>0, <3>4 DEF FlightInv
    <3> HIDE DEF k
    <3>6. runs'[cur'[c].id] = <<>> /\ \A n \in Conns : ~Flying(n, cur[c].id)'
      BY <3>1, <3>3, <3>5 DEF Flying, sensor
    <3>7. ~Answered(c)'
      BY <3>3 DEF Answered
    <3>8. QED
      BY <1>4, <3>1, <3>3, <3>6, <3>7 DEF SendOf
  <2>2. CASE ~reconnect
    <3>1. UNCHANGED <<pc, cur, client, sensor>>
      BY <1>5, <2>2 DEF BeginRequest
    <3>2. QED
      BY <1>2, <3>1 DEF Flying, sensor, client
  <2>3. QED
    BY <2>1, <2>2
<1>6. ASSUME NEW c \in Callers, Finish(c) PROVE SendInv'
  <2>1. cur'[c].id = 0 /\ OthersStay(c)
    BY <1>0, <1>6 DEF Finish, TypeOK, OthersStay, NoCall
  <2>2. QED
    BY <1>4, <1>6, <2>1 DEF Finish, IsRequest
<1>7. ASSUME NEW c \in Callers, Connect(c) PROVE SendInv'
  <2>1. NoCall \in Call /\ NoCall.id = 0
    BY TransportAssumption DEF NoCall, Call, Rets
  <2>2. cur'[c].id = 0 /\ OthersStay(c)
    BY <1>0, <1>7, <2>1, Connects DEF Connect
  <2>3. QED
    BY <1>3, <1>7, <2>2 DEF Connect, IsRequest
<1>8. ASSUME NEW c \in Callers, Disconnect(c) PROVE SendInv'
  <2>1. \A d \in Callers : pc[d] # "header"
    BY <1>0, <1>8, TransportAssumption DEF Disconnect, LockInv, Holding
  <2>2. QED
    BY <1>2, <1>8, <2>1 DEF Disconnect, calls, Flying
<1>9. ASSUME NEW n \in Conns, NEW b \in AnyBody, NEW e \in Echoes,
             SensorAnswers(n, b, e)
      PROVE  SendInv'
  <2>1. /\ \A m \in Conns : \A k : Flying(m, k)' <=> Flying(m, k) /\ m # n
        /\ \A k \in Calls :
             \/ runs'[k] = runs[k] /\ ~Flying(n, k)
             \/ runs[k] = <<>> /\ Len(runs'[k]) = 1 /\ Flying(n, k)
    BY <1>0, <1>9, AnswerRuns
  <2>2. UNCHANGED <<pc, cur, socket>>
    BY <1>9 DEF SensorAnswers, calls, client
  <2>3. ASSUME NEW d \in Callers, IsRequest(d)' PROVE SendOf(d)'
    <3> DEFINE k == cur[d].id
    <3>1. SendOf(d) /\ k \in Calls
      BY <1>0, <2>2, <2>3 DEF SendInv, IsRequest
    <3>2. CASE Flying(n, k)
      <4>1. ~Unsent(d)
        BY <3>1, <3>2 DEF SendOf
      <4>2. ~Unsent(d)'
        BY <2>2, <4>1 DEF Unsent
      <4>3. runs[k] = <<>> /\ \A m \in Conns : Flying(m, k) => m = n
        BY <1>0, <3>1, <3>2 DEF FlightInv
      <4>4. Len(runs'[k]) = 1
        BY <2>1, <3>1, <3>2
      <4>5. QED
        BY <2>2, <4>2, <4>4 DEF SendOf
    <3>3. CASE ~Flying(n, k)
      <4>1. runs'[k] = runs[k]
        BY <2>1, <3>1, <3>3
      <4>2. \A m \in Conns : Flying(m, k)' => Flying(m, k)
        BY <2>1, <2>2
      <4>3. ASSUME pc[d] = "header", ~cur[d].probing, down'[socket'] # <<>>
            PROVE  down[socket] # <<>>
        <5>1. mutex = d /\ socket # 0 /\ socket \in Conns
          BY <1>0, <4>3, HolderHasSocket, TransportAssumption
          DEF LockInv, Holding
        <5>2. CASE n = socket
          <6>1. up[n] # <<>> /\ up[n] \in Seq(Frame) /\ Len(up[n]) <= 1
            BY <1>0, <1>9 DEF SensorAnswers, TypeOK, FlightInv
          <6>2. Len(up[n]) = 1
            BY <6>1, HeadOfOne
          <6>3. up[n][1] = Expected(d)
            BY <1>0, <4>3, <5>1, <5>2, <6>2 DEF StreamInv, At
          <6>4. up[n][1].call = k /\ ~up[n][1].probing
            BY <4>3, <6>3 DEF Expected
          <6>5. Flying(n, k)
            BY <6>2, <6>4 DEF Flying
          <6>6. QED
            BY <3>3, <6>5
        <5>3. CASE n # socket
          BY <1>9, <2>2, <4>3, <5>3 DEF SensorAnswers
        <5>4. QED
          BY <5>2, <5>3
      <4>4. QED
        BY <2>2, <3>1, <4>1, <4>2, <4>3, SendFrame
    <3>4. QED
      BY <3>2, <3>3
  <2>4. QED
    BY <2>3 DEF SendInv
<1>10. ASSUME NEW n \in Conns, NEW k \in 0..2, ConnectionLost(n, k)
       PROVE  SendInv'
  <2>1. \A m \in Conns : up'[m] \in {up[m], <<>>}
    BY <1>0, <1>10 DEF ConnectionLost, TypeOK
  <2>2. \A m \in Conns : \A j : Flying(m, j)' => Flying(m, j)
    BY <2>1 DEF Flying
  <2>3. UNCHANGED <<pc, cur, runs, socket>>
    BY <1>10 DEF ConnectionLost, calls, client
  <2>4. ASSUME NEW d \in Callers, pc[d] = "header", down'[socket'] # <<>>
        PROVE  down[socket] # <<>>
    <3>1. socket \in Conns
      BY <1>0, <2>4, HolderHasSocket DEF LockInv, Holding
    <3>2. CASE n # socket
      BY <1>0, <1>10, <2>3, <2>4, <3>1, <3>2 DEF ConnectionLost, TypeOK
    <3>3. CASE n = socket
      <4>1. SUFFICES ASSUME down[socket] = <<>> PROVE FALSE
        OBVIOUS
      <4>2. k <= Len(down[n]) /\ Len(down[n]) = 0 /\ k \in Nat
        BY <1>10, <3>3, <4>1 DEF ConnectionLost
      <4>3. k = 0
        BY <4>2
      <4>4. down'[n] = SubSeq(<<>>, 1, 0)
        BY <1>0, <1>10, <3>3, <4>1, <4>3 DEF ConnectionLost, TypeOK
      <4>5. QED
        BY <2>3, <2>4, <3>3, <4>4
    <3>4. QED
      BY <3>2, <3>3
  <2>5. QED
    BY <1>2, <2>2, <2>3, <2>4
<1>11. ASSUME SensorReboots PROVE SendInv'
  <2>1. UNCHANGED <<pc, cur, runs, socket, down>>
    BY <1>11 DEF SensorReboots, calls, client
  <2>2. \A n \in Conns : \A k : ~Flying(n, k)'
    BY <1>11 DEF SensorReboots, Flying
  <2>3. QED
    BY <1>2, <2>1, <2>2
<1>12. CASE UNCHANGED vars
  BY <1>2, <1>12 DEF vars, calls, sensor, client, Flying
<1>13. QED
  BY <1>1, <1>5, <1>6, <1>7, <1>8, <1>9, <1>10, <1>11, <1>12
  DEF Next, ThreadStep, Application, Sensor, InsideStep

(* Nothing is on its way at the start. *)
LEMMA RpcInvInit == Init => RpcInv
<1> SUFFICES ASSUME Init PROVE RpcInv
  OBVIOUS
<1> USE DEF Init
<1>1. CallInv /\ SendInv
  BY DEF CallInv, SendInv, IsRequest, NoCall
<1>2. \A n \in Conns : Len(up[n]) = 0
  OBVIOUS
<1>3. \A n \in Conns, k \in Calls : ~Flying(n, k)
  BY DEF Flying
<1>4. \A k \in Calls : runs[k] = <<>> /\ Len(runs[k]) = 0 /\ outcome[k] = "none"
  OBVIOUS
<1>5. FlightInv
  BY <1>2, <1>3, <1>4 DEF FlightInv
<1>6. QED
  BY <1>1, <1>5 DEF RpcInv

(* The invariant behind the refinement holds in every reachable state. *)
THEOREM CallsInvariant == Spec => []RpcInv
<1>1. IInv /\ RpcInv /\ [Next]_vars => RpcInv'
  BY CallStep, FlightStep, SendStep DEF RpcInv
<1>2. QED
  BY <1>1, RpcInvInit, Inductive, PTL DEF Spec

-----------------------------------------------------------------------------
(* The transport implements AtMostOnceCall. *)

(* A step that tells no caller anything, and runs nothing, is a stutter. *)
LEMMA Stutters ==
  ASSUME UNCHANGED <<ncall, outcome, runs>>
  PROVE  [Rpc!Next]_(Rpc!callVars)
BY DEF Rpc!callVars, Status

(* One request changes what its caller knows of it. *)
LEMMA OneStatus ==
  ASSUME NEW k \in Calls, UNCHANGED runs,
         \A j \in Calls \ {k} : Status(j)' = Status(j),
         \/ Status(k) = "unused" /\ Status(k)' = "pending"
         \/ Status(k) \in {"unused", "pending"} /\ Status(k)' = "failed"
         \/ Status(k) = "pending" /\ Status(k)' = "answered" /\ Len(runs[k]) = 1
         \/ Status(k) = "pending" /\ Status(k)' = "refused" /\ Len(runs[k]) = 0
  PROVE  Rpc!Next
<1> DEFINE st == [j \in Calls |-> Status(j)]
           rn == [j \in Calls |-> Len(runs[j])]
<1>1. st[k] = Status(k) /\ rn[k] = Len(runs[k]) /\ rn' = rn
  OBVIOUS
<1>2. st' = [st EXCEPT ![k] = Status(k)']
  OBVIOUS
<1>3. CASE Status(k) = "unused" /\ Status(k)' = "pending"
  BY <1>1, <1>2, <1>3 DEF Rpc!Next, Rpc!Start
<1>4. CASE Status(k) \in {"unused", "pending"} /\ Status(k)' = "failed"
  BY <1>1, <1>2, <1>4 DEF Rpc!Next, Rpc!GiveUp
<1>5. CASE /\ Status(k) = "pending" /\ Status(k)' = "answered"
           /\ Len(runs[k]) = 1
  BY <1>1, <1>2, <1>5 DEF Rpc!Next, Rpc!Answer
<1>6. CASE /\ Status(k) = "pending" /\ Status(k)' = "refused"
           /\ Len(runs[k]) = 0
  BY <1>1, <1>2, <1>6 DEF Rpc!Next, Rpc!Refuse
<1>7. QED
  BY <1>3, <1>4, <1>5, <1>6

(* Every step is a step of AtMostOnceCall, or changes nothing it knows of. *)
LEMMA RpcStep ==
  ASSUME IInv, RpcInv, [Next]_vars
  PROVE  [Rpc!Next]_(Rpc!callVars)
<1>0. /\ TypeOK /\ LockInv /\ CallInv /\ FlightInv /\ SendInv /\ ncall \in Nat
      /\ \A c \in Callers : IsRequest(c) => cur[c].id \in Calls
      /\ \A k \in Calls : k \in Nat
  BY TransportAssumption DEF IInv, RpcInv, TypeOK, Call, IsRequest, Calls
<1>1. CASE UNCHANGED <<ncall, outcome, runs>>
  BY <1>1, Stutters
<1>2. ASSUME NEW c \in Callers, NEW m \in Methods, NEW z \in Sizes,
             BeginRequest(c, m, z)
      PROVE  Rpc!Next
  <2>0. ncall + 1 \in Calls /\ ncall + 1 > ncall /\ ncall' = ncall + 1
    BY <1>0, <1>2, TransportAssumption DEF BeginRequest, TypeOK, Calls
  <2>1. PICK k \in Calls : k = ncall + 1 /\ k > ncall /\ ncall' = k
    BY <2>0
  <2>2. Status(k) = "unused"
    BY <1>0, <2>1 DEF Status, CallInv
  <2>3. \A j \in Calls \ {k} : j <= ncall <=> j <= ncall'
    BY <1>0, <2>1
  <2>4. UNCHANGED runs
    BY <1>2 DEF BeginRequest, sensor
  <2>5. CASE outcome' = outcome
    <3>1. \A j \in Calls \ {k} : Status(j)' = Status(j)
      BY <2>3, <2>5 DEF Status
    <3>2. Status(k)' = "pending"
      <4>1. k <= ncall' /\ outcome'[k] = "none"
        BY <1>0, <2>1, <2>5 DEF CallInv
      <4>2. QED
        BY <4>1 DEF Status
    <3>3. QED
      BY <2>1, <2>2, <2>4, <3>1, <3>2, OneStatus
  <2>6. CASE outcome' = [outcome EXCEPT ![ncall + 1] = "disconnected"]
    <3>1. outcome'[k] = "disconnected"
          /\ \A j \in Calls \ {k} : outcome'[j] = outcome[j]
      BY <1>0, <2>1, <2>6 DEF TypeOK
    <3>2. \A j \in Calls \ {k} : Status(j)' = Status(j)
      BY <2>3, <3>1 DEF Status
    <3>3. Status(k)' = "failed"
      BY <3>1 DEF Status
    <3>4. QED
      BY <2>1, <2>2, <2>4, <3>2, <3>3, OneStatus
  <2>7. QED
    BY <1>2, <2>5, <2>6 DEF BeginRequest
<1>3. ASSUME NEW c \in Callers, Finish(c), IsRequest(c) PROVE Rpc!Next
  <2>0. PICK k \in Calls : k = cur[c].id
    BY <1>0, <1>3
  <2> DEFINE ended == CASE cur[c].ret = "ok"         -> "answered"
                        [] cur[c].ret = "unparsable" -> "protocol"
                        [] cur[c].ret = "legacy"     -> "notSupported"
                        [] OTHER          -> ErrorFromTransport(cur[c].ret)
  <2>ended. PICK x : x = ended
    OBVIOUS
  <2>1. /\ k <= ncall /\ outcome[k] = "none"
        /\ SendOf(c) /\ pc[c] = "finish" /\ UNCHANGED <<runs, ncall>>
    BY <1>0, <1>3, <2>0 DEF CallInv, SendInv, Finish, sensor
  <2>2. outcome' = [outcome EXCEPT ![k] = x]
    BY <1>3, <2>0, <2>ended DEF Finish
  <2>3. x \in {"answered", "protocol", "notSupported", "timeout", "invalid",
               "disconnected"}
    BY <2>ended DEF ErrorFromTransport
  <2>4. /\ x = "answered" => cur[c].ret = "ok"
        /\ x \in {"notSupported", "invalid"} =>
             cur[c].ret \in {"legacy", "large"}
    BY <2>ended DEF ErrorFromTransport
  <2>5. /\ x = "answered" => Len(runs[k]) = 1
        /\ x \in {"notSupported", "invalid"} => Len(runs[k]) = 0
    <3>1. x = "answered" => Answered(c)
      BY <2>1, <2>4 DEF Answered
    <3>2. x \in {"notSupported", "invalid"} => Unsent(c)
      BY <2>1, <2>4 DEF Unsent
    <3>3. Unsent(c) => runs[k] = <<>>
      BY <2>0, <2>1 DEF SendOf
    <3>4. runs[k] = <<>> => Len(runs[k]) = 0
      OBVIOUS
    <3>5. QED
      BY <2>0, <2>1, <3>1, <3>2, <3>3, <3>4 DEF SendOf
  <2>6. outcome'[k] = x /\ \A j \in Calls \ {k} : outcome'[j] = outcome[j]
    BY <1>0, <2>1, <2>2 DEF TypeOK
  <2>7. \A j \in Calls \ {k} : Status(j)' = Status(j)
    BY <2>1, <2>6 DEF Status
  <2>8. Status(k) = "pending"
    BY <2>1 DEF Status
  <2>9. \/ x = "answered" /\ Status(k)' = "answered"
        \/ x \in {"notSupported", "invalid"} /\ Status(k)' = "refused"
        \/ Status(k)' = "failed"
    BY <2>3, <2>6 DEF Status
  <2>10. QED
    BY <2>1, <2>5, <2>7, <2>8, <2>9, OneStatus
<1>4. ASSUME NEW n \in Conns, NEW b \in AnyBody, NEW e \in Echoes,
             SensorAnswers(n, b, e)
      PROVE  [Rpc!Next]_(Rpc!callVars)
  <2>1. UNCHANGED <<ncall, outcome>>
    BY <1>4 DEF SensorAnswers, calls
  <2>2. \A j \in Calls :
          \/ runs'[j] = runs[j] /\ ~Flying(n, j)
          \/ runs[j] = <<>> /\ Len(runs'[j]) = 1 /\ Flying(n, j)
    BY <1>0, <1>4, AnswerRuns
  <2>3. CASE \E k \in Calls : Flying(n, k)
    <3>1. PICK k \in Calls : Flying(n, k)
      BY <2>3
    <3>2. up[n] # <<>>
      BY <1>4 DEF SensorAnswers
    <3>3. \A j \in Calls \ {k} : ~Flying(n, j)
      BY <1>0, <3>1, <3>2, OneFrame
    <3>4. runs[k] = <<>> /\ Len(runs[k]) = 0 /\ Len(runs'[k]) = 1
      BY <2>2, <3>1, <1>0 DEF FlightInv
    <3>5. \A j \in Calls \ {k} : Len(runs'[j]) = Len(runs[j])
      BY <2>2, <3>3
    <3>6. Status(k) \in {"pending", "failed"}
      <4>1. /\ ~(k > ncall) /\ outcome[k] \notin {"notSupported", "invalid"}
            /\ outcome[k] # "answered"
        BY <1>0, <3>1 DEF FlightInv
      <4>2. k <= ncall
        BY <1>0, <4>1
      <4>3. QED
        BY <4>1, <4>2 DEF Status
    <3>7. \A j \in Calls : Status(j)' = Status(j)
      BY <2>1 DEF Status
    <3> DEFINE st == [j \in Calls |-> Status(j)]
               rn == [j \in Calls |-> Len(runs[j])]
    <3>8. st' = st /\ rn' = [rn EXCEPT ![k] = 1]
      BY <3>4, <3>5, <3>7
    <3>9. st[k] \in {"pending", "failed"} /\ rn[k] = 0
      BY <3>4, <3>6
    <3>10. QED
      BY <3>1, <3>8, <3>9 DEF Rpc!Next, Rpc!Run
  <2>4. CASE \A k \in Calls : ~Flying(n, k)
    <3>1. \A j \in Calls : runs'[j] = runs[j]
      BY <2>2, <2>4
    <3>2. \A j \in Calls : Status(j)' = Status(j)
      BY <2>1 DEF Status
    <3>3. QED
      BY <3>1, <3>2 DEF Rpc!callVars
  <2>5. QED
    BY <2>3, <2>4
<1>5. ASSUME NEW c \in Callers, InsideStep(c) PROVE [Rpc!Next]_(Rpc!callVars)
  <2>1. Inside(c)
    BY <1>0, <1>5, InsideKeeps
  <2>2. QED
    BY <1>1, <2>1 DEF Inside
<1>6. ASSUME NEW c \in Callers,
             Connect(c) \/ Disconnect(c) \/ (Finish(c) /\ ~IsRequest(c))
      PROVE  [Rpc!Next]_(Rpc!callVars)
  BY <1>1, <1>6 DEF Connect, Disconnect, Finish, calls, sensor
<1>7. ASSUME NEW n \in Conns, NEW k \in 0..2,
             ConnectionLost(n, k) \/ SensorReboots
      PROVE  [Rpc!Next]_(Rpc!callVars)
  BY <1>1, <1>7 DEF ConnectionLost, SensorReboots, calls
<1>8. CASE SensorReboots
  BY <1>1, <1>8 DEF SensorReboots, calls
<1>9. CASE UNCHANGED vars
  BY <1>1, <1>9 DEF vars, calls, sensor
<1>10. QED
  BY <1>2, <1>3, <1>4, <1>5, <1>6, <1>7, <1>8, <1>9
  DEF Next, ThreadStep, Application, Sensor, InsideStep

(* No request has been used at the start. *)
LEMMA RpcInit == Init => Rpc!Init
<1> SUFFICES ASSUME Init PROVE Rpc!Init
  OBVIOUS
<1>1. \A k \in Calls : ~(k <= ncall) /\ outcome[k] = "none" /\ runs[k] = <<>>
  BY TransportAssumption DEF Init, Calls
<1>2. \A k \in Calls : Status(k) = "unused" /\ Len(runs[k]) = 0
  BY <1>1 DEF Status
<1>3. QED
  BY <1>2 DEF Rpc!Init

(* Every behaviour of the transport is a behaviour of AtMostOnceCall: the  *)
(* sensor runs a request at most once whatever reconnects happen, an       *)
(* answer means that it ran, kNotSupported and kInvalidParam that it never *)
(* will (ConfigClient::Exchange over TcpClient::SendRequest).              *)
THEOREM TransportIsAtMostOnce == Spec => ImplementsAtMostOnce
<1>1. [](IInv /\ RpcInv) /\ [][Next]_vars => [][Rpc!Next]_(Rpc!callVars)
  BY RpcStep, PTL
<1>2. QED
  BY <1>1, RpcInit, Inductive, CallsInvariant, PTL
  DEF Spec, ImplementsAtMostOnce, Rpc!Spec

-----------------------------------------------------------------------------
(* The worlds of MCConfigTransport: an honest sensor, and one thread. *)

(* Both worlds are behaviours of the transport. *)
LEMMA WorldNext == MCNext => Next
<1> SUFFICES ASSUME MCNext PROVE Next
  OBVIOUS
<1>1. /\ TRUE \in Echoes /\ ProbeMethod \in Methods /\ "fits" \in Sizes
      /\ c1 \in Callers
      /\ HonestBodies \cup {"legacy"} \subseteq AnyBody
  BY TransportAssumption, WorldAssumption DEF HonestBodies, AnyBody
<1>2. CASE Threads
  BY <1>1, <1>2 DEF Threads, Next, Application, Sensor
<1>3. CASE Faults
  BY <1>1, <1>3 DEF Faults, Next
<1>4. QED
  BY <1>2, <1>3 DEF MCNext

(* A thread that waits for a header finds the header of its own exchange. *)
LEMMA HeaderStep ==
  ASSUME IInv, HeaderInv, [Next]_vars
  PROVE  HeaderInv'
<1>0. TypeOK /\ LockInv /\ StreamInv
  BY DEF IInv
<1>1. ASSUME NEW c \in Callers, mutex' = c, pc'[c] = "header",
             down'[socket'] # <<>>
      PROVE  /\ Head(down[socket])'.kind = "header"
             /\ Head(down[socket])'.frame = Expected(c)'
  <2>1. CASE /\ UNCHANGED <<mutex, socket, session>> /\ pc'[c] = pc[c]
             /\ cur'[c] = cur[c] /\ down'[socket] = down[socket]
    <3>1. At(c, "header") /\ down[socket] # <<>> /\ Expected(c)' = Expected(c)
      BY <1>1, <2>1 DEF At, Expected
    <3>2. QED
      BY <2>1, <3>1 DEF HeaderInv
  <2>2. ASSUME NEW d \in Callers, Send(d) PROVE FALSE
    <3>1. socket # 0 /\ mutex = d /\ pc[d] = "send"
      BY <1>0, <2>2, TransportAssumption DEF Send, At, LockInv, TypeOK
    <3>2. mutex' = d /\ UNCHANGED <<socket, down>>
      BY <1>1, <2>2, <3>1, TransportAssumption DEF Send, Fail, Failure, Return
    <3>3. QED
      BY <1>0, <1>1, <2>2, <3>1, <3>2 DEF StreamInv, Send
  <2>3. ASSUME NEW d \in Callers,
               \/ Reopen(d) \/ Connect(d) \/ UseSocket(d) \/ Refuse(d)
               \/ RecvHeader(d) \/ RecvProbeBody(d) \/ RecvBody(d)
               \/ RecvFails(d) \/ Disconnect(d)
        PROVE  FALSE
    <3>1. ASSUME mutex' = d, pc'[d] # "header" PROVE FALSE
      BY <1>1, <3>1
    <3>2. mutex' # NoCaller
      BY <1>1, TransportAssumption
    <3>3. CASE \/ Refuse(d) \/ RecvBody(d) \/ RecvFails(d) \/ Disconnect(d)
      BY <2>3, <3>2, <3>3
      DEF Refuse, RecvBody, RecvFails, Disconnect, Fail, Failure, Return
    <3>4. CASE Reopen(d) \/ Connect(d) \/ UseSocket(d)
      BY <1>0, <2>3, <3>1, <3>2, <3>4
      DEF Reopen, Connect, ConnectLocked, UseSocket, TypeOK
    <3>5. CASE RecvHeader(d)
      BY <1>0, <2>3, <3>1, <3>2, <3>5
      DEF RecvHeader, Fail, Failure, Return, TypeOK, At
    <3>6. CASE RecvProbeBody(d)
      BY <1>0, <2>3, <3>1, <3>2, <3>6
      DEF RecvProbeBody, LegacyFound, Fail, Failure, Return, TypeOK, At
    <3>7. QED
      BY <2>3, <3>3, <3>4, <3>5, <3>6
  <2>4. ASSUME NEW d \in Callers,
               \/ Finish(d)
               \/ \E m \in Methods, z \in Sizes : BeginRequest(d, m, z)
        PROVE  /\ UNCHANGED <<mutex, socket, session, down>> /\ pc'[c] = pc[c]
               /\ cur'[c] = cur[c]
    <3>1. d # c
      BY <1>0, <1>1, <2>4 DEF BeginRequest, Finish, LockInv, Holding, client
    <3>2. QED
      BY <1>0, <2>4, <3>1 DEF BeginRequest, Finish, client, sensor, TypeOK
  <2>5. ASSUME NEW n \in Conns, NEW b \in AnyBody, NEW e \in Echoes,
               SensorAnswers(n, b, e), n = socket
        PROVE  /\ Head(down[socket])'.kind = "header"
               /\ Head(down[socket])'.frame = Expected(c)'
    <3> DEFINE f == Head(up[n])
               part == [kind |-> "header", frame |-> f, echo |-> e, body |-> b]
               ans == [part EXCEPT !.kind = "body"]
    <3>1. UNCHANGED <<mutex, socket, session, pc, cur>>
      BY <2>5 DEF SensorAnswers, client, calls
    <3>2. At(c, "header") /\ Expected(c)' = Expected(c)
      BY <1>1, <3>1 DEF At, Expected
    <3>3. up[n] # <<>> /\ up[n] \in Seq(Frame) /\ socket # 0
      BY <1>0, <2>5, TransportAssumption DEF SensorAnswers, TypeOK, Conns
    <3>4. Len(up[n]) <= 1
          /\ (Len(up[n]) = 1 => up[n][1] = Expected(c) /\ down[n] = <<>>)
      BY <1>0, <2>5, <3>2, <3>3 DEF StreamInv
    <3>5. f = Expected(c) /\ down[n] = <<>>
      BY <3>3, <3>4, HeadOfOne
    <3>6. down'[n] = <<>> \o <<part, ans>>
      BY <1>0, <2>5, <3>5 DEF SensorAnswers, TypeOK
    <3>7. part.kind = "header" /\ part.frame = f
      OBVIOUS
    <3> HIDE DEF part, ans, f
    <3>8. Head(down'[n]) = part
      BY <3>6
    <3>9. QED
      BY <2>5, <3>1, <3>2, <3>5, <3>7, <3>8
  <2>6. ASSUME NEW n \in Conns, NEW b \in AnyBody, NEW e \in Echoes,
               SensorAnswers(n, b, e), n # socket
        PROVE  /\ UNCHANGED <<mutex, socket, session, pc, cur>>
               /\ down'[socket] = down[socket]
    BY <2>6 DEF SensorAnswers, client, calls
  <2>7. ASSUME NEW n \in Conns, NEW k \in 0..2, ConnectionLost(n, k)
        PROVE  /\ Head(down[socket])'.kind = "header"
               /\ Head(down[socket])'.frame = Expected(c)'
    <3>1. UNCHANGED <<mutex, socket, session, pc, cur>>
      BY <2>7 DEF ConnectionLost, client, calls
    <3>2. CASE n # socket
      BY <2>1, <2>7, <3>1, <3>2 DEF ConnectionLost
    <3>3. CASE n = socket
      <4>1. down'[n] = SubSeq(down[n], 1, k) /\ down[n] \in Seq(Part)
            /\ k \in Nat /\ k <= Len(down[n])
        BY <1>0, <2>7, <3>3 DEF ConnectionLost, TypeOK
      <4>2. SubSeq(down[n], 1, k) # <<>>
        BY <1>1, <3>1, <3>3, <4>1
      <4>3. Head(SubSeq(down[n], 1, k)) = Head(down[n]) /\ down[n] # <<>>
        BY <4>1, <4>2
      <4>4. At(c, "header") /\ Expected(c)' = Expected(c)
        BY <1>1, <3>1 DEF At, Expected
      <4>5. QED
        BY <3>1, <3>3, <4>1, <4>3, <4>4 DEF HeaderInv
    <3>4. QED
      BY <3>2, <3>3
  <2>8. CASE SensorReboots \/ UNCHANGED vars
    BY <2>1, <2>8 DEF SensorReboots, vars, client, calls, sensor
  <2>9. ASSUME NEW d \in Callers, ThreadStep(d) \/ Application(d)
        PROVE  /\ UNCHANGED <<mutex, socket, session, down>> /\ pc'[c] = pc[c]
               /\ cur'[c] = cur[c]
    BY <2>2, <2>3, <2>4, <2>9 DEF ThreadStep, Application
  <2>10. QED
    BY <2>1, <2>5, <2>6, <2>7, <2>8, <2>9 DEF Next, Sensor
<1>2. QED
  BY <1>1 DEF HeaderInv, At

(* What is in a connection was there before, but for what the sensor sends. *)
PartsKept ==
  \A n \in Conns : \A i \in 1..Len(down'[n]) :
    \E j \in 1..Len(down[n]) : down'[n][i] = down[n][j]

(* Reading, discarding and losing keep the streams honest that were. *)
LEMMA KeepsParts ==
  ASSUME TypeOK, LockInv,
         \/ UNCHANGED down
         \/ down' = Discarded
         \/ /\ socket \in Conns /\ down[socket] # <<>>
            /\ down' = [down EXCEPT ![socket] = Tail(@)]
         \/ \E n \in Conns, k \in 0..2 : ConnectionLost(n, k)
  PROVE  PartsKept
<1>1. CASE UNCHANGED down
  BY <1>1 DEF PartsKept
<1>2. CASE down' = Discarded
  <2>1. \A n \in Conns : down'[n] = <<>> \/ down'[n] = down[n]
    BY <1>2 DEF Discarded
  <2>2. QED
    BY <2>1 DEF PartsKept
<1>3. CASE /\ socket \in Conns /\ down[socket] # <<>>
           /\ down' = [down EXCEPT ![socket] = Tail(@)]
  <2>1. ASSUME NEW i \in 1..Len(Tail(down[socket]))
        PROVE  /\ i + 1 \in 1..Len(down[socket])
               /\ Tail(down[socket])[i] = down[socket][i + 1]
    <3>1. down[socket] \in Seq(Part)
      BY <1>3 DEF TypeOK
    <3>2. QED
      BY <1>3, <3>1
  <2>2. /\ down'[socket] = Tail(down[socket])
        /\ \A n \in Conns \ {socket} : down'[n] = down[n]
    BY <1>3 DEF TypeOK
  <2>3. QED
    BY <2>1, <2>2 DEF PartsKept
<1>4. ASSUME NEW n \in Conns, NEW k \in 0..2, ConnectionLost(n, k)
      PROVE  PartsKept
  <2>1. down[n] \in Seq(Part) /\ k \in Nat /\ k <= Len(down[n])
    BY <1>4 DEF ConnectionLost, TypeOK
  <2>2. /\ down'[n] = SubSeq(down[n], 1, k)
        /\ \A m \in Conns \ {n} : down'[m] = down[m]
    BY <1>4 DEF ConnectionLost, TypeOK
  <2>3. ASSUME NEW i \in 1..Len(SubSeq(down[n], 1, k))
        PROVE  /\ i \in 1..Len(down[n])
               /\ SubSeq(down[n], 1, k)[i] = down[n][i]
    BY <2>1
  <2>4. QED
    BY <2>2, <2>3 DEF PartsKept
<1>5. QED
  BY <1>1, <1>2, <1>3, <1>4

(* An honest sensor answers honestly: what it runs on firmware v1.0.x is a *)
(* probe.                                                                  *)
LEMMA HonestAnswer ==
  ASSUME IInv, NEW n \in Conns, NEW b \in HonestBodies \cup {"legacy"},
         SensorAnswers(n, b, TRUE),
         HonestStreams
  PROVE  HonestStreams'
<1> DEFINE f == Head(up[n])
           part == [kind |-> "header", frame |-> f, echo |-> TRUE, body |-> b]
           ans == [part EXCEPT !.kind = "body"]
<1>0. TypeOK /\ FrameInv
  BY DEF IInv
<1>1. up[n] # <<>> /\ up[n] \in Seq(Frame) /\ peer[n] = boot
  BY <1>0 DEF SensorAnswers, TypeOK
<1>2. f = up[n][1] /\ 1 \in 1..Len(up[n])
  BY <1>1
<1>3. f.probing \/ bootGen[boot] = "v1.1"
  BY <1>0, <1>1, <1>2 DEF FrameInv
<1>4. f.probing \/ b # "legacy"
  BY <1>3, TransportAssumption DEF SensorAnswers
<1>5. HonestPart(part) /\ HonestPart(ans)
  BY <1>4 DEF HonestPart
<1>6. ASSUME NEW m \in Conns, NEW i \in 1..Len(down'[m])
      PROVE  HonestPart(down'[m][i])
  <2>1. CASE UNCHANGED down \/ m # n
    BY <1>0, <1>6, <2>1 DEF SensorAnswers, TypeOK, HonestStreams
  <2>2. CASE down' = [down EXCEPT ![n] = @ \o <<part, ans>>] /\ m = n
    <3> HIDE DEF part, ans
    <3>1. down[n] \in Seq(Part) /\ down'[n] = down[n] \o <<part, ans>>
      BY <1>0, <2>2 DEF TypeOK
    <3>2. Len(down'[n]) = Len(down[n]) + 2
      BY <3>1
    <3>3. CASE i \in 1..Len(down[n])
      <4>1. down'[n][i] = down[n][i]
        BY <3>1, <3>3
      <4>2. QED
        BY <2>2, <3>3, <4>1 DEF HonestStreams
    <3>4. CASE i = Len(down[n]) + 1
      <4>1. down'[n][i] = part
        BY <3>1, <3>4
      <4>2. QED
        BY <1>5, <2>2, <4>1
    <3>5. CASE i = Len(down[n]) + 2
      <4>1. down'[n][i] = ans
        BY <3>1, <3>5
      <4>2. QED
        BY <1>5, <2>2, <4>1
    <3>6. Len(down[n]) \in Nat /\ i \in 1..(Len(down[n]) + 2)
      BY <1>6, <2>2, <3>1, <3>2
    <3>7. QED
      BY <3>3, <3>4, <3>5, <3>6
  <2>3. QED
    BY <2>1, <2>2 DEF SensorAnswers
<1>7. QED
  BY <1>6 DEF HonestStreams

(* Inside an exchange with an honest sensor nothing looks like a protocol  *)
(* error: what arrives answers the frame that was sent.                    *)
LEMMA HonestEnds ==
  ASSUME IInv, HeaderInv, NEW c \in Callers, InsideStep(c),
         HonestStreams,
         cur[c].ret \notin Spurious
  PROVE  cur'[c].ret \notin Spurious
<1>0. TypeOK /\ LockInv /\ StreamInv /\ cur[c] \in Call
  BY DEF IInv, TypeOK
<1>1. ASSUME NEW ret, ret \notin Spurious, Fail(c, ret)
      PROVE  cur'[c].ret \notin Spurious
  BY <1>0, <1>1, Failures DEF Ends, Spurious
<1>2. ASSUME NEW ret, ret \notin Spurious, Return(c, ret)
      PROVE  cur'[c].ret \notin Spurious
  BY <1>0, <1>2, Returns DEF Ends
<1>3. ASSUME mutex = c, down[socket] # <<>>
      PROVE  HonestPart(Head(down[socket]))
  <2>1. socket \in Conns /\ down[socket] \in Seq(Part)
    BY <1>0, <1>3, HolderHasSocket DEF TypeOK
  <2>2. Head(down[socket]) = down[socket][1] /\ 1 \in 1..Len(down[socket])
    BY <1>3, <2>1
  <2>3. QED
    BY <2>1, <2>2 DEF HonestStreams
<1>4. CASE Refuse(c)
  BY <1>2, <1>4 DEF Refuse, Spurious
<1>5. CASE UseSocket(c)
  BY <1>5 DEF UseSocket
<1>6. CASE Reopen(c)
  <2>1. \/ cur' = [cur EXCEPT ![c] = Probing(cur[c])]
        \/ cur' = [cur EXCEPT ![c] = [cur[c] EXCEPT !.ret = "transport"]]
    BY <1>6 DEF Reopen, ConnectLocked
  <2>2. \/ cur'[c] = [cur[c] EXCEPT !.probing = TRUE]
        \/ cur'[c] = [cur[c] EXCEPT !.ret = "transport"]
    BY <1>0, <2>1 DEF TypeOK, Probing
  <2>3. cur'[c].ret \in {cur[c].ret, "transport"}
    BY <1>0, <2>2 DEF Call
  <2>4. QED
    BY <2>3 DEF Spurious
<1>7. CASE Send(c)
  BY <1>1, <1>7 DEF Send, Spurious
<1>8. CASE RecvHeader(c)
  <2>1. HonestPart(Head(down[socket])) /\ At(c, "header") /\ down[socket] # <<>>
    BY <1>3, <1>8 DEF RecvHeader, At
  <2>2. Answers(Head(down[socket]), c)
    BY <2>1 DEF Answers, HeaderInv, HonestPart
  <2>3. QED
    BY <1>8, <2>2 DEF RecvHeader
<1>9. CASE RecvProbeBody(c)
  <2>1. HonestPart(Head(down[socket]))
    BY <1>3, <1>9 DEF RecvProbeBody, At
  <2>2. Head(down[socket]).body # "short"
    BY <2>1 DEF HonestPart, HonestBodies
  <2>3. CASE \E ret \in {"legacy", "ok"} : Return(c, ret)
    BY <1>2, <2>3 DEF Spurious
  <2>4. CASE cur' = [cur EXCEPT ![c].probing = FALSE]
    <3>1. cur'[c] = [cur[c] EXCEPT !.probing = FALSE]
      BY <1>0, <2>4 DEF TypeOK
    <3>2. QED
      BY <1>0, <3>1 DEF Call
  <2>5. QED
    BY <1>9, <2>2, <2>3, <2>4 DEF RecvProbeBody, LegacyFound
<1>10. CASE RecvBody(c)
  <2> DEFINE part == Head(down[socket])
  <2>1. HonestPart(part) /\ At(c, "body") /\ down[socket] # <<>>
    BY <1>3, <1>10 DEF RecvBody, At
  <2>2. socket # 0 /\ socket \in Conns /\ down[socket] \in Seq(Part)
    BY <1>0, <2>1, HolderHasSocket, TransportAssumption
    DEF At, LockInv, TypeOK
  <2>3. Len(down[socket]) <= 1
        /\ (Len(down[socket]) = 1 => BodyPart(down[socket][1], c))
    BY <1>0, <2>1, <2>2 DEF StreamInv
  <2>4. BodyPart(part, c)
    BY <2>1, <2>2, <2>3, HeadOfOne
  <2>5. ~part.frame.probing
    BY <1>10, <2>4 DEF BodyPart, Expected, RecvBody
  <2>6. part.body \in {"good", "badE2e"}
    BY <2>1, <2>5 DEF HonestPart, HonestBodies
  <2> HIDE DEF part
  <2>7. Return(c, "ok")
    BY <1>10, <2>6 DEF RecvBody, part
  <2>8. QED
    BY <1>2, <2>7 DEF Spurious
<1>11. CASE RecvFails(c)
  <2>1. PICK ret \in {"timeout", "transport"} : Fail(c, ret)
    BY <1>11 DEF RecvFails, RecvErrors
  <2>2. QED
    BY <1>1, <2>1 DEF Spurious
<1>12. QED
  BY <1>4, <1>5, <1>6, <1>7, <1>8, <1>9, <1>10, <1>11 DEF InsideStep

(* Steps of the world of threads keep HonestInv. *)
LEMMA HonestStep ==
  ASSUME IInv, HeaderInv, HonestInv, world = "threads", Threads
  PROVE  HonestStreams' /\ NoneEnding' /\ NoneEnded'
<1>0. TypeOK /\ LockInv /\ HonestStreams /\ NoneEnding /\ NoneEnded
  BY DEF IInv, HonestInv
<1>1. PartsKept => HonestStreams'
  BY <1>0 DEF PartsKept, HonestStreams, HonestPart
<1>2. UNCHANGED down => HonestStreams'
  BY <1>0 DEF HonestStreams, HonestPart
<1>3. ASSUME NEW c \in Callers, InsideStep(c)
      PROVE  HonestStreams' /\ NoneEnding' /\ NoneEnded'
  <2>1. Inside(c)
    BY <1>0, <1>3, InsideKeeps
  <2>2. NoneEnding'
    <3>1. cur'[c].ret \notin Spurious
      BY <1>0, <1>3, HonestEnds DEF NoneEnding
    <3>2. QED
      BY <1>0, <2>1, <3>1 DEF Inside, OthersStay, NoneEnding
  <2>3. NoneEnded'
    BY <1>0, <2>1 DEF Inside, NoneEnded
  <2>4. \/ UNCHANGED down
        \/ down' = Discarded
        \/ /\ mutex = c /\ down[socket] # <<>>
           /\ down' = [down EXCEPT ![socket] = Tail(@)]
    BY <1>3
    DEF InsideStep, Refuse, UseSocket, Reopen, Send, RecvHeader, RecvProbeBody,
        RecvBody, RecvFails, LegacyFound, Fail, CloseLocked, ConnectLocked, At,
        sensor
  <2>5. PartsKept
    BY <1>0, <2>4, KeepsParts, HolderHasSocket
  <2>6. QED
    BY <1>1, <2>2, <2>3, <2>5
<1>4. ASSUME NEW c \in Callers, BeginRequest(c, ProbeMethod, "fits")
      PROVE  HonestStreams' /\ NoneEnding' /\ NoneEnded'
  <2>1. UNCHANGED down
    BY <1>4 DEF BeginRequest, sensor
  <2> DEFINE b == [NoCall EXCEPT !.id = ncall + 1, !.method = ProbeMethod,
                                 !.size = "fits"]
  <2>2. b.ret = "none"
    BY DEF NoCall
  <2>3. cur' = cur \/ cur' = [cur EXCEPT ![c] = b]
    BY <1>4 DEF BeginRequest
  <2> HIDE DEF b
  <2>4. \A d \in Callers : cur'[d].ret \in {cur[d].ret, "none"}
    BY <1>0, <2>2, <2>3 DEF TypeOK
  <2>5. \A k \in Calls : outcome'[k] \in {outcome[k], "disconnected"}
    BY <1>0, <1>4 DEF BeginRequest, TypeOK
  <2>6. QED
    BY <1>0, <1>2, <2>1, <2>4, <2>5 DEF NoneEnding, NoneEnded, Spurious
<1>5. ASSUME NEW c \in Callers, Connect(c)
      PROVE  HonestStreams' /\ NoneEnding' /\ NoneEnded'
  <2>1. \/ cur' = [cur EXCEPT ![c] = Probing(NoCall)]
        \/ cur' = [cur EXCEPT ![c] = [NoCall EXCEPT !.ret = "transport"]]
    BY <1>5 DEF Connect, ConnectLocked
  <2>2. /\ Probing(NoCall).ret = "none"
        /\ [NoCall EXCEPT !.ret = "transport"].ret = "transport"
    BY DEF Probing, NoCall
  <2>3. \A d \in Callers : cur'[d].ret \in {cur[d].ret, "none", "transport"}
    BY <1>0, <2>1, <2>2 DEF TypeOK
  <2>4. PartsKept
    BY <1>0, <1>5, KeepsParts DEF Connect, ConnectLocked
  <2>5. UNCHANGED outcome
    BY <1>5 DEF Connect
  <2>6. QED
    BY <1>0, <1>1, <2>3, <2>4, <2>5 DEF NoneEnding, NoneEnded, Spurious
<1>6. ASSUME NEW c \in Callers, Disconnect(c)
      PROVE  HonestStreams' /\ NoneEnding' /\ NoneEnded'
  <2>1. PartsKept
    BY <1>0, <1>6, KeepsParts DEF Disconnect, CloseLocked
  <2>2. QED
    BY <1>0, <1>1, <1>6, <2>1 DEF Disconnect, calls, NoneEnding, NoneEnded
<1>7. ASSUME NEW c \in Callers, Finish(c)
      PROVE  HonestStreams' /\ NoneEnding' /\ NoneEnded'
  <2>1. UNCHANGED down
    BY <1>7 DEF Finish, sensor
  <2>2. \A d \in Callers : cur'[d].ret \in {cur[d].ret, "none"}
    BY <1>0, <1>7 DEF Finish, TypeOK, NoCall
  <2>3. NoneEnded'
    <3>1. CASE UNCHANGED outcome
      BY <1>0, <3>1 DEF NoneEnded
    <3>2. CASE IsRequest(c)
      <4> DEFINE x == CASE cur[c].ret = "ok"         -> "answered"
                        [] cur[c].ret = "unparsable" -> "protocol"
                        [] cur[c].ret = "legacy"     -> "notSupported"
                        [] OTHER        -> ErrorFromTransport(cur[c].ret)
      <4>1. outcome' = [outcome EXCEPT ![cur[c].id] = x]
        BY <1>7, <3>2 DEF Finish
      <4>2. x # "protocol"
        BY <1>0 DEF NoneEnding, Spurious, ErrorFromTransport
      <4> HIDE DEF x
      <4>3. \A k \in Calls : outcome'[k] \in {outcome[k], x}
        BY <1>0, <4>1 DEF TypeOK
      <4>4. QED
        BY <1>0, <4>2, <4>3 DEF NoneEnded
    <3>3. QED
      BY <1>7, <3>1, <3>2 DEF Finish
  <2>4. QED
    BY <1>0, <1>2, <2>1, <2>2, <2>3 DEF NoneEnding, Spurious
<1>8. ASSUME NEW n \in Conns, NEW b \in HonestBodies \cup {"legacy"},
             SensorAnswers(n, b, TRUE)
      PROVE  HonestStreams' /\ NoneEnding' /\ NoneEnded'
  BY <1>0, <1>8, HonestAnswer DEF SensorAnswers, calls, NoneEnding, NoneEnded
<1>9. ASSUME NEW n \in Conns, NEW k \in 0..2, ConnectionLost(n, k)
      PROVE  HonestStreams' /\ NoneEnding' /\ NoneEnded'
  <2>1. PartsKept
    BY <1>0, <1>9, KeepsParts
  <2>2. QED
    BY <1>0, <1>1, <1>9, <2>1 DEF ConnectionLost, calls, NoneEnding, NoneEnded
<1>10. CASE SensorReboots
  BY <1>0, <1>2, <1>10 DEF SensorReboots, calls, NoneEnding, NoneEnded
<1>11. QED
  BY <1>3, <1>4, <1>5, <1>6, <1>7, <1>8, <1>9, <1>10
  DEF Threads, ThreadStep, InsideStep

(* Only RecvBody ends a request with "ok". *)
LEMMA OkNeedsBody ==
  ASSUME IInv, NEW c \in Callers, InsideStep(c), IsRequest(c), ~RecvBody(c),
         pc'[c] = "finish"
  PROVE  cur'[c].ret # "ok"
<1>0. TypeOK /\ cur[c] \in Call
  BY DEF IInv, TypeOK
<1>1. ASSUME NEW ret, ret # "ok", Return(c, ret) \/ Fail(c, ret)
      PROVE  cur'[c].ret # "ok"
  BY <1>0, <1>1, Returns, Failures DEF Ends
<1>2. CASE Refuse(c)
  BY <1>1, <1>2 DEF Refuse
<1>3. CASE UseSocket(c)
  BY <1>0, <1>3 DEF UseSocket, TypeOK
<1>4. CASE Reopen(c)
  <2>1. cur'[c].ret = "transport"
    BY <1>0, <1>4, Connects DEF Reopen
  <2>2. QED
    BY <2>1
<1>5. CASE Send(c)
  BY <1>0, <1>1, <1>5 DEF Send, TypeOK
<1>6. CASE RecvHeader(c)
  BY <1>0, <1>1, <1>6 DEF RecvHeader, TypeOK
<1>7. CASE RecvProbeBody(c)
  BY <1>0, <1>1, <1>7 DEF RecvProbeBody, LegacyFound, TypeOK
<1>8. CASE RecvFails(c)
  BY <1>1, <1>8 DEF RecvFails, RecvErrors
<1>9. QED
  BY <1>2, <1>3, <1>4, <1>5, <1>6, <1>7, <1>8 DEF InsideStep

(* Steps of the world of one thread keep OneThreadInv. *)
LEMMA OneThreadStep ==
  ASSUME IInv, RpcInv, OneThreadInv, world = "faults", Faults
  PROVE  OthersIdle' /\ VerdictFits' /\ ResultFits'
<1>0. /\ TypeOK /\ CallInv /\ OthersIdle /\ VerdictFits /\ ResultFits
      /\ c1 \in Callers /\ ncall \in Nat
      /\ IsRequest(c1) => cur[c1].id \in Calls
  BY TransportAssumption, WorldAssumption
  DEF IInv, RpcInv, OneThreadInv, TypeOK, Call, IsRequest, Calls
<1>1. ASSUME InsideStep(c1) PROVE OthersIdle' /\ VerdictFits' /\ ResultFits'
  <2>1. Inside(c1)
    BY <1>0, <1>1, InsideKeeps
  <2>2. OthersIdle'
    BY <1>0, <2>1 DEF OthersIdle, Inside, OthersStay
  <2>3. UNCHANGED lastResult
    BY <1>1
    DEF InsideStep, Refuse, UseSocket, Reopen, Send, RecvHeader, RecvProbeBody,
        RecvBody, RecvFails
  <2>4. CASE ~RecvBody(c1)
    <3>1. UNCHANGED taken
      BY <1>1, <2>4
      DEF InsideStep, Refuse, UseSocket, Reopen, Send, RecvHeader,
          RecvProbeBody, RecvFails
    <3>2. ResultFits'
      BY <1>0, <2>1, <2>3, <3>1 DEF ResultFits, Inside
    <3>3. ~(pc'[c1] = "finish" /\ IsRequest(c1)' /\ cur'[c1].ret = "ok")
      BY <1>0, <1>1, <2>1, <2>4, OkNeedsBody DEF Inside, IsRequest
    <3>4. QED
      BY <2>2, <3>2, <3>3 DEF VerdictFits
  <2>5. CASE RecvBody(c1) /\ Head(down[socket]).body = "short"
    <3>0. Fail(c1, "protocol") /\ UNCHANGED taken
      BY <2>5 DEF RecvBody
    <3>1. ResultFits'
      BY <1>0, <2>1, <2>3, <3>0 DEF ResultFits, Inside
    <3>2. cur'[c1].ret # "ok"
      BY <1>0, <3>0, Failures DEF Ends
    <3>3. QED
      BY <2>2, <3>1, <3>2 DEF VerdictFits
  <2>6. CASE RecvBody(c1) /\ Head(down[socket]).body # "short"
    <3> DEFINE id == cur[c1].id
               part == Head(down[socket])
               got == [call |-> part.frame.call, e2eOk |-> part.body = "good"]
    <3>1. /\ taken' = [taken EXCEPT ![id] = got]
          /\ lastE2eOk' = (part.body = "good")
      BY <2>6 DEF RecvBody, E2eVerdict
    <3>2. got.e2eOk = lastE2eOk'
      BY <3>1
    <3> HIDE DEF got
    <3>3. id \in Calls => taken'[id].e2eOk = lastE2eOk'
      BY <1>0, <3>1, <3>2 DEF TypeOK
    <3>4. VerdictFits'
      BY <1>0, <2>1, <3>3 DEF VerdictFits, Inside, IsRequest
    <3>5. \A k \in Calls : k # id => taken'[k] = taken[k]
      BY <1>0, <3>1 DEF TypeOK
    <3>6. lastResult.code = "sensor" => lastResult.call # id
      BY <1>0 DEF ResultFits, CallInv, IsRequest, Calls
    <3>7. ResultFits'
      BY <1>0, <2>1, <2>3, <3>5, <3>6 DEF ResultFits, Inside
    <3>8. QED
      BY <2>2, <3>4, <3>7
  <2>7. QED
    BY <2>4, <2>5, <2>6
<1>2. ASSUME NEW m \in Methods, NEW z \in Sizes, BeginRequest(c1, m, z)
      PROVE  OthersIdle' /\ VerdictFits' /\ ResultFits'
  <2>1. pc' = pc \/ pc' = [pc EXCEPT ![c1] = "lock"]
    BY <1>2 DEF BeginRequest
  <2>2. OthersIdle' /\ pc'[c1] # "finish"
    BY <1>0, <1>2, <2>1 DEF OthersIdle, TypeOK, BeginRequest
  <2>3. UNCHANGED taken
    BY <1>2 DEF BeginRequest
  <2>4. CASE UNCHANGED <<outcome, lastResult>>
    BY <1>0, <2>2, <2>3, <2>4 DEF VerdictFits, ResultFits
  <2>5. CASE lastResult' = [NoResult EXCEPT !.call = ncall + 1]
    <3>1. lastResult'.code = "none"
      BY <2>5 DEF NoResult
    <3>2. QED
      BY <2>2, <3>1 DEF VerdictFits, ResultFits
  <2>6. QED
    BY <1>2, <2>4, <2>5 DEF BeginRequest
<1>3. CASE Connect(c1)
  <2>1. NoCall \in Call /\ NoCall.id = 0
    BY TransportAssumption DEF NoCall, Call, Rets
  <2>2. cur'[c1].id = 0 /\ OthersStay(c1)
    BY <1>0, <1>3, <2>1, Connects DEF Connect
  <2>3. QED
    BY <1>0, <1>3, <2>2
    DEF Connect, OthersIdle, OthersStay, VerdictFits, ResultFits, IsRequest
<1>4. CASE Disconnect(c1)
  BY <1>0, <1>4 DEF Disconnect, calls, OthersIdle, VerdictFits, ResultFits,
                    IsRequest
<1>5. CASE Finish(c1)
  <2>1. pc'[c1] # "finish" /\ OthersIdle' /\ UNCHANGED taken
    BY <1>0, <1>5 DEF Finish, TypeOK, OthersIdle
  <2>2. CASE UNCHANGED <<outcome, lastResult>>
    BY <1>0, <2>1, <2>2 DEF VerdictFits, ResultFits
  <2>3. CASE IsRequest(c1)
    <3> DEFINE id == cur[c1].id
               x == CASE cur[c1].ret = "ok"         -> "answered"
                      [] cur[c1].ret = "unparsable" -> "protocol"
                      [] cur[c1].ret = "legacy"     -> "notSupported"
                      [] OTHER        -> ErrorFromTransport(cur[c1].ret)
    <3>1. outcome' = [outcome EXCEPT ![id] = x] /\ x # "none"
      BY <1>5, <2>3 DEF Finish, ErrorFromTransport
    <3>2. /\ lastResult'.call = id
          /\ lastResult'.code = "sensor" => cur[c1].ret = "ok"
          /\ cur[c1].ret = "ok" => lastResult'.e2eOk = lastE2eOk
      BY <1>0, <1>5, <2>3 DEF Finish, TypeOK
    <3> HIDE DEF x
    <3>3. id \in Calls /\ outcome'[id] # "none"
      BY <1>0, <2>3, <3>1 DEF TypeOK
    <3>4. cur[c1].ret = "ok" => lastE2eOk = taken[id].e2eOk
      BY <1>0, <1>5, <2>3 DEF VerdictFits, Finish
    <3>5. ResultFits'
      BY <2>1, <3>2, <3>3, <3>4 DEF ResultFits
    <3>6. QED
      BY <2>1, <3>5 DEF VerdictFits
  <2>4. QED
    BY <1>5, <2>2, <2>3 DEF Finish
<1>6. CASE Sensor
  <2>1. UNCHANGED <<client, calls>>
    BY <1>6 DEF Sensor, SensorAnswers, ConnectionLost, SensorReboots
  <2>2. QED
    BY <1>0, <2>1
    DEF client, calls, OthersIdle, VerdictFits, ResultFits, IsRequest
<1>7. QED
  BY <1>1, <1>2, <1>3, <1>4, <1>5, <1>6
  DEF Faults, ThreadStep, InsideStep, Application

(* The invariant of the two worlds holds at the start ... *)
LEMMA WorldInit == MCInit => WorldInv
<1> SUFFICES ASSUME MCInit PROVE WorldInv
  OBVIOUS
<1>1. Init /\ world \in {"threads", "faults"}
  BY DEF MCInit
<1>2. HeaderInv
  BY <1>1 DEF Init, HeaderInv, At
<1>3. HonestStreams
  <2>1. \A n \in Conns : Len(down[n]) = 0
    BY <1>1 DEF Init
  <2>2. QED
    BY <2>1 DEF HonestStreams
<1>4. NoneEnding /\ NoneEnded
  BY <1>1 DEF Init, NoneEnding, NoneEnded, NoCall, Spurious
<1>5. OthersIdle /\ VerdictFits /\ ResultFits
  BY <1>1, WorldAssumption
  DEF Init, OthersIdle, VerdictFits, ResultFits, NoResult
<1>6. QED
  BY <1>1, <1>2, <1>3, <1>4, <1>5 DEF WorldInv, HonestInv, OneThreadInv

(* ... and is kept by every step. *)
LEMMA WorldStep ==
  ASSUME IInv, RpcInv, WorldInv, [MCNext]_<<vars, world>>
  PROVE  WorldInv'
<1>0. HeaderInv /\ HonestInv /\ OneThreadInv /\ UNCHANGED world
      /\ world \in {"threads", "faults"}
  BY DEF WorldInv, MCNext
<1>1. HeaderInv'
  BY <1>0, WorldNext, HeaderStep DEF vars
<1>2. CASE UNCHANGED <<vars, world>>
  <2>1. HonestInv' /\ OneThreadInv'
    BY <1>0, <1>2
    DEF HonestInv, HonestStreams, NoneEnding, NoneEnded, OneThreadInv,
        OthersIdle, VerdictFits, ResultFits, IsRequest, HonestPart,
        vars, client, calls, sensor
  <2>2. QED
    BY <1>0, <1>1, <2>1 DEF WorldInv
<1>3. CASE world = "threads" /\ Threads
  <2>1. HonestInv'
    BY <1>0, <1>3, HonestStep DEF HonestInv
  <2>2. QED
    BY <1>0, <1>1, <1>3, <2>1 DEF WorldInv, OneThreadInv
<1>4. CASE world = "faults" /\ Faults
  <2>1. OneThreadInv'
    BY <1>0, <1>4, OneThreadStep DEF OneThreadInv
  <2>2. QED
    BY <1>0, <1>1, <1>4, <2>1 DEF WorldInv, HonestInv
<1>5. QED
  BY <1>2, <1>3, <1>4 DEF MCNext

(* Both worlds keep the invariants of the transport and their own. *)
THEOREM WorldInvariant == MCSpec => [](IInv /\ RpcInv /\ WorldInv)
<1>1. MCInit => IInv /\ RpcInv /\ WorldInv
  BY InvInit, RpcInvInit, WorldInit DEF MCInit
<1>2. IInv /\ RpcInv /\ WorldInv /\ [MCNext]_<<vars, world>> =>
        (IInv /\ RpcInv /\ WorldInv)'
  <2> SUFFICES ASSUME IInv, RpcInv, WorldInv, [MCNext]_<<vars, world>>
               PROVE  IInv' /\ RpcInv' /\ WorldInv'
    OBVIOUS
  <2>1. [Next]_vars
    BY WorldNext
  <2>2. IInv' /\ RpcInv'
    BY <2>1, InvStep, CallStep, FlightStep, SendStep DEF RpcInv
  <2>3. QED
    BY <2>2, WorldStep
<1>3. QED
  BY <1>1, <1>2, PTL DEF MCSpec

(* A sensor that answers correctly is never reported as a protocol error,  *)
(* however the threads, their reconnects and the outages interleave        *)
(* (ExchangeLocked's echo check, ErrorFromTransport).                      *)
THEOREM HonestSensorNoProtocolError == MCSpec => []NoSpuriousProtocolError
<1>1. WorldInv => NoSpuriousProtocolError
  BY DEF WorldInv, HonestInv, NoneEnded, NoSpuriousProtocolError
<1>2. QED
  BY <1>1, WorldInvariant, PTL

(* An application with one thread finds in GetLastSensorResult() the code  *)
(* and the E2E verdict of one answer, whatever the sensor sends.           *)
THEOREM OneThreadReadsOneAnswer == MCSpec => []OneThreadLastResult
<1>1. WorldInv => OneThreadLastResult
  BY DEF WorldInv, OneThreadInv, ResultFits, OneThreadLastResult,
         LastResultIsOneAnswer
<1>2. QED
  BY <1>1, WorldInvariant, PTL
=============================================================================
