-------------------------- MODULE CsiiSenderProofs --------------------------
(***************************************************************************)
(* Proofs about CsiiSender, for any threads, any sensors, any number of    *)
(* calls, and counters and session ids of any width.                       *)
(***************************************************************************)
EXTENDS CsiiSender, FiniteSetTheorems, TLAPS

-----------------------------------------------------------------------------
(* Types *)

(* The widths of the counters. *)
LEMMA Widths ==
  /\ CounterMod \in Nat /\ CounterMod > 0 /\ CounterMod > 2 * MaxSend
  /\ SessionMod \in Nat /\ SessionMod > 2 /\ MaxSend \in Nat
  /\ 0 \in 0..CounterMod - 1 /\ 0 \in 0..SessionMod - 1
<1>1. CounterMod \in Nat /\ MaxSend \in Nat /\ CounterMod > 2 * MaxSend
  BY CsiiAssumption
<1>2. SessionMod \in Nat /\ SessionMod > 2
  BY CsiiAssumption
<1>3. QED
  BY <1>1, <1>2

(* The next session id is another one, and not 0. *)
LEMMA NextSession ==
  ASSUME NEW n \in 0..SessionMod - 1,
         NEW m, m = IF (n + 1) % SessionMod = 0 THEN 1 ELSE n + 1
  PROVE  m \in 0..SessionMod - 1 /\ m # 0 /\ m # n
<1>1. CASE n + 1 = SessionMod
  <2>1. (n + 1) % SessionMod = 0
    BY <1>1, Widths
  <2>2. QED
    BY <1>1, <2>1, Widths
<1>2. CASE n + 1 # SessionMod
  <2>1. n + 1 \in 0..SessionMod - 1 /\ n + 1 # 0
    BY <1>2, Widths
  <2>2. (n + 1) % SessionMod = n + 1
    BY <2>1, Widths
  <2>3. QED
    BY <2>1, <2>2, Widths
<1>3. QED
  BY <1>1, <1>2

(* What the probe learns is a generation. *)
LEMMA ProbeTypes ==
  ASSUME ShapeInv, client \/ "connecting" \in {app, rec}
  PROVE  /\ cfgIp \in Sensors /\ fw[cfgIp] \in Generations
         /\ Connected \in Sensors \cup {NoSensor}
         /\ Probe => /\ probed' \in Generations /\ freshProbe' \in BOOLEAN
                     /\ sure' \in [Threads -> BOOLEAN]
<1>1. cfgIp \in Sensors
  BY DEF ShapeInv, AddressInv
<1>2. fw[cfgIp] \in Generations
  BY <1>1 DEF ShapeInv, TypeOK, PeerTypes
<1>3. Probe => probed' \in Generations /\ freshProbe' \in BOOLEAN
  BY <1>2 DEF Probe
<1>4. Probe => sure' \in [Threads -> BOOLEAN]
  BY DEF Probe, ShapeInv, TypeOK, CallTypes, NoCall
<1>5. Connected \in Sensors \cup {NoSensor}
  BY <1>1 DEF Connected
<1>6. QED
  BY <1>1, <1>2, <1>3, <1>4, <1>5

(* What goes on the wire is a frame, whole or in part. *)
LEMMA WireTypes ==
  ASSUME ShapeInv, NEW t \in Threads, NEW whole \in BOOLEAN,
         OnTheWire(t, whole)
  PROVE  wire' \in Seq(Sent)
<1>1. wire \in Seq(Sent)
  BY DEF ShapeInv, TypeOK, CallTypes
<1>2. PICK f : f = frame[t]
  OBVIOUS
<1>3. PICK c : c = IF via[t] = "tcp" THEN conn ELSE 0
  OBVIOUS
<1>4. f \in Frames
  BY <1>2 DEF ShapeInv, TypeOK, CallTypes
<1>5. c \in Nat
  BY <1>3 DEF ShapeInv, TypeOK, CountTypes
<1>6. [frame |-> f, whole |-> whole, conn |-> c] \in Sent
  BY <1>4, <1>5 DEF Sent
<1>7. wire' = Append(wire, [frame |-> f, whole |-> whole, conn |-> c])
  BY <1>2, <1>3 DEF OnTheWire
<1>8. QED
  BY <1>1, <1>6, <1>7

(* The frame a call builds has the counter as it was and the session id as *)
(* it is then.                                                             *)
LEMMA FrameTypes ==
  ASSUME ShapeInv, NEW t \in Threads, Connects(t)
  PROVE  /\ session' \in 0..SessionMod - 1 /\ session' # 0 /\ session' # session
         /\ counter' \in 0..CounterMod - 1
         /\ frame' = [frame EXCEPT ![t] = [counter |-> counter,
                                           session |-> session']]
         /\ frame' \in [Threads -> Frames]
<1>1. session' \in 0..SessionMod - 1 /\ session' # 0 /\ session' # session
  <2>1. session \in 0..SessionMod - 1
    BY DEF ShapeInv, TypeOK, CountTypes
  <2>2. session' = IF (session + 1) % SessionMod = 0 THEN 1 ELSE session + 1
    BY DEF Connects
  <2>3. QED
    BY <2>1, <2>2, NextSession
<1>2. counter \in 0..CounterMod - 1
  BY DEF ShapeInv, TypeOK, CountTypes
<1>3. counter' \in 0..CounterMod - 1
  <2>1. counter' = (counter + 1) % CounterMod
    BY DEF Connects
  <2>2. QED
    BY <1>2, <2>1, Widths
<1>4. frame' = [frame EXCEPT ![t] = [counter |-> counter, session |-> session']]
  BY DEF Connects, csii_build_frame
<1>5. [counter |-> counter, session |-> session'] \in Frames
  BY <1>1, <1>2 DEF Frames
<1>6. frame' \in [Threads -> Frames]
  BY <1>4, <1>5 DEF ShapeInv, TypeOK, CallTypes
<1>7. QED
  BY <1>1, <1>3, <1>4, <1>6

(* Every step leaves values of the right types. *)
LEMMA ShapeStep ==
  ASSUME ShapeInv, [Next]_vars
  PROVE  ShapeInv'
<1> USE DEF sdk, cfg, recon, sockets, calls, sensor, known, history
<1>1. ASSUME NEW ip \in Sensors, NEW csii \in Forced, InitBegins(ip, csii)
      PROVE  ShapeInv'
  <2>1. PlaceTypes'
    BY <1>1 DEF ShapeInv, TypeOK, PlaceTypes, InitBegins, NoCall, OthersBusy
  <2>2. PeerTypes'
    BY <1>1 DEF ShapeInv, TypeOK, PeerTypes, InitBegins, NoCall, OthersBusy
  <2>3. FlagTypes'
    BY <1>1 DEF ShapeInv, TypeOK, FlagTypes, InitBegins, NoCall, OthersBusy
  <2>4. CountTypes'
    BY <1>1 DEF ShapeInv, TypeOK, CountTypes, InitBegins, NoCall, OthersBusy
  <2>5. CallTypes'
    BY <1>1 DEF ShapeInv, TypeOK, CallTypes, InitBegins, NoCall, OthersBusy
  <2>6. AddressInv'
    BY <1>1 DEF ShapeInv, AddressInv, InitBegins, NoCall, OthersBusy
  <2>7. QED
    BY <2>1, <2>2, <2>3, <2>4, <2>5, <2>6 DEF ShapeInv, TypeOK
<1>2. CASE InitConnects
  <2>1. PlaceTypes'
    BY <1>2
       DEF ShapeInv, TypeOK, PlaceTypes, InitConnects, ConnectBegins, Target,
           NoCall
  <2>2. PeerTypes'
    BY <1>2
       DEF ShapeInv, TypeOK, PlaceTypes, PeerTypes, InitConnects,
           ConnectBegins, Target, NoCall
  <2>3. FlagTypes'
    BY <1>2
       DEF ShapeInv, TypeOK, FlagTypes, InitConnects, ConnectBegins, Target,
           NoCall
  <2>4. CountTypes'
    BY <1>2
       DEF ShapeInv, TypeOK, CountTypes, InitConnects, ConnectBegins, Target,
           NoCall
  <2>5. CallTypes'
    BY <1>2
       DEF ShapeInv, TypeOK, CallTypes, InitConnects, ConnectBegins, Target,
           NoCall
  <2>6. AddressInv'
    BY <1>2
       DEF ShapeInv, TypeOK, PlaceTypes, AddressInv, InitConnects,
           ConnectBegins, Target, NoCall
  <2>7. QED
    BY <2>1, <2>2, <2>3, <2>4, <2>5, <2>6 DEF ShapeInv, TypeOK
<1>3. CASE InitConnected
  <2>0. /\ cfgIp \in Sensors
        /\ Probe => /\ probed' \in Generations /\ freshProbe' \in BOOLEAN
                    /\ sure' \in [Threads -> BOOLEAN]
        /\ Connected \in Sensors \cup {NoSensor}
    BY <1>3, ProbeTypes DEF InitConnected
  <2>1. PlaceTypes'
    BY <1>3, <2>0
       DEF ShapeInv, TypeOK, PlaceTypes, InitConnected, ConnectSucceeds,
           ConnectFails
  <2>2. PeerTypes'
    BY <1>3, <2>0
       DEF ShapeInv, TypeOK, PeerTypes, InitConnected, ConnectSucceeds,
           ConnectFails
  <2>3. FlagTypes'
    BY <1>3, <2>0
       DEF ShapeInv, TypeOK, FlagTypes, InitConnected, ConnectSucceeds,
           ConnectFails
  <2>4. CountTypes'
    BY <1>3, <2>0
       DEF ShapeInv, TypeOK, CountTypes, InitConnected, ConnectSucceeds,
           ConnectFails
  <2>5. CallTypes'
    BY <1>3, <2>0
       DEF ShapeInv, TypeOK, CallTypes, InitConnected, ConnectSucceeds,
           ConnectFails
  <2>6. AddressInv'
    BY <1>3, <2>0
       DEF ShapeInv, AddressInv, InitConnected, ConnectSucceeds, ConnectFails
  <2>7. QED
    BY <2>1, <2>2, <2>3, <2>4, <2>5, <2>6 DEF ShapeInv, TypeOK
<1>4. CASE InitEnds
  <2>1. PlaceTypes'
    BY <1>4 DEF ShapeInv, TypeOK, PlaceTypes, InitEnds
  <2>2. PeerTypes'
    BY <1>4 DEF ShapeInv, TypeOK, PeerTypes, InitEnds
  <2>3. FlagTypes'
    BY <1>4 DEF ShapeInv, TypeOK, FlagTypes, InitEnds
  <2>4. CountTypes'
    BY <1>4 DEF ShapeInv, TypeOK, CountTypes, InitEnds
  <2>5. CallTypes'
    BY <1>4 DEF ShapeInv, TypeOK, CallTypes, InitEnds
  <2>6. AddressInv'
    BY <1>4 DEF ShapeInv, AddressInv, InitEnds
  <2>7. QED
    BY <2>1, <2>2, <2>3, <2>4, <2>5, <2>6 DEF ShapeInv, TypeOK
<1>5. CASE StopBegins
  <2>1. PlaceTypes'
    BY <1>5 DEF ShapeInv, TypeOK, PlaceTypes, StopBegins, NoCall, OthersBusy
  <2>2. PeerTypes'
    BY <1>5 DEF ShapeInv, TypeOK, PeerTypes, StopBegins, NoCall, OthersBusy
  <2>3. FlagTypes'
    BY <1>5 DEF ShapeInv, TypeOK, FlagTypes, StopBegins, NoCall, OthersBusy
  <2>4. CountTypes'
    BY <1>5 DEF ShapeInv, TypeOK, CountTypes, StopBegins, NoCall, OthersBusy
  <2>5. CallTypes'
    BY <1>5 DEF ShapeInv, TypeOK, CallTypes, StopBegins, NoCall, OthersBusy
  <2>6. AddressInv'
    BY <1>5 DEF ShapeInv, AddressInv, StopBegins, NoCall, OthersBusy
  <2>7. QED
    BY <2>1, <2>2, <2>3, <2>4, <2>5, <2>6 DEF ShapeInv, TypeOK
<1>6. CASE CloseUdp
  <2>1. PlaceTypes'
    BY <1>6 DEF ShapeInv, TypeOK, PlaceTypes, CloseUdp
  <2>2. PeerTypes'
    BY <1>6 DEF ShapeInv, TypeOK, PeerTypes, CloseUdp
  <2>3. FlagTypes'
    BY <1>6 DEF ShapeInv, TypeOK, FlagTypes, CloseUdp
  <2>4. CountTypes'
    BY <1>6 DEF ShapeInv, TypeOK, CountTypes, CloseUdp
  <2>5. CallTypes'
    BY <1>6 DEF ShapeInv, TypeOK, CallTypes, CloseUdp
  <2>6. AddressInv'
    BY <1>6 DEF ShapeInv, AddressInv, CloseUdp
  <2>7. QED
    BY <2>1, <2>2, <2>3, <2>4, <2>5, <2>6 DEF ShapeInv, TypeOK
<1>7. CASE CloseTcp
  <2>1. PlaceTypes'
    BY <1>7 DEF ShapeInv, TypeOK, PlaceTypes, CloseTcp
  <2>2. PeerTypes'
    BY <1>7 DEF ShapeInv, TypeOK, PeerTypes, CloseTcp
  <2>3. FlagTypes'
    BY <1>7 DEF ShapeInv, TypeOK, FlagTypes, CloseTcp
  <2>4. CountTypes'
    BY <1>7 DEF ShapeInv, TypeOK, CountTypes, CloseTcp
  <2>5. CallTypes'
    BY <1>7 DEF ShapeInv, TypeOK, CallTypes, CloseTcp
  <2>6. AddressInv'
    BY <1>7 DEF ShapeInv, AddressInv, CloseTcp
  <2>7. QED
    BY <2>1, <2>2, <2>3, <2>4, <2>5, <2>6 DEF ShapeInv, TypeOK
<1>8. CASE CloseConfig
  <2>1. PlaceTypes'
    BY <1>8 DEF ShapeInv, TypeOK, PlaceTypes, CloseConfig
  <2>2. PeerTypes'
    BY <1>8 DEF ShapeInv, TypeOK, PeerTypes, CloseConfig
  <2>3. FlagTypes'
    BY <1>8 DEF ShapeInv, TypeOK, FlagTypes, CloseConfig
  <2>4. CountTypes'
    BY <1>8 DEF ShapeInv, TypeOK, CountTypes, CloseConfig
  <2>5. CallTypes'
    BY <1>8 DEF ShapeInv, TypeOK, CallTypes, CloseConfig
  <2>6. AddressInv'
    BY <1>8 DEF ShapeInv, AddressInv, CloseConfig
  <2>7. QED
    BY <2>1, <2>2, <2>3, <2>4, <2>5, <2>6 DEF ShapeInv, TypeOK
<1>9. CASE ConfigCall
  <2>0. /\ cfgIp \in Sensors
        /\ Probe => /\ probed' \in Generations /\ freshProbe' \in BOOLEAN
                    /\ sure' \in [Threads -> BOOLEAN]
        /\ Connected \in Sensors \cup {NoSensor}
    BY <1>9, ProbeTypes DEF ConfigCall
  <2>1. PlaceTypes'
    BY <1>9, <2>0 DEF ShapeInv, TypeOK, PlaceTypes, ConfigCall
  <2>2. PeerTypes'
    BY <1>9, <2>0 DEF ShapeInv, TypeOK, PeerTypes, ConfigCall
  <2>3. FlagTypes'
    BY <1>9, <2>0 DEF ShapeInv, TypeOK, FlagTypes, ConfigCall
  <2>4. CountTypes'
    BY <1>9, <2>0 DEF ShapeInv, TypeOK, CountTypes, ConfigCall
  <2>5. CallTypes'
    BY <1>9, <2>0 DEF ShapeInv, TypeOK, CallTypes, ConfigCall
  <2>6. AddressInv'
    BY <1>9, <2>0 DEF ShapeInv, AddressInv, ConfigCall
  <2>7. QED
    BY <2>1, <2>2, <2>3, <2>4, <2>5, <2>6 DEF ShapeInv, TypeOK
<1>10. CASE StreamFrame
  <2>1. PlaceTypes'
    BY <1>10 DEF ShapeInv, TypeOK, PlaceTypes, StreamFrame, Target
  <2>2. PeerTypes'
    BY <1>10 DEF ShapeInv, TypeOK, PlaceTypes, PeerTypes, StreamFrame, Target
  <2>3. FlagTypes'
    BY <1>10 DEF ShapeInv, TypeOK, FlagTypes, StreamFrame, Target
  <2>4. CountTypes'
    BY <1>10 DEF ShapeInv, TypeOK, CountTypes, StreamFrame, Target
  <2>5. CallTypes'
    BY <1>10 DEF ShapeInv, TypeOK, CallTypes, StreamFrame, Target
  <2>6. AddressInv'
    BY <1>10 DEF ShapeInv, TypeOK, PlaceTypes, AddressInv, StreamFrame, Target
  <2>7. QED
    BY <2>1, <2>2, <2>3, <2>4, <2>5, <2>6 DEF ShapeInv, TypeOK
<1>11. CASE ReconnectBegins
  <2>1. PlaceTypes'
    BY <1>11 DEF ShapeInv, TypeOK, PlaceTypes, ReconnectBegins
  <2>2. PeerTypes'
    BY <1>11 DEF ShapeInv, TypeOK, PeerTypes, ReconnectBegins
  <2>3. FlagTypes'
    BY <1>11 DEF ShapeInv, TypeOK, FlagTypes, ReconnectBegins
  <2>4. CountTypes'
    BY <1>11 DEF ShapeInv, TypeOK, CountTypes, ReconnectBegins
  <2>5. CallTypes'
    BY <1>11 DEF ShapeInv, TypeOK, CallTypes, ReconnectBegins
  <2>6. AddressInv'
    BY <1>11 DEF ShapeInv, AddressInv, ReconnectBegins
  <2>7. QED
    BY <2>1, <2>2, <2>3, <2>4, <2>5, <2>6 DEF ShapeInv, TypeOK
<1>12. CASE ReconnectTries
  <2>1. PlaceTypes'
    BY <1>12
       DEF ShapeInv, TypeOK, PlaceTypes, ReconnectTries, ConnectBegins, Target,
           NoCall
  <2>2. PeerTypes'
    BY <1>12
       DEF ShapeInv, TypeOK, PlaceTypes, PeerTypes, ReconnectTries,
           ConnectBegins, Target, NoCall
  <2>3. FlagTypes'
    BY <1>12
       DEF ShapeInv, TypeOK, FlagTypes, ReconnectTries, ConnectBegins, Target,
           NoCall
  <2>4. CountTypes'
    BY <1>12
       DEF ShapeInv, TypeOK, CountTypes, ReconnectTries, ConnectBegins, Target,
           NoCall
  <2>5. CallTypes'
    BY <1>12
       DEF ShapeInv, TypeOK, CallTypes, ReconnectTries, ConnectBegins, Target,
           NoCall
  <2>6. AddressInv'
    BY <1>12
       DEF ShapeInv, TypeOK, PlaceTypes, AddressInv, ReconnectTries,
           ConnectBegins, Target, NoCall
  <2>7. QED
    BY <2>1, <2>2, <2>3, <2>4, <2>5, <2>6 DEF ShapeInv, TypeOK
<1>13. CASE ReconnectSucceeds
  <2>0. /\ cfgIp \in Sensors
        /\ Probe => /\ probed' \in Generations /\ freshProbe' \in BOOLEAN
                    /\ sure' \in [Threads -> BOOLEAN]
        /\ Connected \in Sensors \cup {NoSensor}
    BY <1>13, ProbeTypes DEF ReconnectSucceeds
  <2>1. PlaceTypes'
    BY <1>13, <2>0
       DEF ShapeInv, TypeOK, PlaceTypes, ReconnectSucceeds, ConnectSucceeds,
           ConnectFails
  <2>2. PeerTypes'
    BY <1>13, <2>0
       DEF ShapeInv, TypeOK, PeerTypes, ReconnectSucceeds, ConnectSucceeds,
           ConnectFails
  <2>3. FlagTypes'
    BY <1>13, <2>0
       DEF ShapeInv, TypeOK, FlagTypes, ReconnectSucceeds, ConnectSucceeds,
           ConnectFails
  <2>4. CountTypes'
    BY <1>13, <2>0
       DEF ShapeInv, TypeOK, CountTypes, ReconnectSucceeds, ConnectSucceeds,
           ConnectFails
  <2>5. CallTypes'
    BY <1>13, <2>0
       DEF ShapeInv, TypeOK, CallTypes, ReconnectSucceeds, ConnectSucceeds,
           ConnectFails
  <2>6. AddressInv'
    BY <1>13, <2>0
       DEF ShapeInv, AddressInv, ReconnectSucceeds, ConnectSucceeds,
           ConnectFails
  <2>7. QED
    BY <2>1, <2>2, <2>3, <2>4, <2>5, <2>6 DEF ShapeInv, TypeOK
<1>14. CASE ReconnectFails
  <2>1. PlaceTypes'
    BY <1>14
       DEF ShapeInv, TypeOK, PlaceTypes, ReconnectFails, ConnectSucceeds,
           ConnectFails
  <2>2. PeerTypes'
    BY <1>14
       DEF ShapeInv, TypeOK, PeerTypes, ReconnectFails, ConnectSucceeds,
           ConnectFails
  <2>3. FlagTypes'
    BY <1>14
       DEF ShapeInv, TypeOK, FlagTypes, ReconnectFails, ConnectSucceeds,
           ConnectFails
  <2>4. CountTypes'
    BY <1>14
       DEF ShapeInv, TypeOK, CountTypes, ReconnectFails, ConnectSucceeds,
           ConnectFails
  <2>5. CallTypes'
    BY <1>14
       DEF ShapeInv, TypeOK, CallTypes, ReconnectFails, ConnectSucceeds,
           ConnectFails
  <2>6. AddressInv'
    BY <1>14
       DEF ShapeInv, AddressInv, ReconnectFails, ConnectSucceeds, ConnectFails
  <2>7. QED
    BY <2>1, <2>2, <2>3, <2>4, <2>5, <2>6 DEF ShapeInv, TypeOK
<1>15. CASE ReconnectWakes
  <2>1. PlaceTypes'
    BY <1>15 DEF ShapeInv, TypeOK, PlaceTypes, ReconnectWakes
  <2>2. PeerTypes'
    BY <1>15 DEF ShapeInv, TypeOK, PeerTypes, ReconnectWakes
  <2>3. FlagTypes'
    BY <1>15 DEF ShapeInv, TypeOK, FlagTypes, ReconnectWakes
  <2>4. CountTypes'
    BY <1>15 DEF ShapeInv, TypeOK, CountTypes, ReconnectWakes
  <2>5. CallTypes'
    BY <1>15 DEF ShapeInv, TypeOK, CallTypes, ReconnectWakes
  <2>6. AddressInv'
    BY <1>15 DEF ShapeInv, AddressInv, ReconnectWakes
  <2>7. QED
    BY <2>1, <2>2, <2>3, <2>4, <2>5, <2>6 DEF ShapeInv, TypeOK
<1>16. CASE DeadlinePasses
  <2>1. PlaceTypes'
    BY <1>16 DEF ShapeInv, TypeOK, PlaceTypes, DeadlinePasses
  <2>2. PeerTypes'
    BY <1>16 DEF ShapeInv, TypeOK, PeerTypes, DeadlinePasses
  <2>3. FlagTypes'
    BY <1>16 DEF ShapeInv, TypeOK, FlagTypes, DeadlinePasses
  <2>4. CountTypes'
    BY <1>16 DEF ShapeInv, TypeOK, CountTypes, DeadlinePasses
  <2>5. CallTypes'
    BY <1>16 DEF ShapeInv, TypeOK, CallTypes, DeadlinePasses
  <2>6. AddressInv'
    BY <1>16 DEF ShapeInv, AddressInv, DeadlinePasses
  <2>7. QED
    BY <2>1, <2>2, <2>3, <2>4, <2>5, <2>6 DEF ShapeInv, TypeOK
<1>17. ASSUME NEW t \in Threads, SendBegins(t)
      PROVE  ShapeInv'
  <2>1. PlaceTypes'
    BY <1>17 DEF ShapeInv, TypeOK, PlaceTypes, SendBegins, Told
  <2>2. PeerTypes'
    BY <1>17 DEF ShapeInv, TypeOK, PeerTypes, SendBegins, Told
  <2>3. FlagTypes'
    BY <1>17 DEF ShapeInv, TypeOK, FlagTypes, SendBegins, Told
  <2>4. CountTypes'
    BY <1>17 DEF ShapeInv, TypeOK, CountTypes, SendBegins, Told
  <2>5. CallTypes'
    BY <1>17 DEF ShapeInv, TypeOK, CallTypes, SendBegins, Told
  <2>6. AddressInv'
    BY <1>17 DEF ShapeInv, AddressInv, SendBegins, Told
  <2>7. QED
    BY <2>1, <2>2, <2>3, <2>4, <2>5, <2>6 DEF ShapeInv, TypeOK
<1>18. ASSUME NEW t \in Threads, Choose(t)
      PROVE  ShapeInv'
  <2>1. PlaceTypes'
    BY <1>18 DEF ShapeInv, TypeOK, PlaceTypes, Choose
  <2>2. PeerTypes'
    BY <1>18 DEF ShapeInv, TypeOK, PeerTypes, Choose
  <2>3. FlagTypes'
    BY <1>18 DEF ShapeInv, TypeOK, FlagTypes, Choose
  <2>4. CountTypes'
    BY <1>18 DEF ShapeInv, TypeOK, CountTypes, Choose
  <2>5. CallTypes'
    BY <1>18 DEF ShapeInv, TypeOK, CallTypes, Choose
  <2>6. AddressInv'
    BY <1>18 DEF ShapeInv, AddressInv, Choose
  <2>7. QED
    BY <2>1, <2>2, <2>3, <2>4, <2>5, <2>6 DEF ShapeInv, TypeOK
<1>19. ASSUME NEW t \in Threads, Connects(t)
      PROVE  ShapeInv'
  <2>0. /\ session' \in 0..SessionMod - 1 /\ counter' \in 0..CounterMod - 1
        /\ frame' \in [Threads -> Frames]
    BY <1>19, FrameTypes
  <2>1. PlaceTypes'
    BY <1>19, <2>0 DEF ShapeInv, TypeOK, PlaceTypes, Connects, Target
  <2>2. PeerTypes'
    BY <1>19, <2>0 DEF ShapeInv, TypeOK, PlaceTypes, PeerTypes, Connects, Target
  <2>3. FlagTypes'
    BY <1>19, <2>0 DEF ShapeInv, TypeOK, FlagTypes, Connects, Target
  <2>4. CountTypes'
    BY <1>19, <2>0 DEF ShapeInv, TypeOK, CountTypes, Connects, Target
  <2>5. CallTypes'
    BY <1>19, <2>0 DEF ShapeInv, TypeOK, CallTypes, Connects, Target
  <2>6. AddressInv'
    BY <1>19, <2>0
       DEF ShapeInv, TypeOK, PlaceTypes, AddressInv, Connects, Target
  <2>7. QED
    BY <2>1, <2>2, <2>3, <2>4, <2>5, <2>6 DEF ShapeInv, TypeOK
<1>20. ASSUME NEW t \in Threads, CannotConnect(t)
      PROVE  ShapeInv'
  <2>1. PlaceTypes'
    BY <1>20 DEF ShapeInv, TypeOK, PlaceTypes, CannotConnect
  <2>2. PeerTypes'
    BY <1>20 DEF ShapeInv, TypeOK, PeerTypes, CannotConnect
  <2>3. FlagTypes'
    BY <1>20 DEF ShapeInv, TypeOK, FlagTypes, CannotConnect
  <2>4. CountTypes'
    BY <1>20 DEF ShapeInv, TypeOK, CountTypes, CannotConnect
  <2>5. CallTypes'
    BY <1>20 DEF ShapeInv, TypeOK, CallTypes, CannotConnect
  <2>6. AddressInv'
    BY <1>20 DEF ShapeInv, AddressInv, CannotConnect
  <2>7. QED
    BY <2>1, <2>2, <2>3, <2>4, <2>5, <2>6 DEF ShapeInv, TypeOK
<1>21. ASSUME NEW t \in Threads, SendOk(t)
      PROVE  ShapeInv'
  <2>0. NoFrame \in Frames /\ wire' \in Seq(Sent)
    <3>1. NoFrame \in Frames
      BY Widths DEF NoFrame, Frames
    <3>2. wire' = wire \/ \E whole \in BOOLEAN : OnTheWire(t, whole)
      BY <1>21 DEF SendOk
    <3>3. QED
      BY <3>1, <3>2, WireTypes DEF ShapeInv, TypeOK, CallTypes
  <2>1. PlaceTypes'
    BY <1>21, <2>0 DEF ShapeInv, TypeOK, PlaceTypes, SendOk, SendReturns
  <2>2. PeerTypes'
    BY <1>21, <2>0 DEF ShapeInv, TypeOK, PeerTypes, SendOk, SendReturns
  <2>3. FlagTypes'
    BY <1>21, <2>0 DEF ShapeInv, TypeOK, FlagTypes, SendOk, SendReturns
  <2>4. CountTypes'
    BY <1>21, <2>0 DEF ShapeInv, TypeOK, CountTypes, SendOk, SendReturns
  <2>5. CallTypes'
    BY <1>21, <2>0 DEF ShapeInv, TypeOK, CallTypes, SendOk, SendReturns
  <2>6. AddressInv'
    BY <1>21, <2>0 DEF ShapeInv, AddressInv, SendOk, SendReturns
  <2>7. QED
    BY <2>1, <2>2, <2>3, <2>4, <2>5, <2>6 DEF ShapeInv, TypeOK
<1>22. ASSUME NEW t \in Threads, UdpSendFails(t)
      PROVE  ShapeInv'
  <2>0. NoFrame \in Frames /\ wire' \in Seq(Sent)
    <3>1. NoFrame \in Frames
      BY Widths DEF NoFrame, Frames
    <3>2. wire' = wire \/ \E whole \in BOOLEAN : OnTheWire(t, whole)
      BY <1>22 DEF UdpSendFails
    <3>3. QED
      BY <3>1, <3>2, WireTypes DEF ShapeInv, TypeOK, CallTypes
  <2>1. PlaceTypes'
    BY <1>22, <2>0 DEF ShapeInv, TypeOK, PlaceTypes, UdpSendFails, SendReturns
  <2>2. PeerTypes'
    BY <1>22, <2>0 DEF ShapeInv, TypeOK, PeerTypes, UdpSendFails, SendReturns
  <2>3. FlagTypes'
    BY <1>22, <2>0 DEF ShapeInv, TypeOK, FlagTypes, UdpSendFails, SendReturns
  <2>4. CountTypes'
    BY <1>22, <2>0 DEF ShapeInv, TypeOK, CountTypes, UdpSendFails, SendReturns
  <2>5. CallTypes'
    BY <1>22, <2>0 DEF ShapeInv, TypeOK, CallTypes, UdpSendFails, SendReturns
  <2>6. AddressInv'
    BY <1>22, <2>0 DEF ShapeInv, AddressInv, UdpSendFails, SendReturns
  <2>7. QED
    BY <2>1, <2>2, <2>3, <2>4, <2>5, <2>6 DEF ShapeInv, TypeOK
<1>23. ASSUME NEW t \in Threads, TcpSendFails(t)
      PROVE  ShapeInv'
  <2>0. NoFrame \in Frames /\ wire' \in Seq(Sent)
    <3>1. NoFrame \in Frames
      BY Widths DEF NoFrame, Frames
    <3>2. wire' = wire \/ \E whole \in BOOLEAN : OnTheWire(t, whole)
      BY <1>23 DEF TcpSendFails
    <3>3. QED
      BY <3>1, <3>2, WireTypes DEF ShapeInv, TypeOK, CallTypes
  <2>1. PlaceTypes'
    BY <1>23, <2>0 DEF ShapeInv, TypeOK, PlaceTypes, TcpSendFails, SendReturns
  <2>2. PeerTypes'
    BY <1>23, <2>0 DEF ShapeInv, TypeOK, PeerTypes, TcpSendFails, SendReturns
  <2>3. FlagTypes'
    BY <1>23, <2>0 DEF ShapeInv, TypeOK, FlagTypes, TcpSendFails, SendReturns
  <2>4. CountTypes'
    BY <1>23, <2>0 DEF ShapeInv, TypeOK, CountTypes, TcpSendFails, SendReturns
  <2>5. CallTypes'
    BY <1>23, <2>0 DEF ShapeInv, TypeOK, CallTypes, TcpSendFails, SendReturns
  <2>6. AddressInv'
    BY <1>23, <2>0 DEF ShapeInv, AddressInv, TcpSendFails, SendReturns
  <2>7. QED
    BY <2>1, <2>2, <2>3, <2>4, <2>5, <2>6 DEF ShapeInv, TypeOK
<1>24. ASSUME NEW s \in Sensors, NEW gen \in Generations, Reboot(s, gen)
      PROVE  ShapeInv'
  <2>1. PlaceTypes'
    BY <1>24 DEF ShapeInv, TypeOK, PlaceTypes, Reboot, NoCall
  <2>2. PeerTypes'
    BY <1>24 DEF ShapeInv, TypeOK, PeerTypes, Reboot, NoCall
  <2>3. FlagTypes'
    BY <1>24 DEF ShapeInv, TypeOK, FlagTypes, Reboot, NoCall
  <2>4. CountTypes'
    BY <1>24 DEF ShapeInv, TypeOK, CountTypes, Reboot, NoCall
  <2>5. CallTypes'
    BY <1>24 DEF ShapeInv, TypeOK, CallTypes, Reboot, NoCall
  <2>6. AddressInv'
    BY <1>24 DEF ShapeInv, AddressInv, Reboot, NoCall
  <2>7. QED
    BY <2>1, <2>2, <2>3, <2>4, <2>5, <2>6 DEF ShapeInv, TypeOK
<1>25. CASE UNCHANGED vars
  <2>1. PlaceTypes'
    BY <1>25 DEF ShapeInv, TypeOK, PlaceTypes, vars
  <2>2. PeerTypes'
    BY <1>25 DEF ShapeInv, TypeOK, PeerTypes, vars
  <2>3. FlagTypes'
    BY <1>25 DEF ShapeInv, TypeOK, FlagTypes, vars
  <2>4. CountTypes'
    BY <1>25 DEF ShapeInv, TypeOK, CountTypes, vars
  <2>5. CallTypes'
    BY <1>25 DEF ShapeInv, TypeOK, CallTypes, vars
  <2>6. AddressInv'
    BY <1>25 DEF ShapeInv, AddressInv, vars
  <2>7. QED
    BY <2>1, <2>2, <2>3, <2>4, <2>5, <2>6 DEF ShapeInv, TypeOK
<1>26. QED
  BY <1>1, <1>2, <1>3, <1>4, <1>5, <1>6, <1>7, <1>8, <1>9, <1>10,
     <1>11, <1>12, <1>13, <1>14, <1>15, <1>16, <1>17, <1>18, <1>19,
     <1>20, <1>21, <1>22, <1>23, <1>24, <1>25
     DEF Next, InitStep, CloseStep, ReconnectStep, SendStep

-----------------------------------------------------------------------------
(* Counters that wrap *)

(* The distance from one counter to another. *)
LEMMA Distance ==
  ASSUME NEW a \in 0..CounterMod - 1, NEW c \in 0..CounterMod - 1
  PROVE  (c - a) % CounterMod = IF c >= a THEN c - a ELSE c - a + CounterMod
<1>1. CASE c >= a
  <2>1. c - a \in 0..CounterMod - 1
    BY <1>1, Widths
  <2>2. QED
    BY <1>1, <2>1, Widths
<1>2. CASE ~(c >= a)
  <2>1. c - a \in Int /\ c - a < 0 /\ c - a >= -CounterMod
    BY <1>2, Widths
  <2>2. (c - a) % CounterMod = c - a + CounterMod
    BY <2>1, Widths
  <2>3. QED
    BY <1>2, <2>2
<1>3. QED
  BY <1>1, <1>2

(* The next counter. *)
LEMMA Successor ==
  ASSUME NEW c \in 0..CounterMod - 1
  PROVE  /\ (c + 1) % CounterMod \in 0..CounterMod - 1
         /\ (c + 1) % CounterMod = IF c = CounterMod - 1 THEN 0 ELSE c + 1
<1>1. CASE c = CounterMod - 1
  <2>1. c + 1 = CounterMod
    BY <1>1, Widths
  <2>2. CounterMod % CounterMod = 0
    BY Widths
  <2>3. QED
    BY <1>1, <2>1, <2>2, Widths
<1>2. CASE c # CounterMod - 1
  <2>1. c + 1 \in 0..CounterMod - 1
    BY <1>2, Widths
  <2>2. (c + 1) % CounterMod = c + 1
    BY <2>1, Widths
  <2>3. QED
    BY <1>2, <2>1, <2>2
<1>3. QED
  BY <1>1, <1>2

(* A frame ages by one with each frame that is built after it. *)
LEMMA Ages ==
  ASSUME NEW a \in 0..CounterMod - 1, NEW c \in 0..CounterMod - 1,
         (c - a) % CounterMod < CounterMod - 1
  PROVE  (((c + 1) % CounterMod) - a) % CounterMod = ((c - a) % CounterMod) + 1
<1>1. PICK n \in 0..CounterMod - 1 :
        n = (c + 1) % CounterMod /\ n = IF c = CounterMod - 1 THEN 0 ELSE c + 1
  BY Successor
<1>2. (n - a) % CounterMod = IF n >= a THEN n - a ELSE n - a + CounterMod
  BY Distance
<1>3. (c - a) % CounterMod = IF c >= a THEN c - a ELSE c - a + CounterMod
  BY Distance
<1>4. QED
  BY <1>1, <1>2, <1>3, Widths

(* The frame that is built has age one. *)
LEMMA NewAge ==
  ASSUME NEW c \in 0..CounterMod - 1, CounterMod > 1
  PROVE  (((c + 1) % CounterMod) - c) % CounterMod = 1
<1>1. (c - c) % CounterMod = 0
  BY Distance, Widths
<1>2. (c - c) % CounterMod < CounterMod - 1 \/ CounterMod = 1
  BY <1>1, Widths
<1>3. QED
  BY <1>1, <1>2, Ages

(* The older of two frames is behind by the difference of their ages. *)
LEMMA AgesApart ==
  ASSUME NEW a \in 0..CounterMod - 1, NEW b \in 0..CounterMod - 1,
         NEW c \in 0..CounterMod - 1,
         (c - a) % CounterMod > (c - b) % CounterMod
  PROVE  (b - a) % CounterMod = ((c - a) % CounterMod) - ((c - b) % CounterMod)
<1>1. (c - a) % CounterMod = IF c >= a THEN c - a ELSE c - a + CounterMod
  BY Distance
<1>2. (c - b) % CounterMod = IF c >= b THEN c - b ELSE c - b + CounterMod
  BY Distance
<1>3. (b - a) % CounterMod = IF b >= a THEN b - a ELSE b - a + CounterMod
  BY Distance
<1>4. QED
  BY <1>1, <1>2, <1>3, Widths

-----------------------------------------------------------------------------
(* The order of the frames *)

CallsKept == UNCHANGED <<lock, counter, session, pc, via, frame, sends, conn,
                         wire>>

SendEnds(t) == SendOk(t) \/ UdpSendFails(t) \/ TcpSendFails(t)

(* Only SendVehicleInput touches what it keeps to itself. *)
LEMMA CallSteps ==
  ASSUME [Next]_vars
  PROVE  \/ CallsKept
         \/ \E t \in Threads : \/ SendBegins(t) \/ Choose(t) \/ Connects(t)
                               \/ CannotConnect(t) \/ SendEnds(t)
<1> USE DEF CallsKept, sdk, cfg, recon, sockets, calls, sensor, known, history
<1>1. CASE \E t \in Threads : SendBegins(t) \/ SendStep(t)
  BY <1>1 DEF SendStep, SendEnds
<1>2. CASE InitStep \/ StopBegins \/ CloseStep
  BY <1>2 DEF InitStep, InitConnects, InitConnected, InitEnds, StopBegins,
       CloseStep, CloseUdp, CloseTcp, CloseConfig
<1>3. CASE ConfigCall \/ StreamFrame
  BY <1>3 DEF ConfigCall, StreamFrame
<1>4. CASE ReconnectBegins \/ ReconnectStep \/ DeadlinePasses
  BY <1>4 DEF ReconnectBegins, ReconnectStep, ReconnectTries,
       ReconnectSucceeds, ReconnectFails, ReconnectWakes, DeadlinePasses
<1>5. ASSUME NEW ip \in Sensors, NEW csii \in Forced, InitBegins(ip, csii)
      PROVE  CallsKept
  BY <1>5 DEF InitBegins
<1>6. ASSUME NEW s \in Sensors, NEW gen \in Generations, Reboot(s, gen)
      PROVE  CallsKept
  BY <1>6 DEF Reboot
<1>7. CASE UNCHANGED vars
  BY <1>7 DEF vars
<1>8. QED
  BY <1>1, <1>2, <1>3, <1>4, <1>5, <1>6, <1>7 DEF Next

(* csii_mutex_ lets one call be past it. *)
LEMMA LockStep ==
  ASSUME ShapeInv, HoldsLock, [Next]_vars
  PROVE  HoldsLock'
<1> USE DEF calls
<1>1. pc \in [Threads -> {"idle", "lock", "connect", "send"}]
  BY DEF ShapeInv, TypeOK, PlaceTypes
<1>2. CASE CallsKept
  BY <1>2 DEF HoldsLock, CallsKept
<1>3. ASSUME NEW t \in Threads, SendBegins(t)
      PROVE  HoldsLock'
  BY <1>1, <1>3 DEF SendBegins, HoldsLock
<1>4. ASSUME NEW t \in Threads, Choose(t)
      PROVE  HoldsLock'
  BY <1>1, <1>4, CsiiAssumption DEF Choose, MayEnter, HoldsLock
<1>5. ASSUME NEW t \in Threads, Connects(t)
      PROVE  HoldsLock'
  BY <1>1, <1>5 DEF Connects, HoldsLock
<1>6. ASSUME NEW t \in Threads, CannotConnect(t)
      PROVE  HoldsLock'
  BY <1>1, <1>6 DEF CannotConnect, HoldsLock
<1>7. ASSUME NEW t \in Threads, SendEnds(t)
      PROVE  HoldsLock'
  BY <1>1, <1>7
     DEF SendEnds, SendOk, UdpSendFails, TcpSendFails, SendReturns, HoldsLock
<1>8. QED
  BY <1>2, <1>3, <1>4, <1>5, <1>6, <1>7, CallSteps

(* The wire with one more frame on it. *)
LEMMA OneMore ==
  ASSUME wire \in Seq(Sent), NEW r \in Sent, wire' = Append(wire, r)
  PROVE  /\ DOMAIN wire' = DOMAIN wire \cup {Len(wire) + 1}
         /\ \A i \in DOMAIN wire :
              i \in Nat /\ i < Len(wire) + 1 /\ wire'[i] = wire[i]
         /\ wire'[Len(wire) + 1] = r /\ Len(wire) + 1 \in Nat
OBVIOUS

(* What is on the wire or in hand is a frame with a counter. *)
LEMMA FramesHaveCounters ==
  ASSUME ShapeInv
  PROVE  /\ \A i \in DOMAIN wire :
              /\ wire[i] \in Sent
              /\ wire[i].frame.counter \in 0..CounterMod - 1
         /\ \A t \in Threads : frame[t].counter \in 0..CounterMod - 1
         /\ counter \in 0..CounterMod - 1 /\ DOMAIN wire \subseteq Nat
         /\ \A i \in DOMAIN wire : Age(wire[i].frame) \in 0..CounterMod - 1
<1>1. wire \in Seq(Sent) /\ frame \in [Threads -> Frames]
  BY DEF ShapeInv, TypeOK, CallTypes
<1>2. counter \in 0..CounterMod - 1
  BY DEF ShapeInv, TypeOK, CountTypes
<1>3. \A i \in DOMAIN wire : wire[i] \in Sent
  BY <1>1
<1>4. \A f \in Frames : f.counter \in 0..CounterMod - 1
  BY DEF Frames
<1>5. \A i \in DOMAIN wire : wire[i].frame.counter \in 0..CounterMod - 1
  BY <1>3, <1>4 DEF Sent
<1>6. \A i \in DOMAIN wire : Age(wire[i].frame) \in 0..CounterMod - 1
  BY <1>2, <1>5, Widths DEF Age
<1>7. QED
  BY <1>1, <1>2, <1>3, <1>4, <1>5, <1>6

(* Calls that wait are counted, as they come and as they go on. *)
LEMMA WaitingCounts ==
  ASSUME IsFiniteSet(Waiting), NEW t \in Threads,
         NEW where \in {"idle", "lock", "connect", "send"},
         pc \in [Threads -> {"idle", "lock", "connect", "send"}],
         pc' = [pc EXCEPT ![t] = where]
  PROVE  /\ Cardinality(Waiting) \in Nat /\ IsFiniteSet(Waiting')
         /\ pc[t] = "idle" /\ where = "lock" =>
              Cardinality(Waiting') = Cardinality(Waiting) + 1
         /\ pc[t] = "lock" /\ where = "connect" => Waiting' = Waiting
         /\ pc[t] = "connect" /\ where \in {"idle", "send"} =>
              Cardinality(Waiting') = Cardinality(Waiting) - 1
         /\ pc[t] = "send" /\ where = "idle" => Waiting' = Waiting
<1>1. where \in {"lock", "connect"} => Waiting' = Waiting \cup {t}
  BY DEF Waiting
<1>2. where \notin {"lock", "connect"} => Waiting' = Waiting \ {t}
  BY DEF Waiting
<1>3. t \in Waiting <=> pc[t] \in {"lock", "connect"}
  BY DEF Waiting
<1>4. Cardinality(Waiting) \in Nat
  BY FS_CardinalityType
<1>5. /\ IsFiniteSet(Waiting \cup {t})
      /\ Cardinality(Waiting \cup {t}) =
           IF t \in Waiting THEN Cardinality(Waiting)
                             ELSE Cardinality(Waiting) + 1
  BY FS_AddElement
<1>6. /\ IsFiniteSet(Waiting \ {t})
      /\ Cardinality(Waiting \ {t}) =
           IF t \in Waiting THEN Cardinality(Waiting) - 1
                             ELSE Cardinality(Waiting)
  BY FS_RemoveElement
<1>7. IsFiniteSet(Waiting')
  BY <1>1, <1>2, <1>5, <1>6
<1>8. t \in Waiting => Waiting \cup {t} = Waiting
  OBVIOUS
<1>9. t \notin Waiting => Waiting \ {t} = Waiting
  OBVIOUS
<1>10. QED
  BY <1>1, <1>2, <1>3, <1>4, <1>5, <1>6, <1>7, <1>8, <1>9

(* Steps that leave the counter, the frames and the calls in hand alone. *)
LEMMA OrderKept ==
  ASSUME OrderInv, ShapeInv,
         UNCHANGED <<counter, session, frame, wire>>,
         IsFiniteSet(Waiting)', NEW n \in Nat, NEW m \in Nat,
         n = Cardinality(Waiting), m = Cardinality(Waiting)',
         m <= sends', sends' - m >= sends - n,
         sends' <= MaxSend, sends' \in Nat,
         \A t \in Threads : pc'[t] = "send" => pc[t] = "send"
  PROVE  OrderInv'
<1>1. \A i \in DOMAIN wire : Age(wire[i].frame) \in Nat
  BY FramesHaveCounters, Widths
<1>2. sends \in Nat
  BY DEF ShapeInv, TypeOK, CountTypes
<1>3. \A i \in DOMAIN wire' : /\ wire'[i] = wire[i] /\ i \in DOMAIN wire
                              /\ Age(wire[i].frame)' = Age(wire[i].frame)
  BY DEF Age
<1>4. WaitInv'
  BY DEF WaitInv
<1>5. WireInv'
  <2>1. ASSUME NEW i \in DOMAIN wire
        PROVE  /\ Age(wire[i].frame) + n <= sends /\ Age(wire[i].frame) >= 1
               /\ wire[i].frame.session # 0
               /\ Age(wire[i].frame) = 1 => wire[i].frame.session = session
    BY DEF OrderInv, WireInv
  <2>2. ASSUME NEW i \in DOMAIN wire
        PROVE  Age(wire[i].frame) + m <= sends'
    <3>1. PICK a \in Nat : a = Age(wire[i].frame)
      BY <1>1
    <3>2. a + n <= sends
      BY <2>1, <3>1
    <3>3. a + m <= sends'
      BY <1>2, <3>2
    <3>4. QED
      BY <3>1, <3>3
  <2>3. QED
    BY <2>1, <2>2 DEF WireInv, Age
<1>6. PairInv'
  BY DEF OrderInv, PairInv, Age
<1>7. HandInv'
  <2>1. ASSUME NEW t \in Threads, pc'[t] = "send"
        PROVE  1 + m <= sends'
    <3>1. 1 + n <= sends
      BY <2>1 DEF OrderInv, HandInv
    <3>2. QED
      BY <1>2, <3>1
  <2>2. QED
    BY <2>1 DEF OrderInv, HandInv, Age
<1>8. QED
  BY <1>4, <1>5, <1>6, <1>7 DEF OrderInv

(* A call begins. *)
LEMMA OrderBegins ==
  ASSUME ShapeInv, OrderInv, NEW t \in Threads, SendBegins(t)
  PROVE  OrderInv'
<1> USE DEF sdk, cfg, recon, sockets, calls, sensor, known, history
<1>1. /\ pc[t] = "idle" /\ pc' = [pc EXCEPT ![t] = "lock"]
      /\ sends' = sends + 1 /\ sends < MaxSend
      /\ UNCHANGED <<counter, session, frame, wire>>
  BY DEF SendBegins
<1>2. pc \in [Threads -> {"idle", "lock", "connect", "send"}]
  BY DEF ShapeInv, TypeOK, PlaceTypes
<1>3. IsFiniteSet(Waiting) /\ Cardinality(Waiting) <= sends
  BY DEF OrderInv, WaitInv
<1>4. PICK n \in Nat : n = Cardinality(Waiting)
  BY <1>3, FS_CardinalityType
<1>5. IsFiniteSet(Waiting)' /\ Cardinality(Waiting)' = n + 1
  BY <1>1, <1>2, <1>3, <1>4, WaitingCounts
<1>6. \A u \in Threads : pc'[u] = "send" => pc[u] = "send"
  BY <1>1, <1>2
<1>7. sends \in Nat /\ MaxSend \in Nat
  BY Widths DEF ShapeInv, TypeOK, CountTypes
<1>8. /\ sends' \in Nat /\ n + 1 \in Nat /\ n + 1 <= sends'
      /\ sends' - (n + 1) >= sends - n /\ sends' <= MaxSend
  BY <1>1, <1>3, <1>4, <1>7
<1>9. QED
  BY <1>1, <1>4, <1>5, <1>6, <1>8, OrderKept

(* A call takes the mutex, or cannot connect. *)
LEMMA OrderGoesOn ==
  ASSUME ShapeInv, OrderInv, NEW t \in Threads, Choose(t) \/ CannotConnect(t)
  PROVE  OrderInv'
<1> USE DEF sdk, cfg, recon, sockets, calls, sensor, known, history
<1>1. /\ \/ pc[t] = "lock" /\ pc' = [pc EXCEPT ![t] = "connect"]
         \/ pc[t] = "connect" /\ pc' = [pc EXCEPT ![t] = "idle"]
      /\ UNCHANGED <<counter, session, frame, wire, sends>>
  BY DEF Choose, CannotConnect
<1>2. pc \in [Threads -> {"idle", "lock", "connect", "send"}]
  BY DEF ShapeInv, TypeOK, PlaceTypes
<1>3. IsFiniteSet(Waiting) /\ Cardinality(Waiting) <= sends /\ sends <= MaxSend
  BY DEF OrderInv, WaitInv
<1>4. PICK n \in Nat : n = Cardinality(Waiting)
  BY <1>3, FS_CardinalityType
<1>5. PICK m \in {n, n - 1} : IsFiniteSet(Waiting)' /\ Cardinality(Waiting)' = m
  <2>1. CASE pc[t] = "lock" /\ pc' = [pc EXCEPT ![t] = "connect"]
    BY <1>2, <1>3, <1>4, <2>1, WaitingCounts
  <2>2. CASE pc[t] = "connect" /\ pc' = [pc EXCEPT ![t] = "idle"]
    BY <1>2, <1>3, <1>4, <2>2, WaitingCounts
  <2>3. QED
    BY <1>1, <2>1, <2>2
<1>6. m \in Nat
  BY <1>5, FS_CardinalityType
<1>7. \A u \in Threads : pc'[u] = "send" => pc[u] = "send"
  BY <1>1, <1>2
<1>8. /\ sends' \in Nat /\ m <= sends'
      /\ sends' - m >= sends - n /\ sends' <= MaxSend
  BY <1>1, <1>3, <1>4, <1>5 DEF ShapeInv, TypeOK, CountTypes
<1>9. QED
  BY <1>1, <1>4, <1>5, <1>6, <1>7, <1>8, OrderKept

(* A call builds its frame, and every frame on the wire ages. *)
LEMMA OrderBuilds ==
  ASSUME ShapeInv, HoldsLock, OrderInv, NEW t \in Threads, Connects(t)
  PROVE  OrderInv'
<1> USE DEF sdk, cfg, recon, sockets, calls, sensor, known, history
<1>1. /\ pc[t] = "connect" /\ pc' = [pc EXCEPT ![t] = "send"]
      /\ counter' = (counter + 1) % CounterMod
      /\ UNCHANGED <<wire, sends>>
  BY DEF Connects
<1>2. pc \in [Threads -> {"idle", "lock", "connect", "send"}]
  BY DEF ShapeInv, TypeOK, PlaceTypes
<1>3. IsFiniteSet(Waiting) /\ Cardinality(Waiting) <= sends /\ sends <= MaxSend
  BY DEF OrderInv, WaitInv
<1>4. PICK n \in Nat : n = Cardinality(Waiting)
  BY <1>3, FS_CardinalityType
<1>5. IsFiniteSet(Waiting)' /\ Cardinality(Waiting)' = n - 1
  BY <1>1, <1>2, <1>3, <1>4, WaitingCounts
<1>6. n - 1 \in Nat
  BY <1>5, FS_CardinalityType
<1>7. /\ sends \in Nat /\ MaxSend \in Nat /\ CounterMod \in Nat
      /\ CounterMod > 2 * MaxSend /\ MaxSend >= 1
  BY <1>3, <1>4, <1>6, Widths DEF ShapeInv, TypeOK, CountTypes
<1>8. ASSUME NEW i \in DOMAIN wire
      PROVE  /\ wire'[i] = wire[i]
             /\ Age(wire[i].frame) \in Nat /\ Age(wire[i].frame) >= 1
             /\ Age(wire[i].frame) + n <= sends
             /\ Age(wire[i].frame)' = Age(wire[i].frame) + 1
             /\ wire[i].frame.session # 0
             /\ Age(wire[i].frame) = 1 => wire[i].frame.session = session
  <2>1. /\ Age(wire[i].frame) >= 1 /\ Age(wire[i].frame) + n <= sends
        /\ wire[i].frame.session # 0
        /\ Age(wire[i].frame) = 1 => wire[i].frame.session = session
    BY <1>4 DEF OrderInv, WireInv
  <2>2. /\ wire[i].frame.counter \in 0..CounterMod - 1
        /\ Age(wire[i].frame) \in Nat /\ counter \in 0..CounterMod - 1
    BY FramesHaveCounters, Widths
  <2>3. Age(wire[i].frame) < CounterMod - 1
    BY <1>3, <1>6, <1>7, <2>1, <2>2
  <2>4. Age(wire[i].frame)' = Age(wire[i].frame) + 1
    BY <1>1, <2>2, <2>3, Ages DEF Age
  <2>5. QED
    BY <1>1, <2>1, <2>2, <2>4
<1>9. /\ session' # 0 /\ session' # session
      /\ frame'[t] = [counter |-> counter, session |-> session']
  BY FrameTypes DEF ShapeInv, TypeOK, CallTypes
<1>10. Age(frame[t])' = 1
  BY <1>1, <1>7, <1>9, FramesHaveCounters, NewAge DEF Age
<1>11. WaitInv'
  BY <1>1, <1>3, <1>4, <1>5, <1>7 DEF WaitInv
<1>12. WireInv'
  <2>1. ASSUME NEW i \in DOMAIN wire
        PROVE  /\ Age(wire[i].frame)' >= 1 /\ Age(wire[i].frame)' # 1
               /\ Age(wire[i].frame)' + (n - 1) <= sends
    <3>1. PICK a \in Nat : a = Age(wire[i].frame)
      BY <1>8
    <3>2. a >= 1 /\ a + n <= sends /\ Age(wire[i].frame)' = a + 1
      BY <1>8, <3>1
    <3>3. QED
      BY <1>7, <3>2
  <2>2. QED
    BY <1>1, <1>5, <1>8, <2>1 DEF WireInv
<1>13. PairInv'
  <2>1. ASSUME NEW i \in DOMAIN wire, NEW j \in DOMAIN wire, i < j
        PROVE  /\ Age(wire[i].frame)' > Age(wire[j].frame)'
               /\ Age(wire[i].frame)' = Age(wire[j].frame)' + 1 =>
                    wire[i].frame.session # wire[j].frame.session
    <3>1. PICK a \in Nat, b \in Nat :
            a = Age(wire[i].frame) /\ b = Age(wire[j].frame)
      BY <1>8
    <3>2. /\ a > b
          /\ a = b + 1 => wire[i].frame.session # wire[j].frame.session
      BY <2>1, <3>1 DEF OrderInv, PairInv
    <3>3. Age(wire[i].frame)' = a + 1 /\ Age(wire[j].frame)' = b + 1
      BY <1>8, <3>1
    <3>4. QED
      BY <3>2, <3>3
  <2>2. QED
    BY <1>1, <2>1 DEF PairInv
<1>14. HandInv'
  <2>1. ASSUME NEW u \in Threads, pc'[u] = "send"
        PROVE  u = t
    BY <1>1, <1>2, <2>1 DEF HoldsLock
  <2>2. 1 + (n - 1) <= sends
    BY <1>3, <1>4, <1>7
  <2>3. ASSUME NEW i \in DOMAIN wire
        PROVE  /\ Age(wire[i].frame)' > 1
               /\ Age(wire[i].frame)' = 2 => wire[i].frame.session # session'
    <3>1. PICK a \in Nat : a = Age(wire[i].frame)
      BY <1>8
    <3>2. a >= 1 /\ Age(wire[i].frame)' = a + 1
      BY <1>8, <3>1
    <3>3. a = 1 => wire[i].frame.session = session
      BY <1>8, <3>1
    <3>4. QED
      BY <1>9, <3>2, <3>3
  <2>4. QED
    BY <1>1, <1>5, <1>9, <1>10, <2>1, <2>2, <2>3 DEF HandInv
<1>15. QED
  BY <1>11, <1>12, <1>13, <1>14 DEF OrderInv

(* A call's frame is on the wire, or is not sent. *)
LEMMA OrderSends ==
  ASSUME ShapeInv, HoldsLock, OrderInv, NEW t \in Threads, SendEnds(t)
  PROVE  OrderInv'
<1> USE DEF sdk, cfg, recon, sockets, calls, sensor, known, history
<1>1. /\ pc[t] = "send" /\ pc' = [pc EXCEPT ![t] = "idle"]
      /\ UNCHANGED <<counter, session, sends>>
  BY DEF SendEnds, SendOk, UdpSendFails, TcpSendFails, SendReturns
<1>2. pc \in [Threads -> {"idle", "lock", "connect", "send"}]
  BY DEF ShapeInv, TypeOK, PlaceTypes
<1>3. Waiting' = Waiting
  BY <1>1, <1>2, WaitingCounts DEF OrderInv, WaitInv
<1>4. PICK f : f = frame[t]
  OBVIOUS
<1>5. \/ wire' = wire
      \/ \E r \in Sent : wire' = Append(wire, r) /\ r.frame = f
  <2>1. ASSUME NEW whole \in BOOLEAN, OnTheWire(t, whole)
        PROVE  \E r \in Sent : wire' = Append(wire, r) /\ r.frame = f
    <3>1. PICK c : c = IF via[t] = "tcp" THEN conn ELSE 0
      OBVIOUS
    <3>2. f \in Frames /\ c \in Nat
      BY <1>4, <3>1 DEF ShapeInv, TypeOK, CallTypes, CountTypes
    <3>3. [frame |-> f, whole |-> whole, conn |-> c] \in Sent
      BY <3>2 DEF Sent
    <3>4. wire' = Append(wire, [frame |-> f, whole |-> whole, conn |-> c])
      BY <1>4, <2>1, <3>1 DEF OnTheWire
    <3>5. QED
      BY <3>3, <3>4
  <2>2. wire' = wire \/ OnTheWire(t, TRUE) \/ OnTheWire(t, FALSE)
    BY DEF SendEnds, SendOk, UdpSendFails, TcpSendFails
  <2>3. QED
    BY <2>1, <2>2
<1>6. ASSUME NEW u \in Threads
      PROVE  pc'[u] # "send"
  BY <1>1, <1>2 DEF HoldsLock
<1>7. /\ Age(f) = 1 /\ 1 + Cardinality(Waiting) <= sends
      /\ f.session = session /\ session # 0
      /\ \A i \in DOMAIN wire :
           /\ Age(wire[i].frame) > 1
           /\ Age(wire[i].frame) = 2 => wire[i].frame.session # session
  BY <1>1, <1>4 DEF OrderInv, HandInv
<1>8. WaitInv' /\ HandInv'
  BY <1>1, <1>3, <1>6 DEF WaitInv, HandInv, OrderInv
<1>9. CASE wire' = wire
  <2>1. WireInv'
    BY <1>1, <1>3, <1>9 DEF OrderInv, WireInv, Age
  <2>2. PairInv'
    BY <1>1, <1>9 DEF OrderInv, PairInv, Age
  <2>3. QED
    BY <1>8, <2>1, <2>2 DEF OrderInv
<1>10. ASSUME NEW r \in Sent, wire' = Append(wire, r), r.frame = f
       PROVE  OrderInv'
  <2>1. wire \in Seq(Sent)
    BY DEF ShapeInv, TypeOK, CallTypes
  <2>2. PICK k \in Nat :
          /\ DOMAIN wire' = DOMAIN wire \cup {k}
          /\ \A i \in DOMAIN wire : i \in Nat /\ i < k /\ wire'[i] = wire[i]
          /\ wire'[k] = r
    BY <1>10, <2>1, OneMore
  <2>3. WireInv'
    <3>1. ASSUME NEW i \in DOMAIN wire
          PROVE  /\ Age(wire[i].frame) >= 1
                 /\ Age(wire[i].frame) + Cardinality(Waiting) <= sends
                 /\ wire[i].frame.session # 0
                 /\ Age(wire[i].frame) = 1 => wire[i].frame.session = session
      BY DEF OrderInv, WireInv
    <3>2. /\ Age(r.frame) >= 1
          /\ Age(r.frame) + Cardinality(Waiting) <= sends
          /\ r.frame.session # 0
          /\ Age(r.frame) = 1 => r.frame.session = session
      BY <1>7, <1>10
    <3>3. ASSUME NEW i \in DOMAIN wire'
          PROVE  /\ Age(wire'[i].frame) >= 1
                 /\ Age(wire'[i].frame) + Cardinality(Waiting) <= sends
                 /\ wire'[i].frame.session # 0
                 /\ Age(wire'[i].frame) = 1 => wire'[i].frame.session = session
      BY <2>2, <3>1, <3>2
    <3>4. QED
      BY <1>1, <1>3, <3>3 DEF WireInv, Age
  <2>4. PairInv'
    <3>1. ASSUME NEW i \in DOMAIN wire', NEW j \in DOMAIN wire', i < j
          PROVE  /\ Age(wire'[i].frame) > Age(wire'[j].frame)
                 /\ Age(wire'[i].frame) = Age(wire'[j].frame) + 1 =>
                      wire'[i].frame.session # wire'[j].frame.session
      <4>1. i \in DOMAIN wire
        BY <2>2, <3>1
      <4>2. CASE j \in DOMAIN wire
        BY <2>2, <3>1, <4>1, <4>2 DEF OrderInv, PairInv
      <4>3. CASE j = k
        BY <1>7, <1>10, <2>2, <4>1, <4>3
      <4>4. QED
        BY <2>2, <4>2, <4>3
    <3>2. QED
      BY <1>1, <3>1 DEF PairInv, Age
  <2>5. QED
    BY <1>8, <2>3, <2>4 DEF OrderInv
<1>11. QED
  BY <1>5, <1>9, <1>10

(* Every step keeps the frames in order. *)
LEMMA OrderStep ==
  ASSUME ShapeInv, HoldsLock, OrderInv, [Next]_vars
  PROVE  OrderInv'
<1> USE DEF CallsKept
<1>1. CASE CallsKept
  <2>1. Waiting' = Waiting
    BY <1>1 DEF Waiting
  <2>2. WaitInv' /\ WireInv'
    BY <1>1, <2>1 DEF OrderInv, WaitInv, WireInv, Age
  <2>3. PairInv'
    BY <1>1 DEF OrderInv, PairInv, Age
  <2>4. HandInv'
    BY <1>1, <2>1 DEF OrderInv, HandInv, Age
  <2>5. QED
    BY <2>2, <2>3, <2>4 DEF OrderInv
<1>2. QED
  BY <1>1, CallSteps, OrderBegins, OrderGoesOn, OrderBuilds, OrderSends

-----------------------------------------------------------------------------
(* Connections *)

(* Steps that make no connection and send nothing. *)
LEMMA CutKept ==
  ASSUME CutInv, UNCHANGED <<conn, wire>>, tcp' = tcp \/ tcp' = NoSensor
  PROVE  CutInv'
BY DEF CutInv

(* A new connection is none that a frame was sent on. *)
LEMMA CutConnects ==
  ASSUME ShapeInv, CutInv, NEW t \in Threads, Connects(t)
  PROVE  CutInv'
<1> USE DEF sockets, history
<1>1. wire' = wire
  BY DEF Connects
<1>2. \/ UNCHANGED <<tcp, conn>>
      \/ conn' = conn + 1
  BY DEF Connects
<1>3. conn \in Nat
  BY DEF ShapeInv, TypeOK, CountTypes
<1>4. \A i \in DOMAIN wire : wire[i].conn \in Nat
  BY FramesHaveCounters DEF Sent
<1>5. CASE UNCHANGED <<tcp, conn>>
  BY <1>1, <1>5 DEF CutInv
<1>6. CASE conn' = conn + 1
  BY <1>1, <1>3, <1>4, <1>6 DEF CutInv
<1>7. QED
  BY <1>2, <1>5, <1>6

(* What a call leaves on the wire, and the connection it leaves. *)
LEMMA CutSends ==
  ASSUME ShapeInv, CutInv, NEW t \in Threads, SendEnds(t)
  PROVE  CutInv'
<1> USE DEF sockets
<1>1. /\ conn' = conn
      /\ tcp' = tcp \/ tcp' = NoSensor
  BY DEF SendEnds, SendOk, UdpSendFails, TcpSendFails, SendReturns
<1>2. \/ wire' = wire
      \/ OnTheWire(t, TRUE) /\ SocketOf(t) # NoSensor
      \/ /\ OnTheWire(t, FALSE) /\ via[t] = "tcp"
         /\ tcp # NoSensor /\ tcp' = NoSensor
  BY DEF SendEnds, SendOk, UdpSendFails, TcpSendFails
<1>3. CASE wire' = wire
  BY <1>1, <1>3, CutKept
<1>4. ASSUME NEW whole \in BOOLEAN, OnTheWire(t, whole),
             via[t] = "tcp" => tcp # NoSensor,
             ~whole => via[t] = "tcp" /\ tcp' = NoSensor
      PROVE  CutInv'
  <2>1. PICK f : f = frame[t]
    OBVIOUS
  <2>2. PICK c : c = IF via[t] = "tcp" THEN conn ELSE 0
    OBVIOUS
  <2>3. f \in Frames /\ c \in Nat /\ conn \in Nat
    BY <2>1, <2>2 DEF ShapeInv, TypeOK, CallTypes, CountTypes
  <2>4. PICK r \in Sent : r = [frame |-> f, whole |-> whole, conn |-> c]
    BY <2>3 DEF Sent
  <2>5. wire' = Append(wire, r)
    BY <1>4, <2>1, <2>2, <2>4 DEF OnTheWire
  <2>6. wire \in Seq(Sent)
    BY DEF ShapeInv, TypeOK, CallTypes
  <2>7. PICK k \in Nat :
          /\ DOMAIN wire' = DOMAIN wire \cup {k}
          /\ \A i \in DOMAIN wire : i \in Nat /\ i < k /\ wire'[i] = wire[i]
          /\ wire'[k] = r
    BY <2>5, <2>6, OneMore
  <2>8. r.conn = c /\ r.whole = whole
    BY <2>4
  <2>9. \A i \in DOMAIN wire : wire[i].conn \in Nat
    BY FramesHaveCounters DEF Sent
  <2>10. c <= conn /\ (~whole => c > 0)
    BY <1>4, <2>2, <2>3 DEF CutInv
  <2>11. ASSUME NEW i \in DOMAIN wire, ~wire[i].whole
         PROVE  wire[i].conn # c
    <3>1. wire[i].conn > 0 /\ (wire[i].conn < conn \/ tcp = NoSensor)
      BY <2>11 DEF CutInv
    <3>2. QED
      BY <1>4, <2>2, <2>3, <2>9, <3>1
  <2>12. tcp' # NoSensor => conn' > 0
    BY <1>1 DEF CutInv
  <2>13. ASSUME NEW i \in DOMAIN wire'
         PROVE  /\ wire'[i].conn <= conn'
                /\ ~wire'[i].whole =>
                     /\ wire'[i].conn > 0
                     /\ wire'[i].conn < conn' \/ tcp' = NoSensor
    <3>1. CASE i \in DOMAIN wire
      BY <1>1, <2>7, <3>1 DEF CutInv
    <3>2. CASE i = k
      BY <1>1, <1>4, <2>7, <2>8, <2>10, <3>2
    <3>3. QED
      BY <2>7, <3>1, <3>2
  <2>14. ASSUME NEW i \in DOMAIN wire', NEW j \in DOMAIN wire',
                i < j, ~wire'[i].whole
         PROVE  wire'[i].conn # wire'[j].conn
    <3>1. i \in DOMAIN wire
      BY <2>7, <2>14
    <3>2. CASE j \in DOMAIN wire
      BY <2>7, <2>14, <3>1, <3>2 DEF CutInv
    <3>3. CASE j = k
      BY <2>7, <2>8, <2>11, <2>14, <3>1, <3>3
    <3>4. QED
      BY <2>7, <3>2, <3>3
  <2>15. QED
    BY <2>12, <2>13, <2>14 DEF CutInv
<1>5. QED
  BY <1>2, <1>3, <1>4 DEF SocketOf

(* Every step keeps the connections apart. *)
LEMMA CutStep ==
  ASSUME ShapeInv, CutInv, [Next]_vars
  PROVE  CutInv'
<1> USE DEF sdk, cfg, recon, sockets, calls, sensor, known, history
<1>1. ASSUME NEW t \in Threads, SendBegins(t)
      PROVE  CutInv'
  BY <1>1, CutKept DEF SendBegins
<1>2. ASSUME NEW t \in Threads, Choose(t)
      PROVE  CutInv'
  BY <1>2, CutKept DEF Choose
<1>3. ASSUME NEW t \in Threads, CannotConnect(t)
      PROVE  CutInv'
  BY <1>3, CutKept DEF CannotConnect
<1>4. CASE InitStep \/ StopBegins \/ CloseStep
  BY <1>4, CutKept
     DEF InitStep, InitConnects, InitConnected, InitEnds, StopBegins,
         CloseStep, CloseUdp, CloseTcp, CloseConfig
<1>5. CASE ConfigCall \/ StreamFrame
  BY <1>5, CutKept DEF ConfigCall, StreamFrame
<1>6. CASE ReconnectBegins \/ ReconnectStep \/ DeadlinePasses
  BY <1>6, CutKept
     DEF ReconnectBegins, ReconnectStep, ReconnectTries,
         ReconnectSucceeds, ReconnectFails, ReconnectWakes, DeadlinePasses
<1>7. ASSUME NEW ip \in Sensors, NEW csii \in Forced, InitBegins(ip, csii)
      PROVE  CutInv'
  BY <1>7, CutKept DEF InitBegins
<1>8. ASSUME NEW s \in Sensors, NEW gen \in Generations, Reboot(s, gen)
      PROVE  CutInv'
  BY <1>8, CutKept DEF Reboot
<1>9. CASE UNCHANGED vars
  BY <1>9, CutKept DEF vars
<1>10. QED
  BY <1>1, <1>2, <1>3, <1>4, <1>5, <1>6, <1>7, <1>8, <1>9, CutConnects, CutSends
     DEF Next, SendStep, SendEnds

-----------------------------------------------------------------------------
(* What Stop closes *)

(* While another thread is or has been in a call, only client is claimed. *)
LEMMA LateCall ==
  ASSUME late', (app = "idle" /\ state # "ready" => ~client)'
  PROVE  CloseInv'
BY DEF CloseInv, StopCloses

(* A step of a call of another thread is one that Stop did not wait for. *)
LEMMA BusyStep ==
  ASSUME CloseInv, OthersBusy, UNCHANGED <<sdk, late>>
  PROVE  CloseInv'
BY LateCall DEF CloseInv, sdk

(* Steps that touch nothing of this. *)
LEMMA CloseKept ==
  ASSUME CloseInv,
         UNCHANGED <<app, state, client, late, rec, pc, tcp, udp, cfgPeer,
                     reconnect>>
  PROVE  CloseInv'
BY DEF CloseInv, StopCloses, OthersBusy

(* Every step leaves closed what Stop has closed, unless it is late. *)
LEMMA CloseInvStep ==
  ASSUME ShapeInv, CloseInv, [Next]_vars
  PROVE  CloseInv'
<1> USE DEF sdk, cfg, recon, sockets, calls, sensor, known, history
<1>1. ASSUME NEW ip \in Sensors, NEW csii \in Forced, InitBegins(ip, csii)
      PROVE  CloseInv'
  BY <1>1 DEF InitBegins, CloseInv, StopCloses, OthersBusy
<1>2. CASE InitStep
  BY <1>2 DEF InitStep, InitConnects, InitConnected, InitEnds, CloseInv,
       StopCloses, OthersBusy
<1>3. CASE StopBegins
  BY <1>3 DEF StopBegins, CloseInv, StopCloses, OthersBusy
<1>4. CASE CloseUdp
  BY <1>4 DEF CloseUdp, CloseInv, StopCloses, OthersBusy
<1>5. CASE CloseTcp
  BY <1>5 DEF CloseTcp, CloseInv, StopCloses, OthersBusy
<1>6. CASE CloseConfig
  BY <1>6 DEF CloseConfig, CloseInv, StopCloses, OthersBusy
<1>7. CASE ConfigCall
  <2>1. app = "idle" /\ client /\ UNCHANGED <<sdk, late, rec, pc>>
    BY <1>7 DEF ConfigCall
  <2>2. state = "ready"
    BY <2>1 DEF CloseInv
  <2>3. QED
    BY <2>1, <2>2 DEF CloseInv, StopCloses, OthersBusy
<1>8. CASE StreamFrame
  BY <1>8, CloseKept DEF StreamFrame
<1>9. CASE ReconnectBegins
  BY <1>9, LateCall DEF ReconnectBegins, CloseInv
<1>10. CASE ReconnectStep
  BY <1>10, BusyStep
     DEF ReconnectStep, ReconnectTries, ReconnectSucceeds, ReconnectFails,
         ReconnectWakes, OthersBusy
<1>11. CASE DeadlinePasses
  BY <1>11, BusyStep DEF DeadlinePasses, OthersBusy
<1>12. ASSUME NEW t \in Threads, SendBegins(t)
       PROVE  CloseInv'
  BY <1>12, LateCall DEF SendBegins, CloseInv
<1>13. ASSUME NEW t \in Threads, SendStep(t)
       PROVE  CloseInv'
  <2>1. pc[t] # "idle" /\ UNCHANGED <<sdk, late>>
    BY <1>13 DEF SendStep, Choose, Connects, CannotConnect, SendOk,
         UdpSendFails, TcpSendFails, SendReturns
  <2>2. QED
    BY <2>1, BusyStep DEF OthersBusy
<1>14. ASSUME NEW s \in Sensors, NEW gen \in Generations, Reboot(s, gen)
       PROVE  CloseInv'
  BY <1>14, CloseKept DEF Reboot
<1>15. CASE UNCHANGED vars
  BY <1>15, CloseKept DEF vars
<1>16. QED
  BY <1>1, <1>2, <1>3, <1>4, <1>5, <1>6, <1>7, <1>8, <1>9, <1>10, <1>11,
     <1>12, <1>13, <1>14, <1>15 DEF Next, CloseStep

-----------------------------------------------------------------------------
(* The generation the SDK believes *)

(* The sensor has a generation. *)
LEMMA TargetHasGeneration ==
  ASSUME ShapeInv
  PROVE  Target \in Sensors /\ fw[Target] \in Generations
                            /\ fw[Target] # "unknown"
<1>1. Target \in Sensors
  BY DEF ShapeInv, TypeOK, PlaceTypes, Target
<1>2. QED
  BY <1>1 DEF ShapeInv, TypeOK, PeerTypes, Generations

(* Steps that touch nothing of this. *)
LEMMA GenerationKept ==
  ASSUME GenerationInv,
         UNCHANGED <<config, fw, probed, streamGeneration, freshProbe,
                     freshFrame, sure, pc, via>>
  PROVE  GenerationInv'
BY DEF GenerationInv, Generation, Target

(* Steps that put what was known in doubt. *)
LEMMA InDoubt ==
  ASSUME GenerationInv, freshProbe' = FALSE, sure' = NoCall,
         \/ freshFrame' = FALSE
         \/ UNCHANGED <<config, fw, streamGeneration, freshFrame>>
  PROVE  GenerationInv'
<1>1. \A t \in Threads : ~sure'[t]
  BY DEF NoCall
<1>2. (freshFrame => streamGeneration = fw[Target])'
  BY DEF GenerationInv, Target
<1>3. QED
  BY <1>1, <1>2 DEF GenerationInv

(* A probe tells the generation of the firmware that runs now. *)
LEMMA ProbeTells ==
  ASSUME ShapeInv, GenerationInv, Probe,
         UNCHANGED <<config, fw, streamGeneration, freshFrame, pc, via>>
  PROVE  GenerationInv'
<1>1. Target' = Target /\ fw[Target] # "unknown"
  BY TargetHasGeneration DEF Target
<1>2. CASE cfgIp = Target
  <2>1. probed' = fw[Target] /\ sure' = sure
    BY <1>2 DEF Probe
  <2>2. Generation' = fw[Target]
    BY <1>1, <2>1 DEF Generation
  <2>3. QED
    BY <1>1, <2>1, <2>2 DEF GenerationInv
<1>3. CASE cfgIp # Target
  <2>1. freshProbe' = FALSE /\ sure' = NoCall
    BY <1>3 DEF Probe
  <2>2. QED
    BY <2>1, InDoubt
<1>4. QED
  BY <1>2, <1>3

(* What the SDK was told of the sensor's firmware is so after every step. *)
LEMMA GenerationStep ==
  ASSUME ShapeInv, GenerationInv, [Next]_vars
  PROVE  GenerationInv'
<1> USE DEF sdk, cfg, recon, sockets, calls, sensor, known, history
<1>0. /\ pc \in [Threads -> {"idle", "lock", "connect", "send"}]
      /\ via \in [Threads -> {"tcp", "udp"}]
      /\ sure \in [Threads -> BOOLEAN]
  BY DEF ShapeInv, TypeOK, PlaceTypes, CallTypes
<1>1. ASSUME NEW ip \in Sensors, NEW csii \in Forced, InitBegins(ip, csii)
      PROVE  GenerationInv'
  BY <1>1, InDoubt DEF InitBegins
<1>2. CASE InitConnects
  BY <1>2, InDoubt DEF InitConnects, ConnectBegins
<1>3. CASE InitConnected
  BY <1>3, ProbeTells, GenerationKept
     DEF InitConnected, ConnectSucceeds, ConnectFails
<1>4. CASE InitEnds \/ StopBegins \/ CloseStep
  BY <1>4, GenerationKept
     DEF InitEnds, StopBegins, CloseStep, CloseUdp, CloseTcp, CloseConfig
<1>5. CASE ConfigCall
  BY <1>5, ProbeTells, GenerationKept DEF ConfigCall
<1>6. CASE StreamFrame
  <2>1. /\ Target' = Target /\ streamGeneration' = fw[Target] /\ fw' = fw
        /\ UNCHANGED <<config, probed, freshProbe, sure, pc, via>>
    BY <1>6 DEF StreamFrame, Target
  <2>2. Generation = fw[Target] => Generation' = fw[Target]
    BY <2>1 DEF Generation
  <2>3. QED
    BY <2>1, <2>2 DEF GenerationInv
<1>7. CASE ReconnectTries
  BY <1>7, InDoubt DEF ReconnectTries, ConnectBegins
<1>8. CASE ReconnectSucceeds
  BY <1>8, ProbeTells DEF ReconnectSucceeds, ConnectSucceeds
<1>9. CASE ReconnectBegins \/ ReconnectFails \/ ReconnectWakes \/ DeadlinePasses
  BY <1>9, GenerationKept
     DEF ReconnectBegins, ReconnectFails, ConnectFails, ReconnectWakes,
         DeadlinePasses
<1>10. ASSUME NEW t \in Threads, SendBegins(t)
       PROVE  GenerationInv'
  <2>1. /\ UNCHANGED <<config, fw, probed, streamGeneration, freshProbe,
                       freshFrame, via>>
        /\ Target' = Target /\ Generation' = Generation
        /\ pc' = [pc EXCEPT ![t] = "lock"] /\ sure' = [sure EXCEPT ![t] = Told]
    BY <1>10 DEF SendBegins, Target, Generation
  <2>2. Told => Generation = fw[Target]
    BY TargetHasGeneration DEF Told, Generation, GenerationInv
  <2>3. ASSUME NEW u \in Threads, u # t
        PROVE  sure'[u] = sure[u] /\ pc'[u] = pc[u]
    BY <1>0, <2>1, <2>3
  <2>4. sure'[t] = Told /\ pc'[t] = "lock"
    BY <1>0, <2>1
  <2>5. QED
    BY <2>1, <2>2, <2>3, <2>4 DEF GenerationInv
<1>11. ASSUME NEW t \in Threads, Choose(t)
       PROVE  GenerationInv'
  <2>1. /\ UNCHANGED <<config, fw, probed, streamGeneration, freshProbe,
                       freshFrame, sure>>
        /\ Target' = Target /\ Generation' = Generation
    BY <1>11 DEF Choose, Target, Generation
  <2>2. ASSUME NEW u \in Threads, u # t
        PROVE  via'[u] = via[u] /\ pc'[u] = pc[u]
    BY <1>0, <1>11, <2>2 DEF Choose
  <2>3. via'[t] = IF CsiiUsesTcp THEN "tcp" ELSE "udp"
    BY <1>0, <1>11 DEF Choose
  <2>4. config.csii = "" => (via'[t] = "tcp" <=> Generation = "v1.0")
    BY <2>3 DEF CsiiUsesTcp
  <2>5. QED
    BY <2>1, <2>2, <2>4 DEF GenerationInv
<1>12. ASSUME NEW t \in Threads, Connects(t)
       PROVE  GenerationInv'
  <2>1. /\ UNCHANGED <<config, fw, probed, streamGeneration, freshProbe,
                       freshFrame, sure, via>>
        /\ Target' = Target /\ Generation' = Generation
        /\ pc[t] = "connect" /\ pc' = [pc EXCEPT ![t] = "send"]
    BY <1>12 DEF Connects, Target, Generation
  <2>2. \A u \in Threads : pc'[u] \in {"connect", "send"} =>
                             pc[u] \in {"connect", "send"}
    BY <1>0, <2>1
  <2>3. QED
    BY <2>1, <2>2 DEF GenerationInv
<1>13. ASSUME NEW t \in Threads, CannotConnect(t) \/ SendEnds(t)
       PROVE  GenerationInv'
  <2>1. /\ UNCHANGED <<config, fw, probed, streamGeneration, freshProbe,
                       freshFrame, sure>>
        /\ Target' = Target /\ Generation' = Generation
        /\ pc' = [pc EXCEPT ![t] = "idle"] /\ via' = [via EXCEPT ![t] = "udp"]
    BY <1>13 DEF CannotConnect, SendEnds, SendOk, UdpSendFails, TcpSendFails,
         SendReturns, Target, Generation
  <2>2. \A u \in Threads : pc'[u] \in {"connect", "send"} =>
                             pc'[u] = pc[u] /\ via'[u] = via[u]
    BY <1>0, <2>1
  <2>3. QED
    BY <2>1, <2>2 DEF GenerationInv
<1>14. ASSUME NEW s \in Sensors, NEW gen \in Generations, Reboot(s, gen)
       PROVE  GenerationInv'
  BY <1>14, InDoubt DEF Reboot
<1>15. CASE UNCHANGED vars
  BY <1>15, GenerationKept DEF vars
<1>16. QED
  BY <1>1, <1>2, <1>3, <1>4, <1>5, <1>6, <1>7, <1>8, <1>9, <1>10, <1>11,
     <1>12, <1>13, <1>14, <1>15
     DEF Next, InitStep, ReconnectStep, SendStep, SendEnds

-----------------------------------------------------------------------------
(* The invariant *)

(* The counters start wherever a long run has left them. *)
LEMMA FirstCounters ==
  ASSUME NEW n \in Nat
  PROVE  /\ n % CounterMod \in 0..CounterMod - 1
         /\ n # 0 => ((n - 1) % (SessionMod - 1)) + 1 \in 0..SessionMod - 1
<1>1. n % CounterMod \in 0..CounterMod - 1
  BY Widths
<1>2. ASSUME n # 0
      PROVE  ((n - 1) % (SessionMod - 1)) + 1 \in 0..SessionMod - 1
  <2>1. PICK k, m : k = n - 1 /\ m = SessionMod - 1
    OBVIOUS
  <2>2. k \in Nat /\ m \in Nat /\ m > 0
    BY <1>2, <2>1, Widths
  <2>3. k % m \in 0..m - 1
    BY <2>2
  <2>4. QED
    BY <2>1, <2>2, <2>3, Widths
<1>3. QED
  BY <1>1, <1>2

(* The invariant holds at first. *)
LEMMA CsiiInit ==
  ASSUME Init
  PROVE  CsiiInv
<1>0. /\ wire = <<>> /\ DOMAIN wire = {} /\ sends = 0 /\ tcp = NoSensor
      /\ pc = [t \in Threads |-> "idle"]
  <2>1. /\ wire = <<>> /\ sends = 0 /\ tcp = NoSensor
        /\ pc = [t \in Threads |-> "idle"]
    BY DEF Init
  <2>2. QED
    BY <2>1
<1>1. PlaceTypes
  <2>1. (CHOOSE s \in Sensors : TRUE) \in Sensors
    BY CsiiAssumption
  <2>2. config \in [ip : Sensors, csii : Forced \cup {""}]
    BY <2>1 DEF Init
  <2>3. QED
    BY <2>2 DEF Init, PlaceTypes
<1>2. PeerTypes
  BY DEF Init, PeerTypes
<1>3. FlagTypes
  BY DEF Init, FlagTypes
<1>4. CountTypes
  <2>1. PICK n \in SentBefore :
          /\ counter = n % CounterMod
          /\ session = IF n = 0 THEN 0 ELSE ((n - 1) % (SessionMod - 1)) + 1
    BY DEF Init
  <2>2. n \in Nat
    BY CsiiAssumption
  <2>3. counter \in 0..CounterMod - 1 /\ session \in 0..SessionMod - 1
    BY <2>1, <2>2, FirstCounters, Widths
  <2>4. QED
    BY <2>3 DEF Init, CountTypes
<1>5. CallTypes
  <2>1. NoFrame \in Frames
    BY Widths DEF NoFrame, Frames
  <2>2. frame \in [Threads -> Frames]
    BY <2>1 DEF Init
  <2>3. wire \in Seq(Sent)
    BY <1>0
  <2>4. QED
    BY <2>2, <2>3 DEF Init, CallTypes, NoCall
<1>6. AddressInv
  BY DEF Init, AddressInv
<1>7. HoldsLock
  BY DEF Init, HoldsLock
<1>8. CloseInv
  BY DEF Init, CloseInv, StopCloses, OthersBusy
<1>9. GenerationInv
  BY DEF Init, GenerationInv, NoCall
<1>10. OrderInv
  <2>1. Waiting = {}
    BY DEF Init, Waiting
  <2>2. WaitInv
    BY <1>0, <2>1, FS_EmptySet, Widths DEF WaitInv
  <2>3. WireInv /\ PairInv /\ HandInv
    BY <1>0 DEF WireInv, PairInv, HandInv
  <2>4. QED
    BY <2>2, <2>3 DEF OrderInv
<1>11. CutInv
  BY <1>0 DEF CutInv
<1>12. QED
  BY <1>1, <1>2, <1>3, <1>4, <1>5, <1>6, <1>7, <1>8, <1>9, <1>10, <1>11
     DEF CsiiInv, ShapeInv, TypeOK

(* The inductive invariant of the senders holds in every state. *)
THEOREM CsiiInvariant == Spec => []CsiiInv
<1>1. Init => CsiiInv
  BY CsiiInit
<1>2. CsiiInv /\ [Next]_vars => CsiiInv'
  BY ShapeStep, LockStep, CloseInvStep, GenerationStep, OrderStep, CutStep
     DEF CsiiInv
<1>3. QED
  BY <1>1, <1>2, PTL DEF Spec

-----------------------------------------------------------------------------
(* What follows *)

(* Every variable keeps its type: counters and session ids fit their width. *)
THEOREM CsiiTypeCorrect == Spec => []TypeOK
<1>1. CsiiInv => TypeOK
  BY DEF CsiiInv, ShapeInv
<1>2. QED
  BY <1>1, CsiiInvariant, PTL

(* What Stop or a failed Init has closed stays closed, as long as no other *)
(* thread was in a call when it began, nor has called since.               *)
THEOREM StopLeavesClosed == Spec => []StopCloses
<1>1. CsiiInv => StopCloses
  BY DEF CsiiInv, CloseInv
<1>2. QED
  BY <1>1, CsiiInvariant, PTL

(* A frame of a call before which the sensor's present firmware was probed *)
(* (or its stream frames were seen, with nothing probed so far) goes over  *)
(* the one transport that this firmware accepts.                           *)
THEOREM TransportIsRight == Spec => []RightTransport
<1>1. CsiiInv => RightTransport
  BY DEF CsiiInv, GenerationInv, RightTransport
<1>2. QED
  BY <1>1, CsiiInvariant, PTL

(* The frames on the wire are in the order of their counters, with session *)
(* ids that are not 0 nor repeated at once, and none follows part of a     *)
(* frame on its connection.                                                *)
THEOREM FramesStayInOrder == Spec => []FramesInOrder
<1>1. ASSUME CsiiInv, NEW i \in DOMAIN wire, NEW j \in DOMAIN wire, i < j
      PROVE  LET a == wire[i].frame
                 b == wire[j].frame
                 ahead == (b.counter - a.counter) % CounterMod
             IN  /\ ahead \in 1..MaxSend
                 /\ ahead = 1 => a.session # b.session
                 /\ 0 \notin {a.session, b.session}
                 /\ wire[i].whole \/ wire[i].conn # wire[j].conn
  <2>1. ShapeInv /\ OrderInv /\ CutInv
    BY <1>1 DEF CsiiInv
  <2>2. PICK a, b : a = wire[i].frame /\ b = wire[j].frame
    OBVIOUS
  <2>3. /\ a.counter \in 0..CounterMod - 1 /\ b.counter \in 0..CounterMod - 1
        /\ counter \in 0..CounterMod - 1
    BY <2>1, <2>2, FramesHaveCounters
  <2>4. PICK m \in Nat, n \in Nat : m = Age(a) /\ n = Age(b)
    BY <2>1, <2>2, FramesHaveCounters, Widths
  <2>5. /\ m > n
        /\ m = n + 1 => a.session # b.session
    BY <1>1, <2>1, <2>2, <2>4 DEF OrderInv, PairInv
  <2>6. (b.counter - a.counter) % CounterMod = m - n
    <3>1. PICK x \in 0..CounterMod - 1, y \in 0..CounterMod - 1 :
            x = a.counter /\ y = b.counter
      BY <2>3
    <3>2. m = (counter - x) % CounterMod /\ n = (counter - y) % CounterMod
      BY <2>4, <3>1 DEF Age
    <3>3. (counter - x) % CounterMod > (counter - y) % CounterMod
      BY <2>5, <3>2
    <3>4. (y - x) % CounterMod
            = ((counter - x) % CounterMod) - ((counter - y) % CounterMod)
      BY <2>3, <3>3, AgesApart
    <3>5. (y - x) % CounterMod = m - n
      BY <3>2, <3>4
    <3>6. QED
      BY <3>1, <3>5
  <2>7. /\ m + Cardinality(Waiting) <= sends /\ n >= 1
        /\ 0 \notin {a.session, b.session}
    BY <2>1, <2>2, <2>4 DEF OrderInv, WireInv
  <2>8. Cardinality(Waiting) \in Nat
    BY <2>1, FS_CardinalityType DEF OrderInv, WaitInv
  <2>9. sends \in Nat /\ MaxSend \in Nat /\ sends <= MaxSend
    BY <2>1, Widths DEF OrderInv, WaitInv, ShapeInv, TypeOK, CountTypes
  <2>10. m - n \in 1..MaxSend
    BY <2>5, <2>7, <2>8, <2>9
  <2>11. m - n = 1 => a.session # b.session
    BY <2>5
  <2>12. wire[i].whole \/ wire[i].conn # wire[j].conn
    BY <1>1, <2>1 DEF CutInv
  <2>13. QED
    BY <2>2, <2>6, <2>7, <2>10, <2>11, <2>12
<1>2. CsiiInv => FramesInOrder
  BY <1>1 DEF FramesInOrder
<1>3. QED
  BY <1>2, CsiiInvariant, PTL
=============================================================================
