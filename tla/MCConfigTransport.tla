------------------------- MODULE MCConfigTransport -------------------------
(***************************************************************************)
(* Small instances of ConfigTransport.  A behaviour is of one of two       *)
(* worlds: several threads and a sensor that is slow, unreachable or       *)
(* restarted but honest, or one thread and a sensor that may send          *)
(* anything.                                                               *)
(***************************************************************************)
EXTENDS ConfigTransport

CONSTANT c1     (* the thread of the world of one thread *)

ASSUME WorldAssumption == c1 \in Callers /\ "fits" \in Sizes

VARIABLE world

MCInit == world \in {"threads", "faults"} /\ Init

HonestBodies == {"good", "badE2e"}

Threads ==
  \/ \E c \in Callers :
       \/ ThreadStep(c)
       \/ BeginRequest(c, ProbeMethod, "fits") \/ Connect(c) \/ Disconnect(c)
  \/ \E n \in Conns, b \in HonestBodies \cup {"legacy"} : SensorAnswers(n, b, TRUE)
  \/ \E n \in Conns, k \in 0..2 : ConnectionLost(n, k)
  \/ SensorReboots

Faults == ThreadStep(c1) \/ Application(c1) \/ Sensor

MCNext ==
  /\ \/ world = "threads" /\ Threads
     \/ world = "faults" /\ Faults
  /\ UNCHANGED world

MCSpec == MCInit /\ [][MCNext]_<<vars, world>> /\ Fairness

(* A sensor that answers correctly is never reported as a protocol error   *)
(* (ErrorFromTransport, kTcpProtocol): however the calls of two threads,   *)
(* the reconnects and the outages mix, the stream of a connection stays    *)
(* aligned with its requests.                                              *)
NoSpuriousProtocolError ==
  world = "threads" => \A k \in Calls : outcome[k] # "protocol"

(* With one thread, GetLastSensorResult() holds the return code and the    *)
(* E2E verdict of one and the same answer.  With two it need not: Exchange *)
(* reads the verdict after it has given up the mutex.                      *)
OneThreadLastResult == world = "faults" => LastResultIsOneAnswer

-----------------------------------------------------------------------------
(* The inductive invariants behind these two. *)

(* A thread that waits for a header finds the header of its own exchange. *)
HeaderInv ==
  \A c \in Callers : At(c, "header") /\ down[socket] # <<>> =>
    /\ Head(down[socket]).kind = "header"
    /\ Head(down[socket]).frame = Expected(c)

(* What an honest sensor sends: only a probe finds a v1.0.x body. *)
HonestPart(part) ==
  /\ part.echo
  /\ part.body \in HonestBodies \cup {"legacy"}
  /\ part.frame.probing \/ part.body # "legacy"

HonestStreams ==
  \A n \in Conns : \A i \in 1..Len(down[n]) : HonestPart(down[n][i])

Spurious    == {"protocol", "unparsable"}
NoneEnding  == \A c \in Callers : cur[c].ret \notin Spurious
NoneEnded   == \A k \in Calls : outcome[k] # "protocol"

HonestInv == world = "threads" => HonestStreams /\ NoneEnding /\ NoneEnded

(* The verdict the one thread is about to store is that of the answer it   *)
(* was given, and the result it stored is of a request that has ended.     *)
OthersIdle == \A c \in Callers \ {c1} : pc[c] = "idle"

VerdictFits ==
  pc[c1] = "finish" /\ IsRequest(c1) /\ cur[c1].ret = "ok" =>
    lastE2eOk = taken[cur[c1].id].e2eOk

ResultFits ==
  lastResult.code = "sensor" =>
    /\ lastResult.call \in Calls
    /\ outcome[lastResult.call] # "none"
    /\ lastResult.e2eOk = taken[lastResult.call].e2eOk

OneThreadInv == world = "faults" => OthersIdle /\ VerdictFits /\ ResultFits

WorldInv == /\ world \in {"threads", "faults"}
            /\ HeaderInv /\ HonestInv /\ OneThreadInv
=============================================================================
