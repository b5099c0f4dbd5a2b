-------------------------- MODULE AtMostOnceCall ---------------------------
(***************************************************************************)
(* What the Config API promises about a request to the sensor, with no     *)
(* connection, thread or timeout in sight:                                 *)
(*   - the sensor runs it at most once, and nothing is ever re-sent;       *)
(*   - if it was answered, the sensor ran it before the answer;            *)
(*   - if it was refused, the sensor never runs it;                        *)
(*   - if it failed, the caller knows nothing: it may have run, it may     *)
(*     still run later, it may never run.                                  *)
(***************************************************************************)
EXTENDS Naturals

CONSTANT Requests

VARIABLES
  status,   (* what the caller knows about each request                    *)
  ran       (* how often the sensor has run it                             *)

callVars == <<status, ran>>

Init ==
  /\ status = [k \in Requests |-> "unused"]
  /\ ran = [k \in Requests |-> 0]

Start(k) ==
  /\ status[k] = "unused"
  /\ status' = [status EXCEPT ![k] = "pending"]
  /\ UNCHANGED ran

(* A failed request may still be on its way. *)
Run(k) ==
  /\ status[k] \in {"pending", "failed"}
  /\ ran[k] = 0
  /\ ran' = [ran EXCEPT ![k] = 1]
  /\ UNCHANGED status

Answer(k) ==
  /\ status[k] = "pending"
  /\ ran[k] = 1
  /\ status' = [status EXCEPT ![k] = "answered"]
  /\ UNCHANGED ran

GiveUp(k) ==
  /\ status[k] \in {"unused", "pending"}
  /\ status' = [status EXCEPT ![k] = "failed"]
  /\ UNCHANGED ran

Refuse(k) ==
  /\ status[k] = "pending"
  /\ ran[k] = 0
  /\ status' = [status EXCEPT ![k] = "refused"]
  /\ UNCHANGED ran

Next == \E k \in Requests :
          Start(k) \/ Run(k) \/ Answer(k) \/ GiveUp(k) \/ Refuse(k)

Spec == Init /\ [][Next]_callVars
=============================================================================
