----------------------------- MODULE Reassembly -----------------------------
(***************************************************************************)
(* What a reassembler of segmented messages promises, with no buffer and   *)
(* no range list: it holds bytes of one session only, every byte it holds  *)
(* arrived since it last gave up, and a payload comes out exactly when all *)
(* its bytes are there.                                                    *)
(***************************************************************************)
EXTENDS Integers

CONSTANTS
  MaxPayload,   (* longest payload                                         *)
  Sessions,     (* session ids                                             *)
  Origins       (* what a byte may be                                      *)

VARIABLES
  session,      (* the session the bytes belong to, 0 = none               *)
  held,         (* the bytes received, by position                         *)
  size,         (* the length of the payload, 0 = not known yet            *)
  finished      (* a payload has come out                                  *)

assembly == <<session, held, size, finished>>

Nothing == [p \in {} |-> 0]

Init ==
  /\ session = 0
  /\ held = Nothing
  /\ size = 0
  /\ finished = FALSE

(* A segment of session s is put with the bytes of its session; it may end *)
(* the payload.                                                            *)
Put(s, from, to, byte, last) ==
  LET same  == session = s /\ ~finished
      bytes == [p \in (IF same THEN DOMAIN held ELSE {}) \cup from..to - 1 |->
                  IF p \in from..to - 1 THEN byte ELSE held[p]]
  IN  /\ session' = s
      /\ held' = bytes
      /\ size' = IF last THEN to ELSE IF same THEN size ELSE 0
      /\ same /\ size # 0 => size' = size
      /\ size' # 0 => \A p \in DOMAIN bytes : p < size'
      /\ finished' = (size' # 0 /\ DOMAIN bytes = 0..size' - 1)

GiveUp ==
  /\ session' = 0
  /\ held' = Nothing
  /\ size' = 0
  /\ finished' = FALSE

Next ==
  \/ \E s \in Sessions, from \in 0..MaxPayload, to \in 0..MaxPayload,
        byte \in Origins, last \in BOOLEAN :
       from < to /\ Put(s, from, to, byte, last)
  \/ GiveUp

Spec == Init /\ [][Next]_assembly
=============================================================================
