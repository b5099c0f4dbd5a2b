----------------------------- MODULE Discovery -----------------------------
(***************************************************************************)
(* Discovery::Scan: one broadcast, and a window in which every radar that  *)
(* heard it answers twice.  The network loses, repeats, delays and garbles *)
(* answers, and may bring any other traffic as well.                       *)
(*                                                                         *)
(* Scan shares nothing with the rest of the SDK: it has a socket of its    *)
(* own, on a port of its own.                                              *)
(***************************************************************************)
EXTENDS Integers, Sequences, FiniteSets

CONSTANTS
  Radars,     (* the radars of the network                                 *)
  Ip, Serial, (* their addresses and serial numbers                        *)
  Keys,       (* which keys a radar's answer has that tell its generation  *)
  Window,     (* timeout_ms                                                *)
  MaxError    (* bound: errors of recvfrom other than a timeout            *)

NoSerial == "none"    (* the empty string *)

(* Each radar has a serial number, and no other one at its address has it. *)
ASSUME DiscoveryAssumption ==
  /\ \A r \in Radars : Serial[r] # NoSerial
  /\ \A r, s \in Radars :
       Ip[r] = Ip[s] /\ Serial[r] = Serial[s] => r = s
  /\ Keys \in [Radars -> SUBSET {"driver_hash", "m72"}]
  /\ Window \in Nat /\ MaxError \in Nat

VARIABLES
  pc,        (* where Scan is                                              *)
  timer,     (* SO_RCVTIMEO of the socket, 0 for none                      *)
  elapsed,   (* time since the broadcast was sent                          *)
  waited,    (* how long recvfrom has been waiting                         *)
  seen,      (* source address and serial number of the answers listed     *)
  results,   (* the list                                                   *)
  heard,     (* radars the broadcast may yet reach                         *)
  net,       (* answers on their way                                       *)
  errors,    (* errors so far                                              *)
  got        (* history: radars of which an answer was read undamaged      *)

scan == <<pc, timer, seen, results, got>>
vars == <<scan, elapsed, waited, heard, net, errors>>

Kinds == {"unicast", "broadcast"}

(* What may be made of an answer: "good"; "short", not a SOME/IP header;   *)
(* "other", an answer to something else or one without a body; "refused",  *)
(* with a return code; "unparsable", no JSON or a member of a wrong type,  *)
(* found after others have been read; "bare", JSON without any member.     *)
Shapes == {"good", "short", "other", "refused", "unparsable", "bare"}

Init ==
  /\ pc = "start" /\ timer = 0
  /\ elapsed = 0 /\ waited = 0
  /\ seen = {} /\ results = <<>>
  /\ heard = Radars /\ net = {}
  /\ errors = 0
  /\ got = {}

-----------------------------------------------------------------------------
(* ParseResponse *)

Generation(keys) == IF "driver_hash" \in keys THEN "v1.0"
                    ELSE IF keys # {} THEN "v1.1" ELSE "unknown"

(* The record of an answer; an exception leaves none. *)
ParseResponse(r, shape) ==
  CASE shape = "good" -> {[source |-> Ip[r], serial |-> Serial[r],
                           generation |-> Generation(Keys[r]), of |-> {r}]}
    [] shape = "bare" -> {[source |-> Ip[r], serial |-> NoSerial,
                           generation |-> "unknown", of |-> {}]}
    [] OTHER          -> {}

-----------------------------------------------------------------------------
(* Scan *)

Broadcast ==
  /\ pc = "start"
  /\ pc' \in {"loop", "failed"}
  /\ elapsed' = 0
  /\ UNCHANGED <<timer, seen, results, got, waited, heard, net, errors>>

Remaining == Window - elapsed

(* Mutant: the loop goes on in the last millisecond. *)
WindowPassed == Remaining < 0

WindowOver == Remaining <= 0

LoopTop ==
  /\ pc = "loop"
  /\ IF WindowOver
     THEN pc' = "done" /\ UNCHANGED <<timer, waited>>
     ELSE pc' = "recv" /\ timer' = Remaining /\ waited' = 0
  /\ UNCHANGED <<seen, results, got, elapsed, heard, net, errors>>

(* A receive timeout of 0 means that recvfrom waits for ever. *)
RecvTimeout ==
  /\ pc = "recv"
  /\ timer # 0 /\ waited >= timer
  /\ pc' = "done"
  /\ UNCHANGED <<timer, seen, results, got, elapsed, waited, heard, net, errors>>

(* Another error may come of an ICMP message; answers may still arrive. *)
RecvError ==
  /\ pc = "recv" /\ errors < MaxError
  /\ errors' = errors + 1
  /\ pc' = "loop"
  /\ UNCHANGED <<timer, seen, results, got, elapsed, waited, heard, net>>

(* Mutant: radars with the same address are taken for one. *)
ByAddress(e) == <<e.source, NoSerial>>

(* Mutant: the pair of answers is not told by its content. *)
ByPlace(e) == <<e.source, e.serial, Len(results)>>

(* The two answers of a radar have the same key. *)
Key(e) == <<e.source, e.serial>>

(* An answer is read, and listed if it is the first of its key. *)
RecvAnswer(r, k, shape) ==
  /\ pc = "recv" /\ <<r, k>> \in net
  /\ pc' = "loop"
  /\ LET new == {e \in ParseResponse(r, shape) : Key(e) \notin seen}
     IN  /\ seen' = seen \cup {Key(e) : e \in new}
         /\ results' = IF new = {} THEN results
                       ELSE Append(results, CHOOSE e \in new : TRUE)
  /\ got' = IF shape = "good" THEN got \cup {r} ELSE got
  /\ net' \in {net, net \ {<<r, k>>}}
  /\ UNCHANGED <<timer, elapsed, waited, heard, errors>>

(* Other traffic, as much of it as there may be. *)
RecvOther ==
  /\ pc = "recv"
  /\ pc' = "loop"
  /\ UNCHANGED <<timer, seen, results, got, elapsed, waited, heard, net, errors>>

-----------------------------------------------------------------------------
(* The radars, the network and time *)

(* A radar hears the broadcast and answers; either answer may be lost.     *)
Answer(r, kept) ==
  /\ pc \in {"loop", "recv"} /\ r \in heard
  /\ heard' = heard \ {r}
  /\ net' = net \cup {<<r, k>> : k \in kept}
  /\ UNCHANGED <<scan, elapsed, waited, errors>>

Tick ==
  /\ pc \in {"loop", "recv"}
  /\ elapsed <= Window
  /\ elapsed' = elapsed + 1
  /\ waited' = IF pc = "recv" THEN waited + 1 ELSE waited
  /\ UNCHANGED <<scan, heard, net, errors>>

Next ==
  \/ Broadcast \/ LoopTop
  \/ RecvTimeout \/ RecvError \/ RecvOther
  \/ \E r \in Radars, k \in Kinds, shape \in Shapes : RecvAnswer(r, k, shape)
  \/ \E r \in Radars, kept \in SUBSET Kinds : Answer(r, kept)
  \/ Tick

(* Time passes, the thread runs, and the kernel ends a receive whose time  *)
(* is over.                                                                *)
Fairness == WF_vars(Broadcast) /\ WF_vars(LoopTop) /\ WF_vars(RecvTimeout)
              /\ WF_vars(Tick)

Spec == Init /\ [][Next]_vars /\ Fairness

-----------------------------------------------------------------------------
(* Properties *)

TypeOK ==
  /\ pc \in {"start", "loop", "recv", "done", "failed"}
  /\ timer \in 0..Window /\ elapsed \in 0..Window + 1
  /\ waited \in 0..Window + 1 /\ errors \in 0..MaxError
  /\ heard \subseteq Radars /\ net \subseteq Radars \X Kinds
  /\ got \subseteq Radars
  /\ \A i \in DOMAIN results : results[i].of \subseteq Radars

(* No radar is listed twice, however often its answers are repeated, and   *)
(* an entry never mixes the members of two answers.                        *)
ListedOnce ==
  /\ \A i, j \in DOMAIN results :
       results[i].source = results[j].source /\ results[i].serial = results[j].serial
         => i = j
  /\ \A i \in DOMAIN results : \A r \in results[i].of :
       results[i].source = Ip[r] /\ results[i].serial = Serial[r]

(* Scan listens until its window is over, and lists every radar of which   *)
(* it has read one good answer, though another radar may have the same     *)
(* address and the answer read before it was damaged.                      *)
AnsweredIsListed ==
  /\ pc = "done" => elapsed >= Window
  /\ \A r \in got : \E i \in DOMAIN results : r \in results[i].of

(* Scan returns, even if datagrams keep coming, or none does.              *)
ScanEnds == <>(pc \in {"done", "failed"})

-----------------------------------------------------------------------------
(* The inductive invariant of the proofs *)

Records == UNION {ParseResponse(r, shape) : r \in Radars, shape \in Shapes}

(* The list has what was made of answers, and `seen` has its keys. *)
ListInv == /\ results \in Seq(Records)
           /\ seen = {Key(results[i]) : i \in DOMAIN results}

(* A receive ends no sooner than the window: its timeout was what remained *)
(* of it, and was not 0.                                                   *)
WaitInv == pc = "recv" => timer > 0 /\ timer + elapsed = Window + waited

ScanInv == TypeOK /\ ListInv /\ WaitInv /\ ListedOnce /\ AnsweredIsListed
=============================================================================
