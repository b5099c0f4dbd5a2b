--------------------------- MODULE DiscoveryProofs ---------------------------
(***************************************************************************)
(* Proofs about Discovery, for every number of radars, every address,      *)
(* every length of the window and every number of errors.                  *)
(***************************************************************************)
EXTENDS Discovery, TLAPS

(* What a record is made of: a good answer of a radar, or nothing.         *)
LEMMA RecordDef ==
  ASSUME NEW e \in Records
  PROVE  \/ e.of = {} /\ e.serial = NoSerial
         \/ \E r \in Radars : /\ e.of = {r}
                              /\ e.source = Ip[r] /\ e.serial = Serial[r]
<1>1. PICK r \in Radars, shape \in Shapes : e \in ParseResponse(r, shape)
  BY DEF Records
<1>2. QED
  BY <1>1 DEF ParseResponse, Shapes

(* An answer leaves one record at most, a good one the radar's own. *)
LEMMA ParseDef ==
  ASSUME NEW r \in Radars, NEW shape \in Shapes
  PROVE  /\ ParseResponse(r, shape) \subseteq Records
         /\ shape = "good" =>
              \E e : /\ ParseResponse(r, shape) = {e} /\ e.of = {r}
                     /\ e.source = Ip[r] /\ e.serial = Serial[r]
<1>1. ParseResponse(r, shape) \subseteq Records
  BY DEF Records
<1>2. ASSUME shape = "good"
      PROVE  \E e : /\ ParseResponse(r, shape) = {e} /\ e.of = {r}
                    /\ e.source = Ip[r] /\ e.serial = Serial[r]
  <2> DEFINE e == [source |-> Ip[r], serial |-> Serial[r],
                   generation |-> Generation(Keys[r]), of |-> {r}]
  <2>1. ParseResponse(r, shape) = {e}
    BY <1>2 DEF ParseResponse
  <2>2. e.of = {r} /\ e.source = Ip[r] /\ e.serial = Serial[r]
    OBVIOUS
  <2> HIDE DEF e
  <2>3. QED
    BY <2>1, <2>2
<1>3. QED
  BY <1>1, <1>2

(* A record that is put at the end leaves those before it. *)
LEMMA AppendDef ==
  ASSUME NEW S, NEW s \in Seq(S), NEW e \in S
  PROVE  /\ Append(s, e) \in Seq(S)
         /\ DOMAIN Append(s, e) = DOMAIN s \cup {Len(s) + 1}
         /\ Len(s) + 1 \notin DOMAIN s
         /\ \A i \in DOMAIN s : Append(s, e)[i] = s[i]
         /\ Append(s, e)[Len(s) + 1] = e
<1>1. /\ Append(s, e) \in Seq(S) /\ Len(Append(s, e)) = Len(s) + 1
      /\ \A i \in 1..Len(s) : Append(s, e)[i] = s[i]
      /\ Append(s, e)[Len(s) + 1] = e
  OBVIOUS
<1>2. Len(s) \in Nat /\ DOMAIN s = 1..Len(s)
  OBVIOUS
<1>3. DOMAIN Append(s, e) = 1..(Len(s) + 1)
  BY <1>1
<1>4. QED
  BY <1>1, <1>2, <1>3

-----------------------------------------------------------------------------
(* The list *)

(* What the list says, as far as the answers read go. *)
ListOK == ListInv /\ ListedOnce /\ \A r \in got : \E i \in DOMAIN results : r \in results[i].of

(* A list of records has in it what each record says of its radar. *)
LEMMA RecordsAreOfRadars ==
  ASSUME ListInv
  PROVE  \A i \in DOMAIN results :
           /\ results[i] \in Records /\ results[i].of \subseteq Radars
           /\ \A r \in results[i].of :
                results[i].source = Ip[r] /\ results[i].serial = Serial[r]
<1> TAKE i \in DOMAIN results
<1>1. results[i] \in Records
  BY DEF ListInv
<1>2. QED
  BY <1>1, RecordDef

(* A radar whose answer was read before has its entry: none but its own    *)
(* good answer has its address and its serial number.                      *)
LEMMA SeenIsListed ==
  ASSUME ListInv, NEW r \in Radars, <<Ip[r], Serial[r]>> \in seen
  PROVE  \E i \in DOMAIN results : r \in results[i].of
<1>1. PICK i \in DOMAIN results :
        results[i].source = Ip[r] /\ results[i].serial = Serial[r]
  BY DEF ListInv, Key
<1>2. results[i] \in Records
  BY DEF ListInv
<1>3. results[i].serial # NoSerial
  BY <1>1, DiscoveryAssumption
<1>4. PICK q \in Radars : /\ results[i].of = {q}
                          /\ results[i].source = Ip[q] /\ results[i].serial = Serial[q]
  BY <1>2, <1>3, RecordDef
<1>5. q = r
  BY <1>1, <1>4, DiscoveryAssumption
<1>6. QED
  BY <1>4, <1>5

(* An answer that is read keeps the list as it should be. *)
LEMMA AnswerListed ==
  ASSUME ListOK, got \subseteq Radars, NEW r \in Radars, NEW k \in Kinds,
         NEW shape \in Shapes, RecvAnswer(r, k, shape)
  PROVE  ListOK'
<1> DEFINE new == {e \in ParseResponse(r, shape) : Key(e) \notin seen}
<1>1. /\ seen' = seen \cup {Key(e) : e \in new}
      /\ results' = IF new = {} THEN results
                    ELSE Append(results, CHOOSE e \in new : TRUE)
      /\ got' = IF shape = "good" THEN got \cup {r} ELSE got
  BY DEF RecvAnswer
<1>2. ListInv /\ ListedOnce
  BY DEF ListOK
<1>3. CASE new = {}
  <2>1. results' = results /\ seen' = seen
    BY <1>1, <1>3
  <2>2. ASSUME shape = "good" PROVE \E i \in DOMAIN results : r \in results[i].of
    <3>1. PICK e : /\ ParseResponse(r, shape) = {e}
                   /\ e.source = Ip[r] /\ e.serial = Serial[r]
      BY <2>2, ParseDef
    <3>2. Key(e) \in seen
      BY <1>3, <3>1
    <3>3. QED
      BY <1>2, <3>1, <3>2, SeenIsListed DEF Key
  <2>3. QED
    BY <1>1, <2>1, <2>2 DEF ListOK, ListInv, ListedOnce
<1>4. CASE new # {}
  <2>1. PICK e : e \in new /\ results' = Append(results, e) /\ new = {e}
    <3>1. PICK e : ParseResponse(r, shape) \subseteq {e}
      BY DEF ParseResponse
    <3>2. new = {e}
      BY <1>4, <3>1
    <3>3. (CHOOSE d \in new : TRUE) \in new
      BY <3>2
    <3>4. QED
      BY <1>1, <1>4, <3>2, <3>3
  <2>2. e \in Records /\ Key(e) \notin seen /\ e \in ParseResponse(r, shape)
    BY <2>1, ParseDef
  <2>3. seen' = seen \cup {Key(e)}
    BY <1>1, <2>1
  <2> HIDE DEF new
  <2> DEFINE n == Len(results) + 1
  <2>4. /\ results' \in Seq(Records)
        /\ DOMAIN results' = DOMAIN results \cup {n} /\ n \notin DOMAIN results
        /\ \A i \in DOMAIN results : results'[i] = results[i]
        /\ results'[n] = e
    BY <1>2, <2>1, <2>2, AppendDef DEF ListInv
  <2> HIDE DEF n
  <2>5. seen = {Key(results[i]) : i \in DOMAIN results}
    BY <1>2 DEF ListInv
  <2>6. ListInv'
    <3>1. seen' = {Key(results'[i]) : i \in DOMAIN results'}
      BY <2>3, <2>4, <2>5
    <3>2. QED
      BY <2>4, <3>1 DEF ListInv, Key
  <2>7. \A i \in DOMAIN results :
          ~(results[i].source = e.source /\ results[i].serial = e.serial)
    BY <2>2, <2>5 DEF Key
  <2>8. \A i, j \in DOMAIN results' :
          results'[i].source = results'[j].source
            /\ results'[i].serial = results'[j].serial => i = j
    BY <1>2, <2>4, <2>7 DEF ListedOnce
  <2>9. \A i \in DOMAIN results' : \A q \in results'[i].of :
          results'[i].source = Ip[q] /\ results'[i].serial = Serial[q]
    BY <1>2, <2>2, <2>4, RecordDef DEF ListedOnce
  <2>10. ListedOnce'
    BY <2>8, <2>9 DEF ListedOnce
  <2>11. \A q \in got' : \E i \in DOMAIN results' : q \in results'[i].of
    <3>1. \A q \in got : \E i \in DOMAIN results : q \in results[i].of
      BY DEF ListOK
    <3>2. shape = "good" => r \in e.of
      BY <2>2, ParseDef
    <3>3. QED
      BY <1>1, <2>4, <3>1, <3>2
  <2>12. QED
    BY <2>6, <2>10, <2>11 DEF ListOK
<1>5. QED
  BY <1>3, <1>4

-----------------------------------------------------------------------------
(* The invariant *)

(* Scan begins with an empty list and without a timeout. *)
LEMMA InitInv == Init => ScanInv
<1> SUFFICES ASSUME Init PROVE ScanInv
  OBVIOUS
<1>1. /\ results = <<>> /\ seen = {} /\ got = {} /\ pc = "start"
      /\ timer = 0 /\ elapsed = 0 /\ waited = 0 /\ errors = 0
      /\ heard = Radars /\ net = {}
  BY DEF Init
<1>2. results \in Seq(Records) /\ DOMAIN results = {}
  BY <1>1
<1>3. ListInv /\ ListedOnce
  BY <1>1, <1>2 DEF ListInv, ListedOnce
<1>4. WaitInv /\ AnsweredIsListed
  BY <1>1 DEF WaitInv, AnsweredIsListed
<1>5. 0 \in 0..Window /\ 0 \in 0..Window + 1 /\ 0 \in 0..MaxError
  BY DiscoveryAssumption
<1>6. TypeOK
  BY <1>1, <1>2, <1>5 DEF TypeOK
<1>7. QED
  BY <1>3, <1>4, <1>6 DEF ScanInv

(* The clocks keep their bounds, and a receive that times out does so at   *)
(* the end of the window.                                                  *)
LEMMA ClockStep ==
  ASSUME TypeOK, WaitInv, pc = "done" => elapsed >= Window, [Next]_vars
  PROVE  /\ pc' \in {"start", "loop", "recv", "done", "failed"}
         /\ timer' \in 0..Window /\ elapsed' \in 0..Window + 1
         /\ waited' \in 0..Window + 1
         /\ WaitInv' /\ (pc' = "done" => elapsed' >= Window)
<1>1. /\ pc \in {"start", "loop", "recv", "done", "failed"}
      /\ timer \in 0..Window /\ elapsed \in 0..Window + 1
      /\ waited \in 0..Window + 1
  BY DEF TypeOK
<1>2. Window \in Nat
  BY DiscoveryAssumption
<1>3. CASE Broadcast
  BY <1>1, <1>2, <1>3 DEF Broadcast, WaitInv
<1>4. CASE LoopTop
  <2>1. CASE WindowOver
    BY <1>1, <1>2, <1>4, <2>1 DEF LoopTop, WindowOver, Remaining, WaitInv
  <2>2. CASE ~WindowOver
    <3>1. /\ pc' = "recv" /\ timer' = Window - elapsed /\ waited' = 0
          /\ elapsed' = elapsed
      BY <1>4, <2>2 DEF LoopTop, Remaining
    <3>2. elapsed < Window
      BY <1>1, <1>2, <2>2 DEF WindowOver, Remaining
    <3>3. QED
      BY <1>1, <1>2, <3>1, <3>2 DEF WaitInv
  <2>3. QED
    BY <2>1, <2>2
<1>5. CASE RecvTimeout
  <2>1. /\ pc = "recv" /\ waited >= timer /\ pc' = "done"
        /\ UNCHANGED <<timer, elapsed, waited>>
    BY <1>5 DEF RecvTimeout
  <2>2. timer + elapsed = Window + waited
    BY <2>1 DEF WaitInv
  <2>3. elapsed >= Window
    BY <1>1, <1>2, <2>1, <2>2
  <2>4. QED
    BY <1>1, <2>1, <2>3 DEF WaitInv
<1>6. CASE RecvError \/ RecvOther
             \/ \E r \in Radars, k \in Kinds, shape \in Shapes :
                  RecvAnswer(r, k, shape)
  <2>1. pc' = "loop" /\ UNCHANGED <<timer, elapsed, waited>>
    BY <1>6 DEF RecvError, RecvOther, RecvAnswer
  <2>2. QED
    BY <1>1, <2>1 DEF WaitInv
<1>7. CASE \/ \E r \in Radars, kept \in SUBSET Kinds : Answer(r, kept)
           \/ UNCHANGED vars
  <2>1. UNCHANGED <<pc, timer, elapsed, waited>>
    BY <1>7 DEF Answer, vars, scan
  <2>2. QED
    BY <1>1, <2>1 DEF WaitInv
<1>8. CASE Tick
  <2>1. /\ pc \in {"loop", "recv"} /\ pc' = pc /\ timer' = timer
        /\ elapsed <= Window /\ elapsed' = elapsed + 1
        /\ waited' = IF pc = "recv" THEN waited + 1 ELSE waited
    BY <1>8 DEF Tick, scan
  <2>2. CASE pc = "recv"
    <3>1. timer > 0 /\ timer + elapsed = Window + waited
      BY <2>2 DEF WaitInv
    <3>2. timer' + elapsed' = Window + waited'
      BY <1>1, <1>2, <2>1, <2>2, <3>1
    <3>3. elapsed' \in 0..Window + 1 /\ waited' \in 0..Window + 1
      BY <1>1, <1>2, <2>1, <2>2, <3>1
    <3>4. QED
      BY <1>1, <2>1, <2>2, <3>1, <3>2, <3>3 DEF WaitInv
  <2>3. CASE pc = "loop"
    BY <1>1, <1>2, <2>1, <2>3 DEF WaitInv
  <2>4. QED
    BY <2>1, <2>2, <2>3
<1>9. QED
  BY <1>3, <1>4, <1>5, <1>6, <1>7, <1>8 DEF Next

(* What the radars have heard and what is on its way stays theirs. *)
LEMMA NetStep ==
  ASSUME TypeOK, [Next]_vars
  PROVE  /\ errors' \in 0..MaxError /\ heard' \subseteq Radars
         /\ net' \subseteq Radars \X Kinds /\ got' \subseteq Radars
<1>1. /\ errors \in 0..MaxError /\ heard \subseteq Radars
      /\ net \subseteq Radars \X Kinds /\ got \subseteq Radars
  BY DEF TypeOK
<1>2. CASE RecvError
  BY <1>1, <1>2, DiscoveryAssumption DEF RecvError
<1>3. ASSUME NEW r \in Radars, NEW k \in Kinds, NEW shape \in Shapes,
             RecvAnswer(r, k, shape)
      PROVE  /\ errors' \in 0..MaxError /\ heard' \subseteq Radars
             /\ net' \subseteq Radars \X Kinds /\ got' \subseteq Radars
  BY <1>1, <1>3 DEF RecvAnswer
<1>4. ASSUME NEW r \in Radars, NEW kept \in SUBSET Kinds, Answer(r, kept)
      PROVE  /\ errors' \in 0..MaxError /\ heard' \subseteq Radars
             /\ net' \subseteq Radars \X Kinds /\ got' \subseteq Radars
  BY <1>1, <1>4 DEF Answer, scan
<1>5. CASE Broadcast \/ LoopTop \/ RecvTimeout \/ RecvOther \/ Tick
             \/ UNCHANGED vars
  <2>1. UNCHANGED <<errors, heard, net, got>>
    BY <1>5 DEF Broadcast, LoopTop, RecvTimeout, RecvOther, Tick, vars, scan
  <2>2. QED
    BY <1>1, <2>1
<1>6. QED
  BY <1>2, <1>3, <1>4, <1>5 DEF Next

(* Nothing but an answer that is read touches the list. *)
LEMMA ListStep ==
  ASSUME ListOK, TypeOK, [Next]_vars
  PROVE  ListOK'
<1>1. CASE UNCHANGED <<seen, results, got>>
  BY <1>1 DEF ListOK, ListInv, ListedOnce, Key
<1>2. ASSUME NEW r \in Radars, NEW k \in Kinds, NEW shape \in Shapes,
             RecvAnswer(r, k, shape)
      PROVE  ListOK'
  BY <1>2, AnswerListed DEF TypeOK
<1>3. QED
  BY <1>1, <1>2
  DEF Next, Broadcast, LoopTop, RecvTimeout, RecvError, RecvOther, Answer,
      Tick, vars, scan

(* Every step of Scan, of the radars, of the network and of time keeps the *)
(* invariant.                                                              *)
LEMMA NextInv == ScanInv /\ [Next]_vars => ScanInv'
<1> SUFFICES ASSUME ScanInv, [Next]_vars PROVE ScanInv'
  OBVIOUS
<1>1. TypeOK /\ WaitInv /\ ListOK /\ (pc = "done" => elapsed >= Window)
  BY DEF ScanInv, ListOK, AnsweredIsListed
<1>2. ListOK'
  BY <1>1, ListStep
<1>3. \A i \in DOMAIN results' : results'[i].of \subseteq Radars
  <2>1. ListInv'
    BY <1>2 DEF ListOK
  <2>2. \A i \in DOMAIN results' : results'[i] \in Records
    BY <2>1 DEF ListInv
  <2>3. QED
    BY <2>2, RecordDef
<1>4. TypeOK'
  BY <1>1, <1>3, ClockStep, NetStep DEF TypeOK
<1>5. WaitInv' /\ AnsweredIsListed'
  BY <1>1, <1>2, ClockStep DEF ListOK, AnsweredIsListed
<1>6. QED
  BY <1>2, <1>4, <1>5 DEF ScanInv, ListOK

(* The invariant of the theorems below: the list, the keys that were seen  *)
(* and the clocks of a receive.                                            *)
THEOREM ScanInvariant == Spec => []ScanInv
BY InitInv, NextInv, PTL DEF Spec

(* The clocks of Scan stay within the window, and the list names radars.   *)
THEOREM ScanTypeCorrect == Spec => []TypeOK
<1>1. ScanInv => TypeOK
  BY DEF ScanInv
<1>2. QED
  BY <1>1, ScanInvariant, PTL

(* However often answers are repeated, delayed or damaged, and whatever    *)
(* else arrives: no radar is listed twice, and no entry is of two radars.  *)
THEOREM NobodyIsListedTwice == Spec => []ListedOnce
<1>1. ScanInv => ListedOnce
  BY DEF ScanInv
<1>2. QED
  BY <1>1, ScanInvariant, PTL

(* A radar of which one good answer was read is in the list, also if it    *)
(* shares its address with another or a damaged answer of it came first;   *)
(* and Scan does not end before its window, unless nothing could be sent.  *)
THEOREM NobodyIsLeftOut == Spec => []AnsweredIsListed
<1>1. ScanInv => AnsweredIsListed
  BY DEF ScanInv
<1>2. QED
  BY <1>1, ScanInvariant, PTL
=============================================================================
