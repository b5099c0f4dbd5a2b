--------------------------- MODULE FirmwareUpdate ---------------------------
(***************************************************************************)
(* The firmware update sequence of the Python SDK (afi_sdk.firmware) and   *)
(* the radar it updates.                                                   *)
(*                                                                         *)
(* The radar has two faces; each holds one image per component, and the    *)
(* marker says which face it boots.  A face may be written only while the  *)
(* other is marked, component by component; one switch moves the marker.   *)
(* Each call of update brings a new set of images, numbered by the call.   *)
(*                                                                         *)
(* A step of the SDK is one request.  A request may be refused, and it or  *)
(* its answer may be lost, so that the SDK does not know whether the radar *)
(* ran it.  The radar restarts at any time; the connection comes back on   *)
(* demand, so the SDK does not notice.                                     *)
(***************************************************************************)
EXTENDS Integers

CONSTANTS
  NComponents,   (* FIRMWARE_COMPONENTS, 1..NComponents in their order     *)
  Size,          (* length of an image                                     *)
  MaxChunk,      (* max_chunk_size                                         *)
  MaxStalled,    (* MAX_STALLED_CHUNKS                                     *)
  Unreliable,    (* steps whose request or answer may be lost              *)
  LegacyRadars,  (* whether the radar's firmware moves the marker at each  *)
                 (* commit: the cases to look at                           *)
  MaxUpdates,    (* bound: calls of update                                 *)
  MaxRestarts    (* bound: restarts of the radar that nobody asked for     *)

ASSUME UpdateAssumption ==
  /\ NComponents \in Nat \ {0}
  /\ Size \in Nat \ {0} /\ MaxChunk \in Nat \ {0} /\ MaxStalled \in Nat
  /\ LegacyRadars \subseteq BOOLEAN
  /\ MaxUpdates \in Nat /\ MaxRestarts \in Nat

Bootloader == 0
Components == 1..NComponents
Faces == {"A", "B"}
Torn == -1
Images == {Torn} \cup 0..MaxUpdates

(* _other_face *)
Other(f) == IF f = "A" THEN "B" ELSE "A"

(* The requests of the SDK, by the step that makes them: those that only    *)
(* ask (GetMode, GetBootInfo, FirmwareUpdateStatus), and those that act.   *)
Queries == {"getMode", "origin", "check", "final", "confirm", "wait", "settle"}
Requests == Queries \cup {"diagnostic", "programming", "start", "chunk",
                          "commit", "abort", "switch", "reboot"}

ASSUME RequestsAssumption == Unreliable \subseteq Requests

VARIABLES
  pc,          (* the request the SDK makes next, or "returned"            *)
  plan,        (* arguments of update                                      *)
  update,      (* number of the call of update                             *)
  comp,        (* component being uploaded                                 *)
  origin,      (* face marked when the firmware part began                 *)
  slot,        (* target_slot answered to START                            *)
  sent,        (* next offset of the image                                 *)
  stalled,     (* chunks in a row without progress                         *)
  want,        (* face _switch is to make active                           *)
  ok,          (* UpdateResult.ok of the last call                         *)
  mode,        (* radar: access mode                                       *)
  session,     (* radar: the one update session                            *)
  active,      (* radar: fw_update_active                                  *)
  face,        (* radar: image in each face, by component                  *)
  bootloader,  (* radar: bootloader image                                  *)
  legacy,      (* radar: moves the marker at each commit                   *)
  restarts,    (* restarts of the radar so far                             *)
  lost         (* history: a request or an answer was lost                 *)

transfer == <<comp, slot, sent, stalled>>
call     == <<plan, update, origin, want>>
sdk      == <<pc, transfer, call, ok>>
store    == <<active, face, bootloader>>
radar    == <<mode, session, store>>
vars     == <<sdk, radar, legacy, restarts, lost>>

Target == Other(origin)

NoSession ==
  [state |-> "idle", comp |-> Bootloader, slot |-> "B", image |-> 0,
   received |-> 0, clean |-> TRUE]

Init ==
  /\ pc = "returned" /\ ok = FALSE
  /\ plan = [boot |-> FALSE, firmware |-> FALSE, reboot |-> FALSE]
  /\ update = 0 /\ comp = Bootloader /\ slot = "B" /\ sent = 0 /\ stalled = 0
  /\ origin = "A" /\ want = "A"
  /\ mode = "normal" /\ session = NoSession
  /\ active = "A"
  /\ face = [f \in Faces |-> [c \in Components |-> 0]]
  /\ bootloader = 0
  /\ legacy \in LegacyRadars
  /\ restarts = 0 /\ lost = FALSE

-----------------------------------------------------------------------------
(* The radar: which requests it takes, and what they do *)

Accepts(step) ==
  /\ step = "diagnostic" => mode = "normal"
  /\ step = "programming" => mode = "diagnostic"
  /\ step \in {"start", "chunk", "commit", "abort", "switch", "reboot"} =>
       mode = "programming"
  /\ step \in {"start", "switch"} => session.state = "idle"
  /\ step \in {"chunk", "commit"} => session.state = "transferring"
  /\ step = "commit" => session.received = Size

(* The image of component c in the session's face, or the bootloader. *)
Written(image) ==
  IF session.comp = Bootloader
  THEN bootloader' = image /\ UNCHANGED face
  ELSE /\ face' = [face EXCEPT ![session.slot][session.comp] = image]
       /\ UNCHANGED bootloader

SetMode(m) == mode' = m /\ UNCHANGED <<session, store>>

Started ==
  /\ session' = [NoSession EXCEPT
       !.state = "transferring", !.comp = comp, !.image = update,
       !.slot = IF comp = Bootloader THEN "B" ELSE Other(active)]
  /\ UNCHANGED <<mode, store>>

(* n bytes from the SDK's offset are appended to what has been received. *)
Received(n) ==
  /\ session' = [session EXCEPT !.received = @ + n,
                                !.clean = @ /\ (n = 0 \/ session.received = sent)]
  /\ UNCHANGED <<mode, store>>

(* COMMIT checks the CRC and begins to write. *)
Committed ==
  /\ session' = [session EXCEPT !.state = IF session.clean THEN "writing"
                                          ELSE "error"]
  /\ IF session.clean THEN Written(Torn) ELSE UNCHANGED <<face, bootloader>>
  /\ UNCHANGED <<mode, active>>

(* A write that is going on may be stopped or go on. *)
Aborted ==
  /\ \/ session.state # "switching" /\ session' = NoSession
     \/ session.state \in {"writing", "switching"} /\ UNCHANGED session
  /\ UNCHANGED <<mode, store>>

Switched ==
  /\ active' = Other(active)
  /\ session' = [NoSession EXCEPT !.state = "switching"]
  /\ UNCHANGED <<mode, face, bootloader>>

(* A switch that is cut off has moved the marker or has not. *)
Restarted ==
  /\ mode' = "normal"
  /\ session' = NoSession
  /\ \/ UNCHANGED active
     \/ session.state = "switching" /\ active' = Other(active)
  /\ UNCHANGED <<face, bootloader>>

MaxReceived == IF MaxChunk < Size - sent THEN MaxChunk ELSE Size - sent

(* The request of this step, when the radar takes it and runs it. *)
Runs ==
  /\ Accepts(pc)
  /\ \/ pc = "diagnostic" /\ SetMode("diagnostic")
     \/ pc = "programming" /\ SetMode("programming")
     \/ pc = "start" /\ Started
     \/ pc = "chunk" /\ \E n \in 0..MaxReceived : Received(n)
     \/ pc = "commit" /\ Committed
     \/ pc = "abort" /\ Aborted
     \/ pc = "switch" /\ Switched
     \/ pc = "reboot" /\ Restarted
     \/ pc \in Queries /\ UNCHANGED radar

WriteEnds ==
  /\ session.state = "writing"
  /\ \/ /\ Written(session.image)
        /\ session' = NoSession
        /\ active' = IF legacy /\ session.comp # Bootloader
                     THEN session.slot ELSE active
     \/ /\ session' = [session EXCEPT !.state = "error"]
        /\ UNCHANGED store
  /\ UNCHANGED <<sdk, mode, legacy, restarts, lost>>

SwitchEnds ==
  /\ session.state = "switching"
  /\ session' = NoSession
  /\ UNCHANGED <<sdk, mode, store, legacy, restarts, lost>>

(* The radar drops a session after 10 s without an update request. *)
SessionDropped ==
  /\ session.state = "transferring"
  /\ session' = NoSession
  /\ UNCHANGED <<sdk, mode, store, legacy, restarts, lost>>

PowerLost ==
  /\ restarts < MaxRestarts
  /\ Restarted
  /\ restarts' = restarts + 1
  /\ UNCHANGED <<sdk, legacy, lost>>

-----------------------------------------------------------------------------
(* The SDK *)

Goto(step) == pc' = step /\ UNCHANGED ok
Return(result) == pc' = "returned" /\ ok' = result

Update(p) ==
  /\ pc = "returned" /\ update < MaxUpdates
  /\ p.boot \/ p.firmware
  /\ plan' = p /\ update' = update + 1
  /\ Goto("getMode")
  /\ UNCHANGED <<transfer, origin, want, radar, legacy, restarts, lost>>

(* A request whose answer the SDK gets. *)
Answered(step) ==
  /\ pc = step
  /\ Runs
  /\ UNCHANGED <<legacy, restarts, lost>>

(* Mutant: a chunk that fails does not abort the session. *)
AbortsAfterCommit(step) == step \in {"commit", "wait"}

Aborts(step) == step \in {"chunk", "commit", "wait"}

Failed == IF Aborts(pc) THEN Goto("abort") ELSE Return(FALSE)

Fail == Failed /\ UNCHANGED <<transfer, call>>

Refused ==
  /\ pc \in Requests /\ ~Accepts(pc)
  /\ Fail
  /\ UNCHANGED <<radar, legacy, restarts, lost>>

Upload(c) == comp' = c /\ Goto("start")

Switch(f) == want' = f /\ Goto("switch")

Finish == IF plan.reboot THEN Goto("reboot") ELSE Return(TRUE)

(* enter_mode *)
InMode ==
  IF plan.boot THEN Upload(Bootloader) ELSE Goto("origin") /\ UNCHANGED comp

GetMode ==
  /\ Answered("getMode")
  /\ \/ mode = "programming" /\ InMode
     \/ mode = "diagnostic" /\ Goto("programming") /\ UNCHANGED comp
     \/ mode = "normal" /\ Goto("diagnostic") /\ UNCHANGED comp
  /\ UNCHANGED <<slot, sent, stalled, call>>

EnterDiagnostic ==
  /\ Answered("diagnostic")
  /\ Goto("programming")
  /\ UNCHANGED <<transfer, call>>

EnterProgramming ==
  /\ Answered("programming")
  /\ InMode
  /\ UNCHANGED <<slot, sent, stalled, call>>

(* upload_component *)
Start ==
  /\ Answered("start")
  /\ slot' = session'.slot /\ sent' = 0 /\ stalled' = 0
  /\ Goto("chunk")
  /\ UNCHANGED <<comp, call>>

(* Mutant: the count of chunks without progress wraps below its limit. *)
StalledWraps(received) ==
  IF received <= sent THEN (stalled + 1) % (MaxStalled + 1) ELSE 0

Stalled(received) == IF received <= sent THEN stalled + 1 ELSE 0

(* Mutant: what the radar says it has is not compared with the size. *)
GivesUpWhenStalled(received) == Stalled(received) > MaxStalled

GivesUp(received) == Stalled(received) > MaxStalled \/ received > Size

(* An answer without received_bytes counts as no progress. *)
Chunk ==
  /\ Answered("chunk")
  /\ \E received \in {session'.received, sent} :
       IF GivesUp(received)
       THEN Failed /\ UNCHANGED <<sent, stalled>>
       ELSE /\ sent' = received /\ stalled' = Stalled(received)
            /\ Goto(IF received < Size THEN "chunk" ELSE "commit")
  /\ UNCHANGED <<comp, slot, call>>

Commit ==
  /\ Answered("commit")
  /\ Goto("wait")
  /\ UNCHANGED <<transfer, call>>

Abort ==
  /\ Answered("abort")
  /\ Return(FALSE)
  /\ UNCHANGED <<transfer, call>>

(* Mutant: the components end one too early. *)
MoreButOne(c) == c < NComponents - 1

More(c) == c < NComponents

Uploaded ==
  IF comp = Bootloader
  THEN IF plan.firmware THEN Goto("origin") ELSE Finish
  ELSE IF slot # Target THEN Return(FALSE)
  ELSE Goto(IF More(comp) THEN "check" ELSE "final")

(* Mutant: a switch is not waited for. *)
SettledAtOnce == pc = "settle" \/ session.state = "idle"

Settled == session.state = "idle"

(* wait_idle, the last time it polls; a poll that finds the radar busy     *)
(* changes nothing.                                                        *)
Idle ==
  /\ pc \in {"wait", "settle"} /\ Settled
  /\ IF pc = "wait" THEN Uploaded ELSE Goto("confirm")
  /\ UNCHANGED <<transfer, call, radar, legacy, restarts, lost>>

WaitFails ==
  /\ pc \in {"wait", "settle"} /\ session.state = "error"
  /\ Fail
  /\ UNCHANGED <<radar, legacy, restarts, lost>>

WaitTimesOut ==
  /\ pc \in {"wait", "settle"}
  /\ Fail
  /\ UNCHANGED <<radar, legacy, restarts, lost>>

(* The calls of _active_face *)
Origin ==
  /\ Answered("origin")
  /\ origin' = active
  /\ Upload(1)
  /\ UNCHANGED <<slot, sent, stalled, plan, update, want>>

(* The marker is put back while components remain. *)
Check ==
  /\ Answered("check")
  /\ IF active # origin THEN Switch(origin) /\ UNCHANGED comp
     ELSE Upload(comp + 1) /\ UNCHANGED want
  /\ UNCHANGED <<slot, sent, stalled, plan, update, origin>>

Final ==
  /\ Answered("final")
  /\ IF active # Target THEN Switch(Target) ELSE Finish /\ UNCHANGED want
  /\ UNCHANGED <<transfer, plan, update, origin>>

(* _switch *)
SwitchSlot ==
  /\ Answered("switch")
  /\ Goto("settle")
  /\ UNCHANGED <<transfer, call>>

(* Mutant: the face is not looked at after the switch. *)
ConfirmedUnseen == TRUE

Confirmed == active = want

Confirm ==
  /\ Answered("confirm")
  /\ IF ~Confirmed THEN Return(FALSE) /\ UNCHANGED comp
     ELSE IF want = origin THEN Upload(comp + 1)
     ELSE Finish /\ UNCHANGED comp
  /\ UNCHANGED <<slot, sent, stalled, call>>

(* Nothing else is sent once the radar restarts. *)
Reboot ==
  /\ Answered("reboot")
  /\ Return(TRUE)
  /\ UNCHANGED <<transfer, call>>

(* A request that gets no answer.  A face that is not known is not the one *)
(* that is looked for; a reboot that is not answered counts as accepted.   *)
RequestLost ==
  /\ pc \in Unreliable
  /\ Runs \/ UNCHANGED radar
  /\ lost' = TRUE
  /\ CASE pc \in {"check", "final"} ->
            /\ Switch(IF pc = "check" THEN origin ELSE Target)
            /\ UNCHANGED <<transfer, plan, update, origin>>
       [] pc = "reboot" -> Return(TRUE) /\ UNCHANGED <<transfer, call>>
       [] OTHER -> Fail
  /\ UNCHANGED <<legacy, restarts>>

-----------------------------------------------------------------------------
SdkStep ==
  \/ GetMode \/ EnterDiagnostic \/ EnterProgramming
  \/ Start \/ Chunk \/ Commit \/ Abort \/ Idle \/ WaitFails \/ WaitTimesOut
  \/ Origin \/ Check \/ Final \/ SwitchSlot \/ Confirm \/ Reboot
  \/ Refused \/ RequestLost

RadarStep == WriteEnds \/ SwitchEnds \/ SessionDropped \/ PowerLost

Plans == [boot : BOOLEAN, firmware : BOOLEAN, reboot : BOOLEAN]

Next == (\E p \in Plans : Update(p)) \/ SdkStep \/ RadarStep

(* update, once called, goes on: a request without an answer times out,    *)
(* and so does wait_idle.  Of the radar nothing is assumed.                *)
Spec == Init /\ [][Next]_vars /\ WF_vars(SdkStep)

-----------------------------------------------------------------------------
(* Properties *)

Modes == {"normal", "diagnostic", "programming"}

Sessions ==
  [state : {"idle", "transferring", "writing", "error", "switching"},
   comp : {Bootloader} \cup Components, slot : Faces,
   image : 0..MaxUpdates, received : Nat, clean : BOOLEAN]

TypeOK ==
  /\ pc \in Requests \cup {"returned"} /\ plan \in Plans /\ ok \in BOOLEAN
  /\ update \in 0..MaxUpdates /\ comp \in {Bootloader} \cup Components
  /\ origin \in Faces /\ slot \in Faces /\ want \in Faces
  /\ sent \in 0..Size /\ stalled \in 0..MaxStalled
  /\ mode \in Modes /\ session \in Sessions
  /\ active \in Faces /\ face \in [Faces -> [Components -> Images]]
  /\ bootloader \in Images
  /\ legacy \in BOOLEAN /\ restarts \in 0..MaxRestarts /\ lost \in BOOLEAN

Holds(f, image) == \A c \in Components : face[f][c] = image

(* The face the radar boots holds images of one set, and all of them,      *)
(* whatever step an update is at and wherever it or the radar stopped      *)
(* (firmware.py, "switching to a partly rewritten face boots a mix of old  *)
(* and new images").  A radar that moves the marker itself at each commit  *)
(* breaks this by itself.                                                  *)
ActiveFaceWhole ==
  ~legacy => \E image \in 0..MaxUpdates : Holds(active, image)

(* An update of the firmware that reports success has written every image  *)
(* it was given, and the radar boots them, though restarts of the radar go *)
(* unnoticed and a fresh radar reports "idle".                             *)
OkMeansWritten ==
  pc = "returned" /\ ok /\ plan.firmware =>
    /\ Holds(Target, update) /\ active = Target
    /\ plan.boot => bootloader = update

(* FirmwareUpdateReboot is sent only while the session is idle, so that    *)
(* the move of the marker is not cut off (firmware.py, step 5).            *)
RebootWhileIdle == pc = "reboot" => session.state = "idle"

(* A failed update leaves no transfer open that would refuse the next      *)
(* START, unless the network lost a request                                *)
(* (firmware.py, "Any failure after START aborts the session").            *)
NoTransferLeftOpen ==
  pc = "returned" /\ ~lost => session.state # "transferring"

(* update returns, with a radar that takes no data, one that never comes   *)
(* to an end with a write, or one that is gone.                            *)
UpdateReturns == pc # "returned" ~> pc = "returned"

-----------------------------------------------------------------------------
(* The inductive invariant of the proofs.  A restart goes unnoticed, but   *)
(* it leaves the radar in normal mode, where it refuses all that acts:     *)
(* what an update has done so far is stated of a radar in programming mode.*)

Programming == mode = "programming"

Whole(f) == \E image \in 0..MaxUpdates : Holds(f, image)

(* The steps that the SDK reaches only with the radar at rest. *)
AtRest ==
  \/ pc \in {"check", "final", "switch", "confirm", "reboot"}
  \/ pc = "returned" /\ ok
  \/ pc = "origin" /\ plan.boot
  \/ pc = "start" /\ comp # Bootloader /\ (plan.boot \/ comp # 1)

OwnSession ==
  session.comp = comp /\ session.slot = slot /\ session.image = update

(* The one session of the radar: it writes to the face that is not marked. *)
RadarInv ==
  /\ ~Programming => session.state = "idle"
  /\ session.state \in {"transferring", "writing"}
       /\ session.comp # Bootloader => session.slot = Other(active)

(* What the SDK takes the session for. *)
SessionInv ==
  /\ AtRest => session.state = "idle"
  /\ pc = "settle" => session.state \in {"idle", "switching"}
  /\ pc \in {"chunk", "commit"} => session.state \in {"idle", "transferring"}
  /\ pc = "wait" => session.state \in {"idle", "writing", "error"}
  /\ pc \in {"chunk", "commit", "wait"}
       /\ session.state \in {"transferring", "writing"} => OwnSession
  /\ ~lost /\ session.state = "transferring" =>
       pc \in {"chunk", "commit", "abort"}

(* The component at each step: only the last one leads to the other face. *)
ComponentInv ==
  /\ pc = "check" => comp \in 1..(NComponents - 1)
  /\ pc = "final" => comp = NComponents
  /\ pc \in {"switch", "settle", "confirm"} =>
       IF want = Target THEN comp = NComponents
                        ELSE comp \in 1..(NComponents - 1)

(* The images that this call of update has written, up to component n. *)
WrittenTo(n) ==
  /\ plan.boot => bootloader = update
  /\ \A c \in Components : c <= n => face[Target][c] = update

(* A marker that has moved to the target has a whole upload behind it. *)
WrittenInv ==
  /\ pc = "origin" /\ plan.boot /\ Programming => bootloader = update
  /\ comp # Bootloader /\ Programming /\ pc = "start" => WrittenTo(comp - 1)
  /\ comp # Bootloader /\ slot = Target =>
       /\ pc \in {"chunk", "commit"} => active = origin
       /\ pc \in {"chunk", "commit", "wait"} /\ Programming =>
            WrittenTo(comp - 1)
       /\ pc = "wait" /\ session.state = "idle" /\ Programming =>
            WrittenTo(comp)
       /\ pc = "wait" /\ active = Target =>
            session.state = "idle" /\ WrittenTo(comp)
  /\ pc = "wait" /\ comp = Bootloader /\ session.state = "idle"
       /\ Programming => bootloader = update
  /\ pc \in {"check", "final", "switch", "settle", "confirm"}
       /\ Programming => WrittenTo(comp)
  /\ pc = "final" /\ active = Target => WrittenTo(comp)
  /\ pc \in {"settle", "confirm"} /\ want = Target => WrittenTo(comp)
  /\ plan.firmware /\ (pc = "reboot" \/ (pc = "returned" /\ ok)) =>
       WrittenTo(NComponents) /\ active = Target

(* Both faces are whole while the marker moves. *)
MarkerInv ==
  ~legacy =>
    /\ Whole(active)
    /\ session.state = "switching" => Whole("A") /\ Whole("B")

(* Before the marker moves, the radar boots the face that is not written,  *)
(* and it moves to the face that has been written only.                    *)
OriginInv ==
  ~legacy /\ Programming =>
    /\ comp # Bootloader
         /\ pc \in {"start", "chunk", "commit", "wait", "check", "final",
                    "switch"} => active = origin
    /\ pc \in {"switch", "settle", "confirm"} => want = Target

UpdateInv ==
  TypeOK /\ RadarInv /\ SessionInv /\ ComponentInv /\ WrittenInv

FaceInv == UpdateInv /\ MarkerInv /\ OriginInv
=============================================================================
