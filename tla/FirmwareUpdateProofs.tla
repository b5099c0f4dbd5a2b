------------------------ MODULE FirmwareUpdateProofs ------------------------
(***************************************************************************)
(* Proofs about FirmwareUpdate, for every number of components, size of    *)
(* image and chunk, every set of requests that may be lost and every value *)
(* of the bounds.                                                          *)
(***************************************************************************)
EXTENDS FirmwareUpdate, TLAPS

-----------------------------------------------------------------------------
(* The radar *)

(* A reset session is a session. *)
LEMMA NoSessionType == NoSession \in Sessions
BY UpdateAssumption DEF NoSession, Sessions, Faces

(* The radar at rest with any state of its session that a reset may leave. *)
LEMMA ResetType ==
  ASSUME NEW s \in {"idle", "transferring", "writing", "error", "switching"},
         NEW c \in {Bootloader} \cup Components, NEW f \in Faces,
         NEW image \in 0..MaxUpdates
  PROVE  /\ [NoSession EXCEPT !.state = s] \in Sessions
         /\ [NoSession EXCEPT !.state = s, !.comp = c, !.image = image,
                              !.slot = f] \in Sessions
BY NoSessionType DEF Sessions

(* The two faces. *)
LEMMA OtherFace ==
  \A f \in Faces : Other(f) \in Faces /\ Other(f) # f /\ Other(Other(f)) = f
BY DEF Other, Faces

(* An image written where the session says is in its place. *)
LEMMA WrittenTypes ==
  ASSUME TypeOK, NEW image \in Images, Written(image)
  PROVE  face' \in [Faces -> [Components -> Images]] /\ bootloader' \in Images
<1>1. CASE session.comp = Bootloader
  BY <1>1 DEF Written, TypeOK
<1>2. CASE session.comp # Bootloader
  <2>1. session.slot \in Faces /\ session.comp \in Components
    BY <1>2 DEF TypeOK, Sessions
  <2>2. [face[session.slot] EXCEPT ![session.comp] = image]
          \in [Components -> Images]
    BY <2>1 DEF TypeOK
  <2>3. face' = [face EXCEPT ![session.slot] =
                   [face[session.slot] EXCEPT ![session.comp] = image]]
    BY <1>2 DEF Written
  <2>4. QED
    BY <1>2, <2>1, <2>2, <2>3 DEF Written, TypeOK
<1>3. QED
  BY <1>1, <1>2

(* The types of the radar's state, whatever request it runs. *)
LEMMA RunsTypes ==
  ASSUME TypeOK, Runs
  PROVE  /\ mode' \in Modes /\ session' \in Sessions
         /\ active' \in Faces /\ face' \in [Faces -> [Components -> Images]]
         /\ bootloader' \in Images
<1> USE DEF store
<1>1. CASE pc = "diagnostic" /\ SetMode("diagnostic")
  BY <1>1 DEF SetMode, TypeOK, Modes
<1>2. CASE pc = "programming" /\ SetMode("programming")
  BY <1>2 DEF SetMode, TypeOK, Modes
<1>3. CASE pc = "start" /\ Started
  <2>1. update \in 0..MaxUpdates /\ comp \in {Bootloader} \cup Components
    BY DEF TypeOK
  <2>2. (IF comp = Bootloader THEN "B" ELSE Other(active)) \in Faces
    BY OtherFace DEF TypeOK, Faces
  <2>3. session' \in Sessions
    BY <1>3, <2>1, <2>2, ResetType DEF Started
  <2>4. QED
    BY <1>3, <2>3 DEF Started, TypeOK
<1>4. CASE pc = "chunk" /\ \E n \in 0..MaxReceived : Received(n)
  <2>1. PICK n \in 0..MaxReceived : Received(n)
    BY <1>4
  <2>2. n \in Nat
    BY UpdateAssumption DEF MaxReceived, TypeOK
  <2>3. session.received + n \in Nat
    BY <2>2 DEF TypeOK, Sessions
  <2>4. session' \in Sessions
    BY <2>1, <2>3 DEF Received, TypeOK, Sessions
  <2>5. QED
    BY <2>1, <2>4 DEF Received, TypeOK
<1>5. CASE pc = "commit" /\ Committed
  <2>1. Torn \in Images
    BY DEF Images
  <2>2. session' \in Sessions
    BY <1>5 DEF Committed, TypeOK, Sessions
  <2>3. face' \in [Faces -> [Components -> Images]] /\ bootloader' \in Images
    BY <1>5, <2>1, WrittenTypes DEF Committed, TypeOK
  <2>4. QED
    BY <1>5, <2>2, <2>3 DEF Committed, TypeOK
<1>6. CASE pc = "abort" /\ Aborted
  BY <1>6, NoSessionType DEF Aborted, TypeOK
<1>7. CASE pc = "switch" /\ Switched
  <2>1. session' \in Sessions
    <3>1. 0 \in 0..MaxUpdates
      BY UpdateAssumption
    <3>2. QED
      BY <1>7, <3>1, ResetType DEF Switched, Faces
  <2>2. QED
    BY <1>7, <2>1, OtherFace DEF Switched, TypeOK
<1>8. CASE pc = "reboot" /\ Restarted
  BY <1>8, NoSessionType, OtherFace DEF Restarted, TypeOK, Modes
<1>9. CASE pc \in Queries /\ UNCHANGED radar
  BY <1>9 DEF radar, TypeOK
<1>10. QED
  BY <1>1, <1>2, <1>3, <1>4, <1>5, <1>6, <1>7, <1>8, <1>9 DEF Runs

(* Which disjunct of Runs the step of the SDK is. *)
LEMMA RunsStep ==
  ASSUME Runs
  PROVE  /\ Accepts(pc)
         /\ pc = "diagnostic" => SetMode("diagnostic")
         /\ pc = "programming" => SetMode("programming")
         /\ pc = "start" => Started
         /\ pc = "chunk" => \E n \in 0..MaxReceived : Received(n)
         /\ pc = "commit" => Committed
         /\ pc = "abort" => Aborted
         /\ pc = "switch" => Switched
         /\ pc = "reboot" => Restarted
         /\ pc \in Queries => UNCHANGED radar
BY DEF Runs, Queries

-----------------------------------------------------------------------------
(* Type correctness *)

(* The initial state has the types. *)
LEMMA InitTypes == Init => TypeOK
<1>1. 0 \in 0..MaxUpdates /\ 0 \in 0..MaxRestarts /\ 0 \in 0..Size
        /\ 0 \in 0..MaxStalled
  BY UpdateAssumption
<1>2. [f \in Faces |-> [c \in Components |-> 0]] \in
        [Faces -> [Components -> Images]]
  BY <1>1 DEF Images
<1>3. ASSUME Init PROVE legacy \in BOOLEAN /\ plan \in Plans
  BY <1>3, UpdateAssumption, Zenon DEF Init, Plans
<1>4. QED
  BY <1>1, <1>2, <1>3, NoSessionType, UpdateAssumption
  DEF Init, TypeOK, Faces, Modes, Images

(* Where the SDK goes when a step fails. *)
LEMMA FailedSteps ==
  ASSUME Failed
  PROVE  pc' = "abort" \/ (pc' = "returned" /\ ok' = FALSE)
BY DEF Failed, Goto, Return

(* The types of what update keeps. *)
SdkTypes ==
  /\ pc \in Requests \cup {"returned"} /\ plan \in Plans /\ ok \in BOOLEAN
  /\ update \in 0..MaxUpdates /\ comp \in {Bootloader} \cup Components
  /\ origin \in Faces /\ slot \in Faces /\ want \in Faces
  /\ sent \in 0..Size /\ stalled \in 0..MaxStalled

(* The component after one that is not the last. *)
LEMMA NextComponent ==
  ASSUME comp \in 1..(NComponents - 1)
  PROVE  comp + 1 \in Components /\ comp \in Components
BY UpdateAssumption DEF Components

(* The types of what update keeps, whatever step it makes. *)
LEMMA SdkStepTypes ==
  ASSUME TypeOK, ComponentInv, SdkStep
  PROVE  SdkTypes'
<1> USE DEF TypeOK, SdkTypes, Goto, Return, Requests, Queries, transfer, call
<1>1. CASE GetMode
  BY <1>1 DEF GetMode, InMode, Upload
<1>2. CASE EnterDiagnostic
  BY <1>2 DEF EnterDiagnostic
<1>3. CASE EnterProgramming
  BY <1>3 DEF EnterProgramming, InMode, Upload
<1>4. CASE Start
  <2>1. session' \in Sessions
    BY <1>4, RunsTypes DEF Start, Answered
  <2>2. session'.slot \in Faces
    BY <2>1 DEF Sessions
  <2>3. 0 \in 0..Size /\ 0 \in 0..MaxStalled
    BY UpdateAssumption
  <2>4. QED
    BY <1>4, <2>2, <2>3 DEF Start
<1>5. CASE Chunk
  <2>1. session' \in Sessions
    BY <1>5, RunsTypes DEF Chunk, Answered
  <2>2. PICK received \in {session'.received, sent} :
          IF GivesUp(received)
          THEN Failed /\ UNCHANGED <<sent, stalled>>
          ELSE /\ sent' = received /\ stalled' = Stalled(received)
               /\ Goto(IF received < Size THEN "chunk" ELSE "commit")
    BY <1>5 DEF Chunk
  <2>3. received \in Nat
    BY <2>1, UpdateAssumption DEF Sessions
  <2>4. CASE GivesUp(received)
    BY <1>5, <2>2, <2>4 DEF Failed, Chunk
  <2>5. CASE ~GivesUp(received)
    <3>1. received \in 0..Size /\ Stalled(received) \in 0..MaxStalled
      BY <2>3, <2>5, UpdateAssumption DEF GivesUp, Stalled
    <3>2. QED
      BY <1>5, <2>2, <2>5, <3>1 DEF Chunk
  <2>6. QED
    BY <2>4, <2>5
<1>6. CASE Commit
  BY <1>6 DEF Commit
<1>7. CASE Abort
  BY <1>7 DEF Abort
<1>8. CASE Idle
  BY <1>8 DEF Idle, Uploaded, Finish
<1>9. CASE WaitFails \/ WaitTimesOut \/ Refused
  BY <1>9 DEF WaitFails, WaitTimesOut, Refused, Fail, Failed
<1>10. CASE Origin
  <2>1. 1 \in Components
    BY UpdateAssumption DEF Components
  <2>2. QED
    BY <1>10, <2>1 DEF Origin, Upload
<1>11. CASE Check
  BY <1>11, NextComponent DEF Check, Switch, Upload, Answered, ComponentInv
<1>12. CASE Final
  BY <1>12, OtherFace DEF Final, Switch, Finish, Target
<1>13. CASE SwitchSlot
  BY <1>13 DEF SwitchSlot
<1>14. CASE Confirm
  <2>1. want = origin => comp + 1 \in Components
    BY <1>14, NextComponent, OtherFace
    DEF Confirm, Answered, ComponentInv, Target
  <2>2. QED
    BY <1>14, <2>1 DEF Confirm, Upload, Finish
<1>15. CASE Reboot
  BY <1>15 DEF Reboot
<1>16. CASE RequestLost
  BY <1>16, OtherFace DEF RequestLost, Fail, Failed, Switch, Target
<1>17. QED
  BY <1>1, <1>2, <1>3, <1>4, <1>5, <1>6, <1>7, <1>8, <1>9, <1>10, <1>11,
     <1>12, <1>13, <1>14, <1>15, <1>16 DEF SdkStep

(* What a step of the SDK does to the rest: the radar runs the request, or *)
(* nothing happens to it.                                                  *)
LEMMA SdkStepRadar ==
  ASSUME SdkStep
  PROVE  /\ Runs \/ UNCHANGED radar
         /\ UNCHANGED <<legacy, restarts>>
         /\ lost' = lost \/ lost' = TRUE
BY DEF SdkStep, GetMode, EnterDiagnostic, EnterProgramming, Start, Chunk,
       Commit, Abort, Idle, WaitFails, WaitTimesOut, Origin, Check, Final,
       SwitchSlot, Confirm, Reboot, Refused, RequestLost, Answered

(* A call of update keeps the types. *)
LEMMA UpdateTypes ==
  ASSUME TypeOK, NEW p \in Plans, Update(p)
  PROVE  TypeOK'
<1>1. update' \in 0..MaxUpdates
  BY UpdateAssumption DEF TypeOK, Update
<1>2. pc' \in Requests \cup {"returned"}
  BY DEF Update, Goto, Requests, Queries
<1>3. QED
  BY <1>1, <1>2 DEF TypeOK, Update, Goto, transfer, radar, store

(* So does a restart. *)
LEMMA RestartedTypes ==
  ASSUME TypeOK, Restarted
  PROVE  /\ mode' \in Modes /\ session' \in Sessions /\ active' \in Faces
         /\ UNCHANGED <<face, bootloader>>
BY NoSessionType, OtherFace DEF TypeOK, Restarted, Modes

(* So does the end of a write. *)
LEMMA WriteEndsTypes ==
  ASSUME TypeOK, WriteEnds
  PROVE  /\ session' \in Sessions /\ active' \in Faces
         /\ face' \in [Faces -> [Components -> Images]] /\ bootloader' \in Images
<1>1. session.image \in Images /\ session.slot \in Faces
  BY DEF TypeOK, Sessions, Images
<1>2. CASE Written(session.image) /\ session' = NoSession
            /\ active' = IF legacy /\ session.comp # Bootloader
                         THEN session.slot ELSE active
  BY <1>1, <1>2, NoSessionType, WrittenTypes DEF TypeOK
<1>3. CASE session' = [session EXCEPT !.state = "error"] /\ UNCHANGED store
  BY <1>3 DEF TypeOK, Sessions, store
<1>4. QED
  BY <1>2, <1>3 DEF WriteEnds

(* So does whatever the radar does by itself. *)
LEMMA RadarStepTypes ==
  ASSUME TypeOK, RadarStep
  PROVE  TypeOK'
<1> USE DEF sdk, transfer, call
<1>1. CASE WriteEnds
  BY <1>1, WriteEndsTypes DEF TypeOK, WriteEnds
<1>2. CASE SwitchEnds \/ SessionDropped
  BY <1>2, NoSessionType DEF TypeOK, SwitchEnds, SessionDropped, store
<1>3. CASE PowerLost
  <2>1. restarts' \in 0..MaxRestarts
    BY <1>3, UpdateAssumption DEF TypeOK, PowerLost
  <2>2. QED
    BY <1>3, <2>1, RestartedTypes DEF TypeOK, PowerLost
<1>4. QED
  BY <1>1, <1>2, <1>3 DEF RadarStep

(* Every step keeps the types; that the components come to an end where    *)
(* they should is part of the reason.                                      *)
LEMMA NextTypes ==
  ASSUME TypeOK, ComponentInv, [Next]_vars
  PROVE  TypeOK'
<1>1. CASE SdkStep
  <2>1. SdkTypes'
    BY <1>1, SdkStepTypes
  <2>2. legacy' \in BOOLEAN /\ restarts' \in 0..MaxRestarts /\ lost' \in BOOLEAN
    BY <1>1, SdkStepRadar DEF TypeOK
  <2>3. CASE Runs
    BY <2>1, <2>2, <2>3, RunsTypes DEF TypeOK, SdkTypes
  <2>4. CASE UNCHANGED radar
    BY <2>1, <2>2, <2>4 DEF TypeOK, SdkTypes, radar, store
  <2>5. QED
    BY <1>1, <2>3, <2>4, SdkStepRadar
<1>2. CASE \E p \in Plans : Update(p)
  BY <1>2, UpdateTypes
<1>3. CASE RadarStep
  BY <1>3, RadarStepTypes
<1>4. CASE UNCHANGED vars
  BY <1>4 DEF TypeOK, vars, sdk, transfer, call, radar, store
<1>5. QED
  BY <1>1, <1>2, <1>3, <1>4 DEF Next

-----------------------------------------------------------------------------
(* The radar's session *)

(* A request leaves a session that writes beside the marked face. *)
LEMMA RunsRadarInv ==
  ASSUME TypeOK, RadarInv, Runs
  PROVE  RadarInv'
<1> USE RunsStep, OtherFace DEF RadarInv, Programming, TypeOK, Accepts
<1>1. CASE pc \in {"diagnostic", "programming"}
  BY <1>1 DEF SetMode, store
<1>2. CASE pc = "start"
  BY <1>2 DEF Started, NoSession, store
<1>3. CASE pc = "chunk"
  BY <1>3 DEF Received, store, Sessions
<1>4. CASE pc = "commit"
  BY <1>4 DEF Committed, Sessions
<1>5. CASE pc = "abort"
  BY <1>5 DEF Aborted, NoSession, store
<1>6. CASE pc \in {"switch", "reboot"}
  BY <1>6 DEF Switched, Restarted, NoSession
<1>7. CASE pc \in Queries
  BY <1>7 DEF radar, store
<1>8. QED
  BY <1>1, <1>2, <1>3, <1>4, <1>5, <1>6, <1>7 DEF Runs

(* Outside a write the radar may end, drop or restart at any time. *)
LEMMA RadarStepRadarInv ==
  ASSUME TypeOK, RadarInv, RadarStep
  PROVE  RadarInv'
<1> USE DEF RadarInv, Programming, TypeOK
<1>1. CASE WriteEnds
  BY <1>1 DEF WriteEnds, NoSession, Sessions, store
<1>2. CASE SwitchEnds \/ SessionDropped
  BY <1>2 DEF SwitchEnds, SessionDropped, NoSession, store
<1>3. CASE PowerLost
  BY <1>3 DEF PowerLost, Restarted, NoSession
<1>4. QED
  BY <1>1, <1>2, <1>3 DEF RadarStep

(* Every step keeps what is said of the session. *)
LEMMA NextRadarInv ==
  ASSUME TypeOK, RadarInv, [Next]_vars
  PROVE  RadarInv'
<1>1. CASE UNCHANGED radar
  BY <1>1 DEF RadarInv, Programming, radar, store
<1>2. CASE SdkStep
  BY <1>1, <1>2, SdkStepRadar, RunsRadarInv
<1>3. CASE \E p \in Plans : Update(p)
  BY <1>1, <1>3 DEF Update
<1>4. QED
  BY <1>1, <1>2, <1>3, RadarStepRadarInv DEF Next, vars

-----------------------------------------------------------------------------
(* Where the SDK goes *)

(* A step that fails leads where nothing is said of what has been done. *)
LEMMA FailedInv ==
  ASSUME pc' = "abort" \/ (pc' = "returned" /\ ok' = FALSE),
         ~lost' /\ session'.state = "transferring" => pc' = "abort"
  PROVE  SessionInv' /\ ComponentInv' /\ WrittenInv' /\ OriginInv'
BY DEF SessionInv, AtRest, ComponentInv, WrittenInv, OriginInv

(* What has been written stays so while nothing is written. *)
LEMMA SameWritten ==
  ASSUME UNCHANGED <<plan, update, origin, face, bootloader>>
  PROVE  \A n : WrittenTo(n)' = WrittenTo(n)
BY DEF WrittenTo, Target

(* The face that is not the origin is the target. *)
LEMMA OriginOrTarget ==
  ASSUME TypeOK
  PROVE  /\ Target \in Faces /\ Target # origin
         /\ \A f \in Faces : f = origin \/ f = Target
         /\ \A f \in Faces : Other(f) = Target => f = origin
BY DEF TypeOK, Target, Other, Faces

(* The steps to programming mode. *)
LEMMA ModeStepInv ==
  ASSUME TypeOK, SessionInv, GetMode \/ EnterDiagnostic \/ EnterProgramming
  PROVE  SessionInv' /\ ComponentInv' /\ WrittenInv' /\ OriginInv'
<1>1. session' = session /\ lost' = lost /\ plan' = plan
  BY RunsStep DEF GetMode, EnterDiagnostic, EnterProgramming, Answered,
                  SetMode, Queries, radar, call
<1>2. ~lost /\ session.state = "transferring" => FALSE
  BY DEF SessionInv, GetMode, EnterDiagnostic, EnterProgramming, Answered
<1>3. \/ pc' \in {"diagnostic", "programming"}
      \/ pc' = "start" /\ comp' = Bootloader
      \/ pc' = "origin" /\ ~plan.boot
  BY DEF GetMode, EnterDiagnostic, EnterProgramming, InMode, Upload, Goto
<1>4. QED
  BY <1>1, <1>2, <1>3
  DEF SessionInv, AtRest, ComponentInv, WrittenInv, OriginInv

(* A call of update begins with what it knows nothing of. *)
LEMMA UpdateStepInv ==
  ASSUME TypeOK, SessionInv, NEW p \in Plans, Update(p)
  PROVE  SessionInv' /\ ComponentInv' /\ WrittenInv' /\ OriginInv'
<1>1. session' = session /\ lost' = lost /\ pc' = "getMode"
  BY DEF Update, radar, Goto
<1>2. ~lost /\ session.state = "transferring" => FALSE
  BY DEF SessionInv, Update
<1>3. QED
  BY <1>1, <1>2 DEF SessionInv, AtRest, ComponentInv, WrittenInv, OriginInv

(* A session that the SDK has started is its own. *)
LEMMA StartInv ==
  ASSUME TypeOK, SessionInv, WrittenInv, Start
  PROVE  SessionInv' /\ ComponentInv' /\ WrittenInv'
<1>1. /\ pc = "start" /\ Programming /\ Started /\ pc' = "chunk"
      /\ slot' = session'.slot /\ lost' = lost
      /\ UNCHANGED <<comp, plan, update, origin, want, mode, active, face,
                     bootloader>>
  BY RunsStep DEF Start, Answered, Accepts, Programming, Started, Goto, call,
                  store
<1>2. /\ session'.state = "transferring" /\ session'.comp = comp
      /\ session'.image = update
      /\ session'.slot = IF comp = Bootloader THEN "B" ELSE Other(active)
  BY <1>1 DEF Started, NoSession
<1>3. SessionInv' /\ ComponentInv'
  BY <1>1, <1>2 DEF SessionInv, AtRest, OwnSession, ComponentInv
<1>4. comp # Bootloader => WrittenTo(comp - 1)'
  BY <1>1, SameWritten DEF WrittenInv
<1>5. Target' = Target
  BY <1>1 DEF Target
<1>6. comp # Bootloader /\ slot' = Target => active' = origin'
  BY <1>1, <1>2, OriginOrTarget DEF TypeOK
<1>7. WrittenInv'
  BY <1>1, <1>4, <1>5, <1>6 DEF WrittenInv
<1>8. QED
  BY <1>3, <1>7

(* A chunk that fails leads to an abort. *)
LEMMA ChunkInv ==
  ASSUME TypeOK, SessionInv, WrittenInv, Chunk
  PROVE  SessionInv' /\ ComponentInv' /\ WrittenInv'
<1>1. /\ pc = "chunk" /\ Programming /\ session.state = "transferring"
      /\ lost' = lost
      /\ UNCHANGED <<comp, slot, plan, update, origin, want, mode, active,
                     face, bootloader>>
  BY RunsStep DEF Chunk, Answered, Accepts, Programming, Received, call, store
<1>2. PICK n \in 0..MaxReceived : Received(n)
  BY <1>1, RunsStep DEF Chunk, Answered
<1>3. /\ session'.state = session.state /\ session'.comp = session.comp
      /\ session'.slot = session.slot /\ session'.image = session.image
  BY <1>2 DEF Received, TypeOK, Sessions
<1>4. CASE pc' = "abort" \/ (pc' = "returned" /\ ok' = FALSE)
  BY <1>1, <1>4, FailedInv DEF Chunk, Failed, Goto, Aborts
<1>5. CASE pc' \in {"chunk", "commit"}
  <2>1. SessionInv' /\ ComponentInv'
    BY <1>1, <1>3, <1>5 DEF SessionInv, AtRest, OwnSession, ComponentInv
  <2>2. WrittenInv'
    BY <1>1, <1>5, SameWritten DEF WrittenInv, Target, Programming
  <2>3. QED
    BY <2>1, <2>2
<1>6. QED
  BY <1>4, <1>5, FailedSteps DEF Chunk, Goto

(* Writing one component leaves those before it. *)
LEMMA WrittenBefore ==
  ASSUME TypeOK, NEW image, Written(image), session.comp \in Components,
         session.comp = comp, session.slot \in Faces,
         UNCHANGED <<plan, update, origin, comp>>,
         WrittenTo(comp - 1)
  PROVE  /\ WrittenTo(comp - 1)'
         /\ image = update /\ session.slot = Target => WrittenTo(comp)'
<1>1. /\ face' = [face EXCEPT ![session.slot] =
                    [face[session.slot] EXCEPT ![comp] = image]]
      /\ bootloader' = bootloader
  BY DEF Written, Components, Bootloader
<1>2. /\ Target' = Target /\ Target \in Faces
      /\ face \in [Faces -> [Components -> Images]] /\ comp \in Int
  BY OriginOrTarget, UpdateAssumption DEF Target, TypeOK, Components
<1>3. \A c \in Components : c # comp => face'[Target][c] = face[Target][c]
  BY <1>1, <1>2
<1>4. session.slot = Target => face'[Target][comp] = image
  BY <1>1, <1>2
<1>5. \A c \in Components : c \in Int
  BY UpdateAssumption DEF Components
<1>6. WrittenTo(comp - 1)'
  BY <1>1, <1>2, <1>3, <1>5 DEF WrittenTo
<1>7. QED
  BY <1>1, <1>2, <1>3, <1>4, <1>5, <1>6 DEF WrittenTo

(* What the session is when the SDK commits it, and when it has. *)
LEMMA CommitEffect ==
  ASSUME TypeOK, SessionInv, Commit
  PROVE  /\ pc = "commit" /\ Programming /\ session.state = "transferring"
         /\ OwnSession /\ pc' = "wait" /\ lost' = lost /\ Committed
         /\ UNCHANGED <<comp, slot, plan, update, origin, want, mode, active>>
         /\ session'.comp = session.comp /\ session'.slot = session.slot
         /\ session'.image = session.image
         /\ session'.state \in {"writing", "error"}
<1>1. pc = "commit" /\ Accepts(pc) /\ Committed
  BY RunsStep DEF Commit, Answered
<1>2. /\ session'.comp = session.comp /\ session'.slot = session.slot
      /\ session'.image = session.image
      /\ session'.state \in {"writing", "error"}
  BY <1>1 DEF Committed, TypeOK, Sessions
<1>3. Programming /\ session.state = "transferring" /\ OwnSession
  BY <1>1 DEF Accepts, Programming, SessionInv
<1>4. QED
  BY <1>1, <1>2, <1>3 DEF Commit, Answered, Committed, Goto, transfer, call

(* The write of a component does not touch those before it. *)
LEMMA CommitInv ==
  ASSUME TypeOK, SessionInv, WrittenInv, Commit
  PROVE  SessionInv' /\ ComponentInv' /\ WrittenInv'
<1> USE CommitEffect
<1>1. SessionInv' /\ ComponentInv'
  BY DEF SessionInv, AtRest, OwnSession, ComponentInv
<1>2. comp # Bootloader /\ slot = Target =>
        WrittenTo(comp - 1)' /\ active = origin
  <2> SUFFICES ASSUME comp # Bootloader, slot = Target
               PROVE  WrittenTo(comp - 1)' /\ active = origin
    OBVIOUS
  <2>1. WrittenTo(comp - 1) /\ active = origin
    BY DEF WrittenInv
  <2>2. CASE session.clean
    <3>1. Written(Torn)
      BY <2>2 DEF Committed
    <3>2. session.comp = comp /\ session.comp \in Components
            /\ session.slot \in Faces
      BY DEF OwnSession, TypeOK, Sessions
    <3>3. QED
      BY <2>1, <3>1, <3>2, WrittenBefore
  <2>3. CASE ~session.clean
    <3>1. UNCHANGED <<face, bootloader>>
      BY <2>3 DEF Committed
    <3>2. QED
      BY <2>1, <3>1, SameWritten
  <2>4. QED
    BY <2>1, <2>2, <2>3
<1>3. Target' = Target
  BY DEF Target
<1>4. WrittenInv'
  BY <1>2, <1>3, OriginOrTarget DEF WrittenInv
<1>5. QED
  BY <1>1, <1>4

(* A session that is stopped is not left open. *)
LEMMA AbortInv ==
  ASSUME TypeOK, SessionInv, Abort
  PROVE  SessionInv' /\ ComponentInv' /\ WrittenInv' /\ OriginInv'
<1>1. Aborted /\ pc' = "returned" /\ ok' = FALSE
  BY RunsStep DEF Abort, Answered, Return
<1>2. session'.state # "transferring"
  BY <1>1 DEF Aborted, NoSession
<1>3. QED
  BY <1>1, <1>2, FailedInv

(* A request that is refused, or a wait that ends without success. *)
LEMMA FailInv ==
  ASSUME TypeOK, RadarInv, SessionInv, Refused \/ WaitFails \/ WaitTimesOut
  PROVE  SessionInv' /\ ComponentInv' /\ WrittenInv' /\ OriginInv'
<1>1. Failed /\ session' = session /\ lost' = lost
  BY DEF Refused, WaitFails, WaitTimesOut, Fail, radar
<1>2. ~lost /\ session.state = "transferring" => pc' = "abort"
  <2> SUFFICES ASSUME ~lost, session.state = "transferring"
               PROVE  pc' = "abort"
    OBVIOUS
  <2>1. pc \in {"chunk", "commit", "abort"}
    BY DEF SessionInv
  <2>2. pc # "abort"
    BY <2>1 DEF Refused, WaitFails, WaitTimesOut, Accepts, RadarInv, Programming
  <2>3. QED
    BY <1>1, <2>1, <2>2 DEF Failed, Aborts, Goto
<1>3. QED
  BY <1>1, <1>2, FailedSteps, FailedInv

(* When the radar is idle again, the component is where it should be. *)
LEMMA IdleInv ==
  ASSUME TypeOK, SessionInv, ComponentInv, WrittenInv, Idle
  PROVE  SessionInv' /\ ComponentInv' /\ WrittenInv'
<1>1. /\ session.state = "idle"
      /\ UNCHANGED <<comp, slot, plan, update, origin, want, session, mode,
                     active, face, bootloader, lost>>
  BY DEF Idle, Settled, transfer, call, radar, store
<1>2. Target' = Target /\ \A n : WrittenTo(n)' = WrittenTo(n)
  BY <1>1, SameWritten DEF Target
<1>3. CASE pc = "settle"
  <2>1. pc' = "confirm"
    BY <1>3 DEF Idle, Goto
  <2>2. QED
    BY <1>1, <1>2, <1>3, <2>1
    DEF SessionInv, AtRest, ComponentInv, WrittenInv, Programming
<1>4. CASE pc = "wait" /\ comp = Bootloader
  <2>1. \/ pc' = "origin" /\ plan.firmware
        \/ pc' = "reboot" /\ ~plan.firmware
        \/ pc' = "returned" /\ ~plan.firmware
    BY <1>4 DEF Idle, Uploaded, Finish, Goto, Return
  <2>2. QED
    BY <1>1, <1>2, <1>4, <2>1
    DEF SessionInv, AtRest, ComponentInv, WrittenInv, Programming
<1>5. CASE pc = "wait" /\ comp # Bootloader /\ slot # Target
  <2>1. pc' = "returned" /\ ok' = FALSE
    BY <1>5 DEF Idle, Uploaded, Return
  <2>2. QED
    BY <1>1, <2>1, FailedInv
<1>6. CASE pc = "wait" /\ comp # Bootloader /\ slot = Target
  <2>1. pc' = IF comp < NComponents THEN "check" ELSE "final"
    BY <1>6 DEF Idle, Uploaded, More, Goto
  <2>2. comp \in Components
    BY <1>6 DEF TypeOK
  <2>3. IF pc' = "check" THEN comp \in 1..(NComponents - 1)
                         ELSE comp = NComponents
    BY <2>1, <2>2, UpdateAssumption DEF Components
  <2>4. QED
    BY <1>1, <1>2, <1>6, <2>1, <2>2, <2>3
    DEF SessionInv, AtRest, ComponentInv, WrittenInv, Programming
<1>7. QED
  BY <1>3, <1>4, <1>5, <1>6 DEF Idle

(* The first component is uploaded with the bootloader written, if it is   *)
(* part of the update.                                                     *)
LEMMA OriginStepInv ==
  ASSUME TypeOK, SessionInv, WrittenInv, Origin
  PROVE  SessionInv' /\ ComponentInv' /\ WrittenInv'
<1>1. /\ pc = "origin" /\ pc' = "start" /\ comp' = 1
      /\ UNCHANGED <<plan, update, session, mode, face, bootloader, lost>>
  BY RunsStep DEF Origin, Answered, Upload, Goto, Queries, radar, store
<1>2. SessionInv' /\ ComponentInv'
  BY <1>1 DEF SessionInv, AtRest, ComponentInv
<1>3. Programming /\ plan.boot => bootloader = update
  BY <1>1 DEF WrittenInv
<1>4. Programming => WrittenTo(comp - 1)'
  BY <1>1, <1>3 DEF WrittenTo, Components
<1>5. WrittenInv'
  BY <1>1, <1>4 DEF WrittenInv, Programming
<1>6. QED
  BY <1>2, <1>5

(* Between two components the marker is left alone, or put back. *)
LEMMA CheckInv ==
  ASSUME TypeOK, SessionInv, ComponentInv, WrittenInv, pc = "check",
         \/ pc' = "switch" /\ want' = origin /\ comp' = comp
         \/ pc' = "start" /\ comp' = comp + 1 /\ want' = want,
         UNCHANGED <<plan, update, origin, radar>>,
         lost' = lost \/ lost' = TRUE
  PROVE  SessionInv' /\ ComponentInv' /\ WrittenInv'
<1>1. /\ session.state = "idle" /\ comp \in 1..(NComponents - 1)
      /\ Programming => WrittenTo(comp)
  BY DEF SessionInv, AtRest, ComponentInv, WrittenInv
<1>2. /\ \A n : WrittenTo(n)' = WrittenTo(n)
      /\ Programming' = Programming /\ Target' = Target /\ session' = session
  BY SameWritten DEF Programming, Target, radar, store
<1>3. CASE pc' = "switch"
  BY <1>1, <1>2, <1>3, OriginOrTarget
  DEF SessionInv, AtRest, ComponentInv, WrittenInv
<1>4. CASE pc' = "start"
  <2>1. comp' - 1 = comp
    BY <1>1, <1>4
  <2>2. Programming => WrittenTo(comp - 1)'
    BY <1>1, <1>2, <2>1
  <2>3. QED
    BY <1>1, <1>2, <1>4, <2>2
    DEF SessionInv, AtRest, ComponentInv, WrittenInv
<1>5. QED
  BY <1>3, <1>4

(* After the last one the marker is moved, unless it has moved. *)
LEMMA FinalInv ==
  ASSUME TypeOK, SessionInv, ComponentInv, WrittenInv, pc = "final",
         \/ pc' = "switch" /\ want' = Target
         \/ active = Target /\ pc' = "reboot"
         \/ active = Target /\ pc' = "returned",
         UNCHANGED <<comp, plan, update, origin, radar>>,
         lost' = lost \/ lost' = TRUE
  PROVE  SessionInv' /\ ComponentInv' /\ WrittenInv'
<1>1. /\ session.state = "idle" /\ comp = NComponents
      /\ Programming \/ active = Target => WrittenTo(comp)
  BY DEF SessionInv, AtRest, ComponentInv, WrittenInv
<1>2. /\ \A n : WrittenTo(n)' = WrittenTo(n)
      /\ Programming' = Programming /\ Target' = Target
      /\ session' = session /\ active' = active
  BY SameWritten DEF Programming, Target, radar, store
<1>3. QED
  BY <1>1, <1>2 DEF SessionInv, AtRest, ComponentInv, WrittenInv

(* The marker moves only when all that has been uploaded is written. *)
LEMMA SwitchSlotInv ==
  ASSUME TypeOK, SessionInv, ComponentInv, WrittenInv, SwitchSlot
  PROVE  SessionInv' /\ ComponentInv' /\ WrittenInv'
<1>1. /\ pc = "switch" /\ pc' = "settle" /\ Programming
      /\ session'.state = "switching" /\ mode' = mode
      /\ UNCHANGED <<comp, plan, update, origin, want, face, bootloader, lost>>
  BY RunsStep DEF SwitchSlot, Answered, Accepts, Programming, Switched,
                  NoSession, Goto, transfer, call
<1>2. (\A n : WrittenTo(n)' = WrittenTo(n)) /\ Target' = Target
  BY <1>1, SameWritten DEF Target
<1>3. QED
  BY <1>1, <1>2 DEF SessionInv, AtRest, ComponentInv, WrittenInv

(* The marker is where the SDK wants it when it goes on. *)
LEMMA ConfirmInv ==
  ASSUME TypeOK, SessionInv, ComponentInv, WrittenInv, Confirm
  PROVE  SessionInv' /\ ComponentInv' /\ WrittenInv'
<1>1. /\ pc = "confirm" /\ session.state = "idle"
      /\ UNCHANGED <<slot, plan, update, origin, want, radar, lost>>
  BY RunsStep DEF Confirm, Answered, Queries, SessionInv, AtRest, call
<1>2. /\ \A n : WrittenTo(n)' = WrittenTo(n)
      /\ Programming' = Programming /\ Target' = Target
      /\ session' = session /\ active' = active
  BY <1>1, SameWritten DEF Programming, Target, radar, store
<1>3. CASE ~Confirmed
  BY <1>1, <1>2, <1>3, FailedInv DEF Confirm, Return
<1>4. CASE Confirmed /\ want = origin
  <2>1. /\ comp \in 1..(NComponents - 1) /\ pc' = "start" /\ comp' = comp + 1
        /\ Programming => WrittenTo(comp)
    BY <1>1, <1>4, OriginOrTarget
    DEF ComponentInv, WrittenInv, Confirm, Upload, Goto
  <2>2. comp' - 1 = comp
    BY <2>1
  <2>3. Programming => WrittenTo(comp - 1)'
    BY <1>2, <2>1, <2>2
  <2>4. QED
    BY <1>1, <1>2, <2>1, <2>3
    DEF SessionInv, AtRest, ComponentInv, WrittenInv
<1>5. CASE Confirmed /\ want # origin
  <2>1. want = Target /\ active = Target
    BY <1>5, OriginOrTarget DEF Confirmed, TypeOK
  <2>2. comp = NComponents /\ WrittenTo(comp)
    BY <1>1, <2>1 DEF ComponentInv, WrittenInv
  <2>3. pc' \in {"reboot", "returned"} /\ comp' = comp
    BY <1>5 DEF Confirm, Finish, Goto, Return
  <2>4. QED
    BY <1>1, <1>2, <2>1, <2>2, <2>3
    DEF SessionInv, AtRest, ComponentInv, WrittenInv
<1>6. QED
  BY <1>3, <1>4, <1>5

(* A reboot, or one that does not reach the radar, moves no marker. *)
LEMMA RebootInv ==
  ASSUME TypeOK, SessionInv, ComponentInv, WrittenInv,
         pc = "reboot", pc' = "returned",
         Restarted \/ UNCHANGED radar,
         UNCHANGED <<comp, plan, update, origin>>
  PROVE  SessionInv' /\ ComponentInv' /\ WrittenInv'
<1>1. session.state = "idle"
  BY DEF SessionInv, AtRest
<1>2. /\ session'.state = "idle"
      /\ UNCHANGED <<active, face, bootloader>>
  BY <1>1 DEF Restarted, NoSession, radar, store
<1>3. /\ \A n : WrittenTo(n)' = WrittenTo(n)
      /\ Target' = Target
  BY <1>2, SameWritten DEF Target
<1>4. QED
  BY <1>1, <1>2, <1>3 DEF SessionInv, AtRest, ComponentInv, WrittenInv

(* A request that gets no answer. *)
LEMMA RequestLostInv ==
  ASSUME TypeOK, SessionInv, ComponentInv, WrittenInv, RequestLost
  PROVE  SessionInv' /\ ComponentInv' /\ WrittenInv'
<1>1. lost' = TRUE /\ (Runs \/ UNCHANGED radar)
  BY DEF RequestLost
<1>2. CASE pc = "check"
  <2>1. UNCHANGED radar
    BY <1>1, <1>2, RunsStep DEF Queries
  <2>2. /\ pc' = "switch" /\ want' = origin
        /\ UNCHANGED <<comp, plan, update, origin>>
    BY <1>2 DEF RequestLost, Switch, Goto, transfer
  <2>3. QED
    BY <1>1, <1>2, <2>1, <2>2, CheckInv
<1>3. CASE pc = "final"
  <2>1. UNCHANGED radar
    BY <1>1, <1>3, RunsStep DEF Queries
  <2>2. /\ pc' = "switch" /\ want' = Target
        /\ UNCHANGED <<comp, plan, update, origin>>
    BY <1>3 DEF RequestLost, Switch, Goto, transfer
  <2>3. QED
    BY <1>1, <1>3, <2>1, <2>2, FinalInv
<1>4. CASE pc = "reboot"
  <2>1. Restarted \/ UNCHANGED radar
    BY <1>1, <1>4, RunsStep
  <2>2. pc' = "returned" /\ UNCHANGED <<comp, plan, update, origin>>
    BY <1>4 DEF RequestLost, Return, transfer, call
  <2>3. QED
    BY <1>4, <2>1, <2>2, RebootInv
<1>5. CASE pc \notin {"check", "final", "reboot"}
  BY <1>1, <1>5, FailedSteps, FailedInv DEF RequestLost, Fail
<1>6. QED
  BY <1>2, <1>3, <1>4, <1>5

(* Every step of the SDK keeps the invariant. *)
LEMMA SdkStepInv ==
  ASSUME TypeOK, RadarInv, SessionInv, ComponentInv, WrittenInv, SdkStep
  PROVE  SessionInv' /\ ComponentInv' /\ WrittenInv'
<1>1. CASE GetMode \/ EnterDiagnostic \/ EnterProgramming
  BY <1>1, ModeStepInv
<1>2. CASE Start \/ Chunk \/ Commit \/ Abort \/ Idle
  BY <1>2, StartInv, ChunkInv, CommitInv, AbortInv, IdleInv
<1>3. CASE WaitFails \/ WaitTimesOut \/ Refused
  BY <1>3, FailInv
<1>4. CASE Origin \/ SwitchSlot \/ Confirm \/ RequestLost
  BY <1>4, OriginStepInv, SwitchSlotInv, ConfirmInv, RequestLostInv
<1>5. CASE Check
  <2>1. /\ pc = "check" /\ lost' = lost /\ UNCHANGED <<plan, update, origin>>
        /\ UNCHANGED radar
    BY <1>5, RunsStep DEF Check, Answered, Queries
  <2>2. \/ pc' = "switch" /\ want' = origin /\ comp' = comp
        \/ pc' = "start" /\ comp' = comp + 1 /\ want' = want
    BY <1>5 DEF Check, Switch, Upload, Goto
  <2>3. QED
    BY <2>1, <2>2, CheckInv
<1>6. CASE Final
  <2>1. /\ pc = "final" /\ lost' = lost
        /\ UNCHANGED <<comp, plan, update, origin>> /\ UNCHANGED radar
    BY <1>6, RunsStep DEF Final, Answered, Queries, transfer
  <2>2. \/ pc' = "switch" /\ want' = Target
        \/ active = Target /\ pc' = "reboot"
        \/ active = Target /\ pc' = "returned"
    BY <1>6 DEF Final, Switch, Finish, Goto, Return
  <2>3. QED
    BY <2>1, <2>2, FinalInv
<1>7. CASE Reboot
  <2>1. /\ pc = "reboot" /\ pc' = "returned" /\ Restarted
        /\ UNCHANGED <<comp, plan, update, origin>>
    BY <1>7, RunsStep DEF Reboot, Answered, Return, transfer, call
  <2>2. QED
    BY <2>1, RebootInv
<1>8. QED
  BY <1>1, <1>2, <1>3, <1>4, <1>5, <1>6, <1>7 DEF SdkStep

(* The write of the last component that was sent comes to its end. *)
LEMMA WriteEndsInv ==
  ASSUME TypeOK, RadarInv, SessionInv, ComponentInv, WrittenInv, WriteEnds
  PROVE  SessionInv' /\ ComponentInv' /\ WrittenInv'
<1>1. /\ session.state = "writing" /\ Programming /\ ~AtRest
      /\ pc \notin {"settle", "chunk", "commit"}
  BY DEF WriteEnds, RadarInv, SessionInv
<1>2. UNCHANGED <<pc, comp, slot, plan, update, origin, want, ok, mode, lost>>
  BY DEF WriteEnds, sdk, transfer, call
<1>3. session'.state \in {"idle", "error"}
  BY DEF WriteEnds, NoSession, TypeOK, Sessions
<1>4. SessionInv' /\ ComponentInv'
  BY <1>1, <1>2, <1>3 DEF SessionInv, AtRest, ComponentInv, Target
<1>5. CASE pc = "start" /\ comp # Bootloader
  <2>1. comp = 1 /\ ~plan.boot
    BY <1>1, <1>5 DEF AtRest
  <2>2. WrittenTo(comp - 1)'
    BY <1>2, <2>1, UpdateAssumption DEF WrittenTo, Components
  <2>3. QED
    BY <1>2, <1>4, <1>5, <2>2 DEF WrittenInv
<1>6. CASE pc = "wait" /\ comp = Bootloader
  <2>1. session.comp = Bootloader /\ session.image = update
    BY <1>1, <1>6 DEF SessionInv, OwnSession
  <2>2. session'.state = "idle" => bootloader' = update
    BY <1>1, <2>1 DEF WriteEnds, Written, TypeOK, Sessions
  <2>3. QED
    BY <1>2, <1>4, <1>6, <2>2 DEF WrittenInv
<1>7. CASE pc = "wait" /\ comp # Bootloader /\ slot = Target
  <2>1. /\ session.comp = comp /\ session.slot = Target
        /\ session.image = update /\ session.comp \in Components
        /\ session.slot \in Faces
    BY <1>1, <1>7 DEF SessionInv, OwnSession, TypeOK
  <2>2. WrittenTo(comp - 1) /\ active # Target
    BY <1>1, <1>7 DEF WrittenInv
  <2>3. Target' = Target
    BY <1>2 DEF Target
  <2>4. CASE Written(session.image) /\ session' = NoSession
    <3>1. WrittenTo(comp - 1)' /\ WrittenTo(comp)'
      BY <1>2, <2>1, <2>2, <2>4, WrittenBefore
    <3>2. session'.state = "idle"
      BY <2>4 DEF NoSession
    <3>3. QED
      BY <1>2, <1>4, <1>7, <3>1, <3>2 DEF WrittenInv
  <2>5. CASE session' = [session EXCEPT !.state = "error"] /\ UNCHANGED store
    <3>1. session'.state = "error" /\ UNCHANGED <<active, face, bootloader>>
      BY <2>5 DEF TypeOK, Sessions, store
    <3>2. WrittenTo(comp - 1)'
      BY <1>2, <2>2, <3>1, SameWritten
    <3>3. QED
      BY <1>2, <1>4, <1>7, <2>2, <2>3, <3>1, <3>2 DEF WrittenInv
  <2>6. QED
    BY <2>4, <2>5 DEF WriteEnds
<1>8. CASE ~(pc = "start" /\ comp # Bootloader)
             /\ ~(pc = "wait" /\ (comp = Bootloader \/ slot = Target))
  <2>1. Target' = Target
    BY <1>2 DEF Target
  <2>2. QED
    BY <1>1, <1>2, <1>4, <1>8, <2>1 DEF WrittenInv, AtRest
<1>9. QED
  BY <1>5, <1>6, <1>7, <1>8

(* A switch that ends, a transfer that is dropped, and a restart. *)
LEMMA RadarStepInv ==
  ASSUME TypeOK, RadarInv, SessionInv, ComponentInv, WrittenInv, RadarStep
  PROVE  SessionInv' /\ ComponentInv' /\ WrittenInv'
<1>1. CASE SwitchEnds \/ SessionDropped
  <2>1. /\ session.state \in {"switching", "transferring"}
        /\ session'.state = "idle"
        /\ UNCHANGED <<pc, comp, slot, plan, update, origin, want, ok, mode,
                       active, face, bootloader, lost>>
    BY <1>1 DEF SwitchEnds, SessionDropped, NoSession, sdk, transfer, call,
                store
  <2>2. /\ \A n : WrittenTo(n)' = WrittenTo(n)
        /\ Target' = Target /\ Programming' = Programming
    BY <2>1, SameWritten DEF Target, Programming
  <2>3. pc # "wait"
    BY <2>1 DEF SessionInv
  <2>4. QED
    BY <2>1, <2>2, <2>3 DEF SessionInv, AtRest, ComponentInv, WrittenInv
<1>2. CASE PowerLost
  <2>1. /\ session'.state = "idle" /\ ~Programming'
        /\ session.state # "switching" => active' = active
        /\ UNCHANGED <<pc, comp, slot, plan, update, origin, want, ok,
                       face, bootloader, lost>>
    BY <1>2 DEF PowerLost, Restarted, NoSession, Programming, sdk, transfer,
                call
  <2>2. (\A n : WrittenTo(n)' = WrittenTo(n)) /\ Target' = Target
    BY <2>1, SameWritten DEF Target
  <2>3. pc \in {"chunk", "commit", "wait", "final", "reboot"}
          \/ (pc = "returned" /\ ok) => active' = active
    BY <2>1 DEF SessionInv, AtRest
  <2>4. QED
    BY <2>1, <2>2, <2>3 DEF SessionInv, AtRest, ComponentInv, WrittenInv
<1>3. QED
  BY <1>1, <1>2, WriteEndsInv DEF RadarStep

-----------------------------------------------------------------------------
(* The faces.  The rest of the invariant is that of a radar that moves its *)
(* marker when it is told to.                                              *)

(* A step that neither moves the marker nor begins anew. *)
LEMMA OriginKept ==
  ASSUME OriginInv, UNCHANGED <<legacy, comp, origin, want>>,
         legacy \/ active' = active, Programming' => Programming,
         pc' \in {"start", "chunk", "commit", "wait", "check", "final",
                 "switch"} =>
           pc \in {"start", "chunk", "commit", "wait", "check", "final",
                  "switch"},
         pc' \in {"switch", "settle", "confirm"} =>
           pc \in {"switch", "settle", "confirm"}
  PROVE  OriginInv'
<1>1. Target' = Target
  BY DEF Target
<1>2. QED
  BY <1>1 DEF OriginInv

(* No step of the SDK asks for the marker of a radar to be put back. *)
LEMMA SdkStepOrigin ==
  ASSUME TypeOK, RadarInv, SessionInv, ComponentInv, WrittenInv, OriginInv,
         "check" \notin Unreliable, SdkStep
  PROVE  OriginInv'
<1> USE RunsStep, SdkStepRadar
<1>1. CASE GetMode \/ EnterDiagnostic \/ EnterProgramming
  BY <1>1, ModeStepInv
<1>2. CASE Abort \/ WaitFails \/ WaitTimesOut \/ Refused
  BY <1>2, AbortInv, FailInv
<1>3. CASE Start
  BY <1>3, OriginKept
  DEF Start, Answered, Started, Goto, Programming, call, store
<1>4. CASE Chunk
  <2>1. UNCHANGED <<mode, active>>
    BY <1>4 DEF Chunk, Answered, Received, store
  <2>2. pc' \in {"chunk", "commit", "abort", "returned"} /\ pc = "chunk"
    BY <1>4, FailedSteps DEF Chunk, Answered, Goto
  <2>3. QED
    BY <1>4, <2>1, <2>2, OriginKept DEF Chunk, Programming, call
<1>5. CASE Commit
  BY <1>5, OriginKept
  DEF Commit, Answered, Committed, Goto, Programming, call, transfer
<1>6. CASE Idle
  <2>1. UNCHANGED <<mode, active, comp, origin, want>>
    BY <1>6 DEF Idle, radar, store, call, transfer
  <2>2. CASE pc = "settle"
    BY <1>6, <2>1, <2>2, OriginKept DEF Idle, Goto, Programming
  <2>3. CASE pc = "wait"
    <3>1. pc' \in {"origin", "reboot", "returned", "check", "final"}
      BY <1>6, <2>3
      DEF Idle, Uploaded, Finish, Goto, Return
    <3>2. QED
      BY <2>1, <2>3, <3>1, OriginKept DEF Programming
  <2>4. QED
    BY <1>6, <2>2, <2>3 DEF Idle
<1>7. CASE Origin
  BY <1>7
  DEF Origin, Answered, Queries, Upload, Goto, OriginInv, radar, store
<1>8. CASE Check
  <2>1. /\ pc = "check" /\ UNCHANGED <<mode, active, origin>>
        /\ comp # Bootloader
    BY <1>8 DEF Check, Answered, Queries, radar, store, ComponentInv, Bootloader
  <2>2. CASE active = origin
    <3>1. pc' = "start"
      BY <1>8, <2>2 DEF Check, Upload, Goto
    <3>2. QED
      BY <2>1, <2>2, <3>1 DEF OriginInv
  <2>3. CASE active # origin
    <3>1. legacy \/ ~Programming
      BY <2>1, <2>3 DEF OriginInv
    <3>2. QED
      BY <2>1, <3>1 DEF OriginInv, Programming
  <2>4. QED
    BY <2>2, <2>3
<1>9. CASE Final
  <2>1. /\ pc = "final" /\ UNCHANGED <<mode, active, origin, comp>>
    BY <1>9 DEF Final, Answered, Queries, radar, store, transfer
  <2>2. pc' \in {"switch", "reboot", "returned"}
          /\ (pc' = "switch" => want' = Target)
    BY <1>9 DEF Final, Switch, Finish, Goto, Return
  <2>3. QED
    BY <2>1, <2>2 DEF OriginInv, Programming, Target
<1>10. CASE SwitchSlot
  BY <1>10
  DEF SwitchSlot, Answered, Switched, Goto, OriginInv, Programming, call,
      transfer, Target
<1>11. CASE Confirm
  <2>1. pc = "confirm" /\ UNCHANGED <<mode, active, origin, want>>
    BY <1>11 DEF Confirm, Answered, Queries, radar, store, call
  <2>2. CASE want = origin
    <3>1. legacy \/ ~Programming
      BY <2>1, <2>2, OriginOrTarget DEF OriginInv
    <3>2. QED
      BY <2>1, <3>1 DEF OriginInv, Programming
  <2>3. CASE want # origin
    <3>1. pc' \in {"returned", "reboot"}
      BY <1>11, <2>3 DEF Confirm, Finish, Goto, Return
    <3>2. QED
      BY <3>1 DEF OriginInv
  <2>4. QED
    BY <2>2, <2>3
<1>12. CASE Reboot
  BY <1>12 DEF Reboot, Return, OriginInv
<1>13. CASE RequestLost
  <2>1. pc # "check"
    BY <1>13 DEF RequestLost
  <2>2. CASE pc = "final"
    <3>1. /\ UNCHANGED <<mode, active, origin, comp>>
          /\ pc' = "switch" /\ want' = Target
      BY <1>13, <2>2
      DEF RequestLost, Queries, radar, store, Switch, Goto, transfer
    <3>2. QED
      BY <2>2, <3>1 DEF OriginInv, Programming, Target
  <2>3. CASE pc # "final"
    <3>1. pc' \in {"returned", "abort"}
      BY <1>13, <2>1, <2>3, FailedSteps DEF RequestLost, Return, Fail
    <3>2. QED
      BY <3>1 DEF OriginInv
  <2>4. QED
    BY <2>2, <2>3
<1>14. QED
  BY <1>1, <1>2, <1>3, <1>4, <1>5, <1>6, <1>7, <1>8, <1>9, <1>10, <1>11,
     <1>12, <1>13 DEF SdkStep

(* Nor does any other step. *)
LEMMA NextOrigin ==
  ASSUME TypeOK, RadarInv, SessionInv, ComponentInv, WrittenInv, OriginInv,
         "check" \notin Unreliable, [Next]_vars
  PROVE  OriginInv'
<1>1. CASE UNCHANGED vars
  BY <1>1, OriginKept
  DEF vars, sdk, transfer, call, radar, store, Programming
<1>2. CASE RadarStep
  <2>1. UNCHANGED <<pc, comp, origin, want, legacy>>
    BY <1>2 DEF RadarStep, WriteEnds, SwitchEnds, SessionDropped, PowerLost,
                sdk, transfer, call
  <2>2. CASE PowerLost
    BY <2>2 DEF PowerLost, Restarted, OriginInv, Programming
  <2>3. CASE WriteEnds \/ SwitchEnds \/ SessionDropped
    <3>1. mode' = mode /\ (legacy \/ active' = active)
      BY <2>3 DEF WriteEnds, SwitchEnds, SessionDropped, store, TypeOK
    <3>2. QED
      BY <2>1, <3>1, OriginKept DEF Programming
  <2>4. QED
    BY <1>2, <2>2, <2>3 DEF RadarStep
<1>3. QED
  BY <1>1, <1>2, SdkStepOrigin, UpdateStepInv DEF Next

(* A face is as whole as it was when nothing is written to it. *)
LEMMA WholeKept ==
  /\ face'[active'] = face[active] /\ Whole(active) => Whole(active)'
  /\ face'[active'] = face["A"] /\ Whole("A") => Whole(active)'
  /\ face'[active'] = face["B"] /\ Whole("B") => Whole(active)'
  /\ face' = face /\ Whole("A") /\ Whole("B") => Whole("A")' /\ Whole("B")'
BY DEF Whole, Holds

(* What is written to the session's face leaves the face that is marked. *)
LEMMA MarkedFaceKept ==
  ASSUME TypeOK, RadarInv, NEW image, Written(image),
         session.state \in {"transferring", "writing"}
  PROVE  face'[active] = face[active]
<1>1. CASE session.comp = Bootloader
  BY <1>1 DEF Written
<1>2. CASE session.comp # Bootloader
  <2>1. session.slot # active
    BY <1>2, OtherFace DEF RadarInv, TypeOK
  <2>2. QED
    BY <1>2, <2>1 DEF Written, TypeOK
<1>3. QED
  BY <1>1, <1>2

(* The marker moves from a face that is whole to one that is. *)
LEMMA SwitchedWhole ==
  ASSUME TypeOK, SessionInv, ComponentInv, WrittenInv, OriginInv, MarkerInv,
         ~legacy, pc = "switch", Programming
  PROVE  Whole("A") /\ Whole("B")
<1>1. /\ want = Target /\ comp = NComponents /\ WrittenTo(comp)
  BY DEF ComponentInv, WrittenInv, OriginInv
<1>2. active = origin
  BY <1>1, UpdateAssumption DEF OriginInv, Bootloader
<1>3. Whole(Target)
  <2>1. \A c \in Components : c <= NComponents
    BY UpdateAssumption DEF Components
  <2>2. \A c \in Components : face[Target][c] = update
    BY <1>1, <2>1 DEF WrittenTo
  <2>3. QED
    BY <2>2 DEF Whole, Holds, TypeOK
<1>4. Whole(active)
  BY DEF MarkerInv
<1>5. QED
  BY <1>2, <1>3, <1>4, OriginOrTarget DEF Faces

(* A request leaves the marked face whole. *)
LEMMA RunsMarker ==
  ASSUME TypeOK, RadarInv, SessionInv, ComponentInv, WrittenInv, OriginInv,
         MarkerInv, Runs, legacy' = legacy
  PROVE  MarkerInv'
<1> USE RunsStep DEF store
<1> SUFFICES ASSUME ~legacy
             PROVE  /\ Whole(active)'
                    /\ session'.state = "switching" =>
                         Whole("A")' /\ Whole("B")'
  BY DEF MarkerInv
<1>1. /\ Whole(active) /\ active \in Faces
      /\ session.state = "switching" => Whole("A") /\ Whole("B")
  BY DEF MarkerInv, TypeOK
<1>2. CASE pc \in {"diagnostic", "programming"} \/ pc \in Queries
  <2>1. UNCHANGED <<session, active, face>>
    BY <1>2 DEF SetMode, radar
  <2>2. QED
    BY <1>1, <2>1, WholeKept
<1>3. CASE pc \in {"start", "chunk", "abort"}
  <2>1. /\ UNCHANGED <<active, face>>
        /\ session'.state = "switching" => session.state = "switching"
    <3>1. CASE pc = "start"
      BY <3>1 DEF Started, NoSession
    <3>2. CASE pc = "chunk"
      BY <3>2 DEF Received, TypeOK, Sessions
    <3>3. CASE pc = "abort"
      BY <3>3 DEF Aborted, NoSession
    <3>4. QED
      BY <1>3, <3>1, <3>2, <3>3
  <2>2. QED
    BY <1>1, <2>1, WholeKept
<1>4. CASE pc = "commit"
  <2>1. /\ session.state = "transferring" /\ active' = active
        /\ session'.state # "switching"
    BY <1>4 DEF Accepts, Committed, TypeOK, Sessions
  <2>2. Written(Torn) \/ UNCHANGED face
    BY <1>4 DEF Committed
  <2>3. face'[active] = face[active]
    BY <2>1, <2>2, MarkedFaceKept
  <2>4. QED
    BY <1>1, <2>1, <2>3, WholeKept
<1>5. CASE pc = "switch"
  <2>1. Programming /\ face' = face /\ active' \in Faces
    BY <1>1, <1>5, OtherFace DEF Accepts, Programming, Switched
  <2>2. Whole("A") /\ Whole("B")
    BY <1>5, <2>1, SwitchedWhole
  <2>3. QED
    BY <2>1, <2>2, WholeKept DEF Faces
<1>6. CASE pc = "reboot"
  <2>1. /\ UNCHANGED face /\ session'.state # "switching"
        /\ session.state # "switching" => active' = active
    BY <1>6 DEF Restarted, NoSession
  <2>2. session.state = "idle"
    BY <1>6 DEF SessionInv, AtRest
  <2>3. QED
    BY <1>1, <2>1, <2>2, WholeKept
<1>7. QED
  BY <1>2, <1>3, <1>4, <1>5, <1>6 DEF Runs

(* So does whatever the radar does by itself. *)
LEMMA RadarStepMarker ==
  ASSUME TypeOK, RadarInv, MarkerInv, RadarStep
  PROVE  MarkerInv'
<1> SUFFICES ASSUME ~legacy
             PROVE  /\ Whole(active)'
                    /\ session'.state = "switching" =>
                         Whole("A")' /\ Whole("B")'
  BY DEF MarkerInv, RadarStep, WriteEnds, SwitchEnds, SessionDropped, PowerLost
<1>1. /\ Whole(active) /\ active \in Faces
      /\ session.state = "switching" => Whole("A") /\ Whole("B")
  BY DEF MarkerInv, TypeOK
<1>2. CASE WriteEnds
  <2>1. /\ session.state = "writing" /\ active' = active
        /\ session'.state # "switching"
    BY <1>2 DEF WriteEnds, NoSession, store, TypeOK, Sessions
  <2>2. Written(session.image) \/ UNCHANGED face
    BY <1>2 DEF WriteEnds, store
  <2>3. face'[active] = face[active]
    BY <2>1, <2>2, MarkedFaceKept
  <2>4. QED
    BY <1>1, <2>1, <2>3, WholeKept
<1>3. CASE SwitchEnds \/ SessionDropped
  <2>1. UNCHANGED <<active, face>> /\ session'.state # "switching"
    BY <1>3 DEF SwitchEnds, SessionDropped, NoSession, store
  <2>2. QED
    BY <1>1, <2>1, WholeKept
<1>4. CASE PowerLost
  <2>1. /\ UNCHANGED face /\ session'.state # "switching"
        /\ session.state # "switching" => active' = active
        /\ active' \in Faces
    BY <1>1, <1>4, OtherFace DEF PowerLost, Restarted, NoSession
  <2>2. QED
    BY <1>1, <2>1, WholeKept DEF Faces
<1>5. QED
  BY <1>2, <1>3, <1>4 DEF RadarStep

(* So does every step. *)
LEMMA NextMarker ==
  ASSUME TypeOK, RadarInv, SessionInv, ComponentInv, WrittenInv, OriginInv,
         MarkerInv, [Next]_vars
  PROVE  MarkerInv'
<1>1. CASE UNCHANGED <<radar, legacy>>
  BY <1>1, WholeKept DEF MarkerInv, radar, store
<1>2. CASE SdkStep
  BY <1>1, <1>2, SdkStepRadar, RunsMarker
<1>3. CASE \E p \in Plans : Update(p)
  BY <1>1, <1>3 DEF Update
<1>4. QED
  BY <1>1, <1>2, <1>3, RadarStepMarker DEF Next, vars

-----------------------------------------------------------------------------
(* The theorems *)

(* The invariant holds in the beginning. *)
LEMMA InitInv == Init => UpdateInv
<1>1. Init => TypeOK
  BY InitTypes
<1>2. Init => RadarInv /\ SessionInv /\ ComponentInv /\ WrittenInv
  BY DEF Init, NoSession, RadarInv, SessionInv, AtRest, ComponentInv,
         WrittenInv, Programming
<1>3. QED
  BY <1>1, <1>2 DEF UpdateInv

(* Every step keeps the invariant. *)
LEMMA NextInv == UpdateInv /\ [Next]_vars => UpdateInv'
<1> SUFFICES ASSUME UpdateInv, [Next]_vars
             PROVE  UpdateInv'
  OBVIOUS
<1>1. TypeOK /\ RadarInv /\ SessionInv /\ ComponentInv /\ WrittenInv
  BY DEF UpdateInv
<1>2. TypeOK' /\ RadarInv'
  BY <1>1, NextTypes, NextRadarInv
<1>3. SessionInv' /\ ComponentInv' /\ WrittenInv'
  <2>1. CASE UNCHANGED vars
    <3>1. UNCHANGED <<pc, comp, slot, plan, update, origin, want, ok, mode,
                      session, active, face, bootloader, lost>>
      BY <2>1 DEF vars, sdk, transfer, call, radar, store
    <3>2. /\ \A n : WrittenTo(n)' = WrittenTo(n)
          /\ Target' = Target /\ Programming' = Programming
      BY <3>1, SameWritten DEF Target, Programming
    <3>3. QED
      BY <1>1, <3>1, <3>2
      DEF SessionInv, AtRest, OwnSession, ComponentInv, WrittenInv
  <2>2. QED
    BY <1>1, <2>1, UpdateStepInv, SdkStepInv, RadarStepInv DEF Next
<1>4. QED
  BY <1>2, <1>3 DEF UpdateInv

(* The variables have the types TypeOK gives them, for every number of     *)
(* components, size of image and chunk, and whatever requests are lost.    *)
THEOREM UpdateTypeCorrect == Spec => []TypeOK
<1>1. UpdateInv => TypeOK
  BY DEF UpdateInv
<1>2. QED
  BY <1>1, InitInv, NextInv, PTL DEF Spec

(* FirmwareUpdateReboot is sent only while the session is idle, though the *)
(* last look at it may be several requests back (firmware.py, step 5).     *)
THEOREM RebootsWhileIdle == Spec => []RebootWhileIdle
<1>1. UpdateInv => RebootWhileIdle
  BY DEF UpdateInv, SessionInv, AtRest, RebootWhileIdle
<1>2. QED
  BY <1>1, InitInv, NextInv, PTL DEF Spec

(* A failed update leaves no transfer open, unless the network lost a      *)
(* request (firmware.py, upload_component's abort on every failure).       *)
THEOREM LeavesNoTransferOpen == Spec => []NoTransferLeftOpen
<1>1. UpdateInv => NoTransferLeftOpen
  BY DEF UpdateInv, SessionInv, NoTransferLeftOpen
<1>2. QED
  BY <1>1, InitInv, NextInv, PTL DEF Spec

(* An update that reports success has written every image, and the radar   *)
(* boots them, whatever requests are lost and whenever the radar restarts. *)
THEOREM OkMeansWrittenHolds == Spec => []OkMeansWritten
<1>1. UpdateInv => OkMeansWritten
  <2> SUFFICES ASSUME UpdateInv, pc = "returned", ok, plan.firmware
               PROVE  /\ Holds(Target, update) /\ active = Target
                      /\ plan.boot => bootloader = update
    BY DEF OkMeansWritten
  <2>1. WrittenTo(NComponents) /\ active = Target
    BY DEF UpdateInv, WrittenInv
  <2>2. \A c \in Components : c <= NComponents
    BY UpdateAssumption DEF Components
  <2>3. QED
    BY <2>1, <2>2 DEF WrittenTo, Holds
<1>2. QED
  BY <1>1, InitInv, NextInv, PTL DEF Spec

(* The radar always boots a face that holds all images of one set, at      *)
(* whatever step an update is and wherever it or the radar stopped         *)
(* (firmware.py, "a mix of old and new images").  GetBootInfo between two  *)
(* components must not be lost: the run switch_mid_set shows why.          *)
THEOREM ActiveFaceStaysWhole ==
  ASSUME "check" \notin Unreliable
  PROVE  Spec => []ActiveFaceWhole
<1>1. Init => FaceInv
  <2> SUFFICES ASSUME Init
               PROVE  FaceInv
    OBVIOUS
  <2>1. UpdateInv
    BY InitInv
  <2>2. \A f \in Faces : Whole(f)
    BY UpdateAssumption DEF Init, Whole, Holds
  <2>3. MarkerInv /\ OriginInv
    BY <2>2 DEF Init, MarkerInv, OriginInv, Faces
  <2>4. QED
    BY <2>1, <2>3 DEF FaceInv
<1>2. FaceInv /\ [Next]_vars => FaceInv'
  BY NextInv, NextOrigin, NextMarker DEF FaceInv, UpdateInv
<1>3. FaceInv => ActiveFaceWhole
  BY DEF FaceInv, MarkerInv, Whole, ActiveFaceWhole
<1>4. QED
  BY <1>1, <1>2, <1>3, PTL DEF Spec
=============================================================================
