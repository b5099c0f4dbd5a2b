------------------------- MODULE ConfigClientProofs -------------------------
(***************************************************************************)
(* Proofs about ConfigClient, for every set of threads and every number of *)
(* calls.                                                                  *)
(***************************************************************************)
EXTENDS ConfigClient, TLAPS

-----------------------------------------------------------------------------
(* The operators on settings *)

(* What Over does: f where it is defined, g elsewhere. *)
LEMMA OverDef ==
  ASSUME NEW f, NEW g
  PROVE  /\ DOMAIN Over(f, g) = DOMAIN f \cup DOMAIN g
         /\ \A s \in DOMAIN f : Over(f, g)[s] = f[s]
         /\ \A s \in (DOMAIN g) \ (DOMAIN f) : Over(f, g)[s] = g[s]
BY DEF Over

(* What Only does: one value for all members. *)
LEMMA OnlyDef ==
  ASSUME NEW S, NEW v
  PROVE  /\ DOMAIN Only(S, v) = S
         /\ \A s \in S : Only(S, v)[s] = v
BY DEF Only

Shape(r) ==
  /\ DOMAIN r = {"mode", "stored", "running"}
  /\ DOMAIN r.stored = Settings /\ DOMAIN r.running = Range \cup Ptp

(* The transfer is not one of the settings of the configuration. *)
LEMMA SettingNames ==
  /\ "session" \in Settings /\ "session" \notin Config
  /\ "face" \in Settings /\ "face" \notin Config
  /\ Range \cup Ptp \subseteq Settings /\ Config \subseteq Settings
  /\ \A s \in Settings : s # "mode" /\ s # "active" /\ s # "crc32"
BY DEF Settings, Config, Boot, Session, Network, StreamKinds, Protocols,
       ProtocolOf, Threshold, Filters, Ptp, Mounting, Rotation, Position, Range

(* Settings that are set over all the settings there are. *)
LEMMA OverSettings ==
  ASSUME NEW f, NEW g, DOMAIN f \subseteq Settings, DOMAIN g = Settings
  PROVE  /\ DOMAIN Over(f, g) = Settings
         /\ \A s \in DOMAIN f : Over(f, g)[s] = f[s]
         /\ \A s \in Settings \ DOMAIN f : Over(f, g)[s] = g[s]
<1>1. DOMAIN f \cup Settings = Settings
  OBVIOUS
<1>2. DOMAIN Over(f, g) = Settings
  BY <1>1, OverDef
<1>3. QED
  BY <1>2 DEF Over

(* A boot keeps what is stored, but the transfer. *)
LEMMA BootedDef ==
  ASSUME NEW r, Shape(r)
  PROVE  /\ Shape(Booted(r)) /\ Booted(r).mode = "kNormal"
         /\ Booted(r).stored["session"] = "none"
         /\ \A s \in Settings : s # "session" =>
              Booted(r).stored[s] = r.stored[s]
BY SettingNames DEF Shape, Booted

(* Storing changes the settings it is given, and nothing else. *)
LEMMA StoreDef ==
  ASSUME NEW r, Shape(r), NEW body, DOMAIN body \subseteq Settings
  PROVE  /\ Shape(Store(r, body)) /\ Store(r, body).mode = r.mode
         /\ \A s \in DOMAIN body : Store(r, body).stored[s] = body[s]
         /\ \A s \in Settings \ DOMAIN body :
              Store(r, body).stored[s] = r.stored[s]
<1>1. /\ Store(r, body).mode = r.mode
      /\ Store(r, body).running = r.running
      /\ Store(r, body).stored = Over(body, r.stored)
      /\ DOMAIN Store(r, body) = DOMAIN r
  BY DEF Store, Shape
<1>2. DOMAIN r.stored = Settings
  BY DEF Shape
<1>3. /\ DOMAIN Over(body, r.stored) = Settings
      /\ \A s \in DOMAIN body : Over(body, r.stored)[s] = body[s]
      /\ \A s \in Settings \ DOMAIN body :
           Over(body, r.stored)[s] = r.stored[s]
  BY <1>2, OverSettings
<1>4. QED
  BY <1>1, <1>3 DEF Shape

-----------------------------------------------------------------------------
(* What an exchange may do *)

(* What a method does leaves the radar's settings as they are named, and   *)
(* sets a mode only if it is asked to.                                     *)
LEMMA EffectShape ==
  ASSUME Shape(radar), NEW method, NEW body,
         method \notin {"SetMode", "FirmwareUpdateStart"} =>
           DOMAIN body \subseteq Settings
  PROVE  /\ Shape(Effect(method, body))
         /\ Effect(method, body).mode \in
              {"kNormal", radar.mode,
               IF method = "SetMode" THEN body.mode ELSE "kNormal"}
<1> DEFINE r == Effect(method, body)
<1>1. CASE method \in {"Restart", "FirmwareUpdateReboot"}
  <2>1. r = Booted(radar)
    BY <1>1 DEF Effect
  <2>2. QED
    BY <2>1, BootedDef
<1>2. CASE method = "ResetAllSettings"
  <2>1. r = Booted(Store(radar, [s \in Config \ {"address"} |-> DefaultOf(s)]))
    BY <1>2 DEF Effect
  <2>2. DOMAIN [s \in Config \ {"address"} |-> DefaultOf(s)] \subseteq Settings
    BY SettingNames
  <2>3. Shape(Store(radar, [s \in Config \ {"address"} |-> DefaultOf(s)]))
    BY <2>2, StoreDef
  <2>4. QED
    BY <2>1, <2>3, BootedDef
<1>3. CASE method = "SetMode"
  <2>1. r = [radar EXCEPT !.mode = body.mode]
    BY <1>3 DEF Effect
  <2>2. QED
    BY <1>3, <2>1 DEF Shape
<1>4. CASE method \notin {"Restart", "FirmwareUpdateReboot", "SetMode",
                          "ResetAllSettings"}
  <2>1. PICK b : r = Store(radar, b) /\ DOMAIN b \subseteq Settings
    <3>1. CASE method = "SetDetectionThreshold"
      <4>1. r = Store(radar, [s \in {t \in DOMAIN body : t = "secondTable" =>
                                radar.running["range"] \in TwoSubcycle}
                                |-> body[s]])
        BY <3>1 DEF Effect
      <4>2. QED
        BY <3>1, <4>1
    <3>2. CASE method = "FirmwareUpdateStart"
      <4>1. PICK v : r = Store(radar, Only(Session, v))
        BY <3>2 DEF Effect
      <4>2. QED
        BY <4>1, OnlyDef DEF Settings
    <3>3. CASE method \in {"FirmwareUpdateCommit", "FirmwareUpdateAbort"}
      <4>1. r = Store(radar, Only(Session, "none"))
        BY <3>3 DEF Effect
      <4>2. QED
        BY <4>1, OnlyDef DEF Settings
    <3>4. CASE method = "FirmwareSwitchSlot"
      <4>1. PICK v : r = Store(radar, Only(Boot, v))
        BY <3>4 DEF Effect
      <4>2. QED
        BY <4>1, OnlyDef DEF Settings
    <3>5. CASE method \notin {"SetDetectionThreshold", "FirmwareUpdateStart",
                              "FirmwareUpdateCommit", "FirmwareUpdateAbort",
                              "FirmwareSwitchSlot"}
      BY <1>4, <3>5 DEF Effect
    <3>6. QED
      BY <3>1, <3>2, <3>3, <3>4, <3>5
  <2>2. QED
    BY <2>1, StoreDef
<1>5. QED
  BY <1>1, <1>2, <1>3, <1>4

(* The radar runs a request or not, and an answer that is not damaged says *)
(* which, with the data that the radar has found.                          *)
LEMMA AnswersDef ==
  ASSUME NEW method, NEW body, NEW members,
         NEW a \in Answers(method, body, members)
  PROVE  /\ a.radar \in {radar, Effect(method, body)}
         /\ a.intact \in BOOLEAN /\ a.rc # "none"
         /\ a.intact /\ a.rc = "SUCCESS" =>
              a.radar = Effect(method, body) /\ a.data \in Sent(members)
         /\ a.intact /\ a.rc # "SUCCESS" => a.radar = radar
<1>1. PICK y \in Reactions(method, body) :
        a \in Intact(y, members) \cup Spoilt("SUCCESS", y, members)
               \cup Spoilt("BUSY", y, members)
  BY DEF Answers
<1>2. /\ y.rc # "none"
      /\ \/ y.radar = radar /\ y.rc # "SUCCESS"
         \/ y.radar = Effect(method, body) /\ y.rc = "SUCCESS"
  <2>1. CASE y \in Refusals(method, body)
    BY <2>1 DEF Refusals
  <2>2. CASE y \notin Refusals(method, body)
    BY <1>1, <2>2 DEF Reactions
  <2>3. QED
    BY <2>1, <2>2
<1>3. CASE a \in Intact(y, members)
  <2>1. PICK data \in Read(y.rc, Sent(members)) :
          a = [intact |-> TRUE, rc |-> y.rc, data |-> data, radar |-> y.radar]
    BY <1>3 DEF Intact
  <2>2. a.radar = y.radar /\ a.rc = y.rc /\ a.intact = TRUE /\ a.data = data
    BY <2>1
  <2>3. y.rc = "SUCCESS" => data \in Sent(members)
    BY <2>1 DEF Read
  <2>4. QED
    BY <1>2, <2>2, <2>3
<1>4. CASE \E rc \in {"SUCCESS", "BUSY"} : a \in Spoilt(rc, y, members)
  <2>1. PICK rc \in {"SUCCESS", "BUSY"} :
          a.radar = y.radar /\ a.rc = rc /\ a.intact = FALSE
    BY <1>4 DEF Spoilt
  <2>2. QED
    BY <1>2, <2>1
<1>5. QED
  BY <1>1, <1>3, <1>4

(* The error code and LastResult tell what was done, but for the ones that *)
(* leave it open.                                                          *)
LEMMA ExchangeDef ==
  ASSUME NEW method, NEW body, NEW members, NEW x \in Exchange(method, body, members)
  PROVE  /\ x.radar \in {radar, Effect(method, body)} /\ x.e2eOk \in BOOLEAN
         /\ Trusted(x) => x.radar = Effect(method, body) /\ x.data \in Sent(members)
         /\ ~Doubt(x) /\ ~Trusted(x) => x.radar = radar
<1> DEFINE answers == Answers(method, body, members)
           NoAnswer(error, rc, r) == [error |-> error, return_code |-> rc,
                                      e2eOk |-> FALSE, data |-> NoData, radar |-> r]
<1>1. \A y \in Reactions(method, body) : y.radar \in {radar, Effect(method, body)}
  BY DEF Reactions, Refusals
<1>2. CASE x \in {NoAnswer("kDisconnected", "none", radar),
                  NoAnswer("kNotSupported", "NOT_SUPPORTED", radar),
                  NoAnswer(ErrorFromTransport("kTcpTooLarge"), "none", radar)}
  <2>1. PICK error, rc : x = NoAnswer(error, rc, radar)
    BY <1>2
  <2>2. x.radar = radar /\ x.e2eOk = FALSE
    BY <2>1
  <2>3. QED
    BY <2>2 DEF Trusted
<1>3. CASE \E tcp \in {"kTcpTimeout", "kTcpProtocol", "kTcpDisconnected"},
              r \in {radar} \cup {y.radar : y \in Reactions(method, body)} :
             x = NoAnswer(ErrorFromTransport(tcp), "none", r)
  <2>1. x.error \in Doubtful /\ x.e2eOk = FALSE
    BY <1>3 DEF ErrorFromTransport, Doubtful
  <2>2. x.radar \in {radar, Effect(method, body)}
    BY <1>1, <1>3
  <2>3. QED
    BY <2>1, <2>2 DEF Trusted, Doubt
<1>4. CASE \E a \in answers :
             x = [error |-> "kProtocolError", return_code |-> "none",
                  e2eOk |-> LastResponseE2eOk(a), data |-> NoData,
                  radar |-> a.radar]
  <2>1. /\ x.error = "kProtocolError" /\ x.e2eOk \in BOOLEAN
        /\ x.radar \in {radar, Effect(method, body)}
    BY <1>4, AnswersDef DEF LastResponseE2eOk
  <2>2. QED
    BY <2>1 DEF Trusted, Doubt, Doubtful
<1>5. CASE \E a \in answers :
             x = [error |-> AfiErrorFromReturnCode(a.rc), return_code |-> a.rc,
                  e2eOk |-> LastResponseE2eOk(a), data |-> a.data,
                  radar |-> a.radar]
  <2>1. PICK a \in answers :
          /\ x.error = AfiErrorFromReturnCode(a.rc) /\ x.return_code = a.rc
          /\ x.e2eOk = a.intact /\ x.data = a.data /\ x.radar = a.radar
    BY <1>5 DEF LastResponseE2eOk
  <2>2. x.error = "kOk" => a.rc = "SUCCESS"
    BY <2>1 DEF AfiErrorFromReturnCode
  <2>3. a.rc = "SUCCESS" => x.error = "kOk"
    BY <2>1 DEF AfiErrorFromReturnCode
  <2>4. a.rc # "none"
    BY AnswersDef
  <2>5. QED
    BY <2>1, <2>2, <2>3, <2>4, AnswersDef DEF Trusted, Doubt
<1>6. QED
  BY <1>2, <1>3, <1>4, <1>5 DEF Exchange

-----------------------------------------------------------------------------
(* The steps that the methods share *)

(* The EnterMode calls see the mode that a step leads to. *)
LEMMA WatchedEnters ==
  ASSUME NEW e \in [Callers -> Enters], enter' = Watched(e),
         \A c \in Callers : Aims(e[c])',
         \A c \in Callers :
           e[c].step = "kOk" /\ e[c].e2eOk =>
             e[c].reached \/ radar'.mode = e[c].target
  PROVE  enter' \in [Callers -> Enters] /\ EnterInv' /\ EnterModeReaches'
<1>1. ASSUME NEW c \in Callers
      PROVE  /\ enter'[c] \in Enters
             /\ enter'[c].step = e[c].step /\ enter'[c].target = e[c].target
             /\ enter'[c].e2eOk = e[c].e2eOk
             /\ enter'[c].reached =
                  (e[c].reached \/ (e[c].step # "none"
                                      /\ radar'.mode = e[c].target))
  <2>1. enter'[c] =
          [e[c] EXCEPT !.reached = @ \/ (e[c].step # "none"
                                           /\ radar'.mode = e[c].target)]
    BY DEF Watched
  <2>2. e[c] \in Enters
    OBVIOUS
  <2>3. QED
    BY <2>1, <2>2 DEF Enters
<1>2. enter' \in [Callers -> Enters]
  BY <1>1 DEF Watched
<1>3. \A c \in Callers : Aims(enter[c])'
  BY <1>1 DEF Aims
<1>4. QED
  BY <1>1, <1>2, <1>3 DEF EnterInv, EnterModeReaches

(* A call leaves the EnterMode calls as they are, but for what they see. *)
LEMMA WatchedOnly ==
  ASSUME ClientInv, enter' = Watched(enter), asked => asked'
  PROVE  enter' \in [Callers -> Enters] /\ EnterInv' /\ EnterModeReaches'
<1>1. enter \in [Callers -> Enters]
  BY DEF ClientInv, TypeOK
<1>2. \A c \in Callers :
        /\ Aims(enter[c])
        /\ enter[c].step = "kOk" /\ enter[c].e2eOk => enter[c].reached
  BY DEF ClientInv, EnterInv, EnterModeReaches
<1>3. QED
  BY <1>1, <1>2, WatchedEnters DEF Aims

(* A call is counted. *)
LEMMA DelegateTypes ==
  ASSUME TypeOK, NEW c, Delegate(c)
  PROVE  client' \in BOOLEAN /\ calls' \in 0..MaxCalls
BY ClientAssumption DEF TypeOK, Delegate

(* A step of the SDK, or none, touches neither the radar nor a call. *)
LEMMA SdkStep ==
  ASSUME ClientInv, UNCHANGED <<radar, enter, known, asked>>,
         client' \in BOOLEAN, calls' \in 0..MaxCalls
  PROVE  ClientInv'
BY DEF ClientInv, TypeOK, ShapeInv, EnterInv, Aims, TransferInv, CallerKnows,
       EnterModeReaches, ProgrammingOnlyWhenAsked

(* A call that changes settings keeps the invariant if what it does is     *)
(* what it is documented to do: each setting that is "meant" gets one of   *)
(* its values, and each other one keeps a value that was possible.         *)
LEMMA SetStep ==
  ASSUME ClientInv, NEW c \in Callers, NEW method, NEW body, NEW meant,
         Set(c, method, body, meant), method # "SetMode",
         method # "FirmwareUpdateStart" => DOMAIN body \subseteq Settings,
         DOMAIN meant \subseteq Settings,
         \A s \in DOMAIN meant :
           /\ meant[s] \subseteq ValuesOf(s)
           /\ Effect(method, body).stored[s] \in meant[s],
         \A s \in Settings \ DOMAIN meant :
           Effect(method, body).stored[s] = radar.stored[s],
         "session" \in DOMAIN meant => "none" \in meant["session"]
  PROVE  ClientInv'
<1>1. /\ TypeOK /\ Shape(radar) /\ DOMAIN known = Settings /\ CallerKnows
      /\ ProgrammingOnlyWhenAsked /\ TransferInv
  BY DEF ClientInv, ShapeInv, Shape
<1>2. PICK x \in Exchange(method, body, {}) :
        /\ radar' = x.radar
        /\ known' = CASE Doubt(x) -> Over([s \in DOMAIN meant |-> meant[s] \cup known[s]],
                                         known)
                      [] Trusted(x) -> Over(meant, known)
                      [] OTHER -> known
  BY DEF Set
<1>3. /\ Shape(radar') /\ radar'.mode \in {"kNormal", radar.mode}
  BY <1>1, <1>2, ExchangeDef, EffectShape
<1>4. /\ x.radar \in {radar, Effect(method, body)}
      /\ Trusted(x) => x.radar = Effect(method, body)
      /\ ~Doubt(x) /\ ~Trusted(x) => x.radar = radar
      /\ ~(Doubt(x) /\ Trusted(x))
  BY ExchangeDef DEF Doubt, Trusted, Doubtful
<1>5. /\ DOMAIN known' = Settings
      /\ \A s \in Settings : /\ known'[s] \subseteq ValuesOf(s)
                             /\ radar'.stored[s] \in known'[s]
      /\ TransferInv'
  <2> USE DEF TransferInv
  <2>1. \A s \in Settings : /\ known[s] \subseteq ValuesOf(s)
                            /\ radar.stored[s] \in known[s]
    BY <1>1 DEF TypeOK, CallerKnows
  <2>2. CASE Trusted(x)
    <3>1. known' = Over(meant, known) /\ radar' = Effect(method, body)
      BY <1>2, <1>4, <2>2
    <3>2. /\ DOMAIN known' = Settings
          /\ \A s \in DOMAIN meant : known'[s] = meant[s]
          /\ \A s \in Settings \ DOMAIN meant : known'[s] = known[s]
      BY <1>1, <3>1, OverSettings
    <3>3. \A s \in Settings : /\ known'[s] \subseteq ValuesOf(s)
                               /\ radar'.stored[s] \in known'[s]
      BY <2>1, <3>1, <3>2
    <3>4. "none" \in known'["session"]
      BY <2>1, <3>1, <3>2, <1>1, SettingNames
    <3>5. QED
      BY <2>1, <3>1, <3>2, <3>3, <3>4
  <2>3. CASE Doubt(x)
    <3> DEFINE wide == [s \in DOMAIN meant |-> meant[s] \cup known[s]]
    <3>1. known' = Over(wide, known)
      BY <1>2, <1>4, <2>3
    <3>2. /\ DOMAIN known' = Settings
          /\ \A s \in DOMAIN meant : known'[s] = wide[s]
          /\ \A s \in Settings \ DOMAIN meant : known'[s] = known[s]
      BY <1>1, <3>1, OverSettings
    <3>3. \A s \in DOMAIN meant : known'[s] = meant[s] \cup known[s]
      BY <3>2
    <3>4. radar' \in {radar, Effect(method, body)}
      BY <1>2, <1>4
    <3> HIDE DEF wide
    <3>5. \A s \in Settings : /\ known'[s] \subseteq ValuesOf(s)
                               /\ radar'.stored[s] \in known'[s]
      BY <2>1, <3>2, <3>3, <3>4
    <3>6. "none" \in known'["session"]
      BY <2>1, <3>2, <3>3, <3>4, <1>1, SettingNames
    <3>7. QED
      BY <2>1, <3>2, <3>3, <3>4, <3>5, <3>6
  <2>4. CASE ~Doubt(x) /\ ~Trusted(x)
    <3>1. known' = known /\ radar' = radar
      BY <1>2, <1>4, <2>4
    <3>2. QED
      BY <1>1, <2>1, <3>1
  <2>5. QED
    BY <2>2, <2>3, <2>4
<1>6. Delegate(c) /\ enter' = Watched(enter) /\ asked' = asked
  BY DEF Set
<1>7. enter' \in [Callers -> Enters] /\ EnterInv' /\ EnterModeReaches'
  BY <1>6, WatchedOnly
<1>8. TypeOK'
  <2>1. radar'.mode \in Modes
    BY <1>1, <1>3 DEF TypeOK, Modes
  <2>2. \A s \in Settings :
          radar'.stored[s] \in ValuesOf(s) /\ known'[s] \subseteq ValuesOf(s)
    BY <1>5
  <2>3. QED
    BY <1>1, <1>6, <1>7, <2>1, <2>2, DelegateTypes DEF TypeOK
<1>9. ShapeInv' /\ CallerKnows' /\ ProgrammingOnlyWhenAsked' /\ TransferInv'
  BY <1>1, <1>3, <1>5, <1>6
  DEF Shape, ShapeInv, CallerKnows, ProgrammingOnlyWhenAsked
<1>10. QED
  BY <1>7, <1>8, <1>9 DEF ClientInv

(* What is stored, as far as it tells anything. *)
Stored(reads) ==
  /\ DOMAIN reads \subseteq Settings
  /\ \A s \in DOMAIN reads : reads[s].tells => reads[s].value = radar.stored[s]

(* A GET keeps the invariant if what an answer that passed the check       *)
(* leaves in the caller's structure is what is stored, or tells nothing.   *)
LEMMA GetStep ==
  ASSUME ClientInv, NEW c \in Callers, Delegate(c),
         NEW members, NEW x \in Exchange("Get", Nothing, members), NEW reads,
         x.data \in Sent(members) => Stored(reads),
         known' = IF Trusted(x) THEN Over(Learned(reads), known) ELSE known,
         UNCHANGED <<radar, enter, asked>>
  PROVE  ClientInv'
<1> DEFINE read == Learned(reads)
<1>1. /\ TypeOK /\ DOMAIN known = Settings /\ CallerKnows /\ TransferInv
  BY DEF ClientInv, ShapeInv
<1>2. \A s \in Settings : /\ known[s] \subseteq ValuesOf(s)
                          /\ radar.stored[s] \in known[s]
  BY <1>1 DEF TypeOK, CallerKnows
<1>3. Trusted(x) =>
        /\ DOMAIN read \subseteq Settings
        /\ \A s \in DOMAIN read :
             /\ radar.stored[s] \in read[s] /\ read[s] \subseteq ValuesOf(s)
             /\ s = "session" => "none" \in read[s]
  <2> SUFFICES ASSUME Trusted(x)
               PROVE  /\ DOMAIN read \subseteq Settings
                      /\ \A s \in DOMAIN read :
                           /\ radar.stored[s] \in read[s]
                           /\ read[s] \subseteq ValuesOf(s)
                           /\ s = "session" => "none" \in read[s]
    OBVIOUS
  <2>1. Stored(reads)
    BY ExchangeDef
  <2>2. DOMAIN read \subseteq Settings
    BY <2>1 DEF Learned, Stored
  <2>3. ASSUME NEW s \in DOMAIN read
        PROVE  read[s] = IF s = "session" THEN {radar.stored[s], "none"}
                         ELSE {radar.stored[s]}
    BY <2>1 DEF Learned, Stored
  <2>4. ASSUME NEW s \in DOMAIN read
        PROVE  /\ radar.stored[s] \in ValuesOf(s)
               /\ s = "session" => "none" \in ValuesOf(s)
    BY <1>2, <2>2 DEF ValuesOf
  <2>5. QED
    BY <2>2, <2>3, <2>4
<1>4. \/ known' = known
      \/ Trusted(x) /\ known' = Over(read, known)
  OBVIOUS
<1> HIDE DEF read
<1>6. /\ DOMAIN known' = Settings
      /\ \A s \in Settings : /\ known'[s] \subseteq ValuesOf(s)
                             /\ radar'.stored[s] \in known'[s]
      /\ TransferInv'
  <2> USE DEF TransferInv
  <2>1. CASE known' = known
    BY <1>1, <1>2, <2>1
  <2>2. CASE Trusted(x) /\ known' = Over(read, known)
    <3>1. /\ DOMAIN known' = Settings
          /\ \A s \in DOMAIN read : known'[s] = read[s]
          /\ \A s \in Settings \ DOMAIN read : known'[s] = known[s]
      BY <1>1, <1>3, <2>2, OverSettings
    <3>2. \A s \in Settings : /\ known'[s] \subseteq ValuesOf(s)
                               /\ radar'.stored[s] \in known'[s]
      BY <1>2, <1>3, <2>2, <3>1
    <3>3. "none" \in known'["session"]
      BY <1>2, <1>3, <2>2, <3>1, <1>1, SettingNames
    <3>4. QED
      BY <3>1, <3>2, <3>3
  <2>3. QED
    BY <1>4, <2>1, <2>2
<1>7. TypeOK'
  BY <1>1, <1>6, DelegateTypes DEF TypeOK
<1>8. ShapeInv' /\ EnterInv' /\ CallerKnows' /\ EnterModeReaches'
        /\ ProgrammingOnlyWhenAsked' /\ TransferInv'
  BY <1>6
  DEF ClientInv, ShapeInv, EnterInv, Aims, CallerKnows, EnterModeReaches,
      ProgrammingOnlyWhenAsked
<1>9. QED
  BY <1>7, <1>8 DEF ClientInv

(* A member that the radar sends has the value that is stored. *)
LEMMA SentDef ==
  ASSUME NEW members, NEW data \in Sent(members), NEW s \in Settings,
         s \in DOMAIN data.values
  PROVE  data.values[s] = radar.stored[s]
<1>1. PICK read \in SUBSET Present(members) :
        data.values = [t \in read |-> Found(t)]
  BY DEF Sent
<1>2. s \in read /\ data.values[s] = Found(s)
  BY <1>1
<1>3. QED
  BY <1>2, SettingNames DEF Found

(* A member that is read is what is stored, or a default that tells        *)
(* nothing.                                                                *)
LEMMA MemberDef ==
  ASSUME NEW members, NEW data \in Sent(members), NEW s \in Settings, NEW d
  PROVE  Member(data, s, d).tells => Member(data, s, d).value = radar.stored[s]
<1>1. CASE s \in DOMAIN data.values
  BY <1>1, SentDef DEF Member, safe_value
<1>2. CASE s \notin DOMAIN data.values
  BY <1>2 DEF Member, safe_value
<1>3. QED
  BY <1>1, <1>2

-----------------------------------------------------------------------------
(* The methods *)

(* The settings that are read one by one. *)
LEMMA ReadNames ==
  /\ {"range", "profile", "level", "filters", "mounting", "rotation",
      "position", "session", "face", "secondTable"} \subseteq Settings
  /\ "address" \in Network /\ Network \subseteq Settings
BY DEF Settings, Config, Boot, Session, Network, StreamKinds, Protocols,
       ProtocolOf, Threshold, Filters, Ptp, Mounting, Rotation, Position, Range

(* Values as they are stored, over values as they are stored. *)
LEMMA OverStored ==
  ASSUME NEW f, NEW g, Stored(f), Stored(g)
  PROVE  Stored(Over(f, g))
BY DEF Stored, Over

(* A call that is refused before anything is sent. *)
LEMMA InvalidParamStep ==
  ASSUME ClientInv, NEW c \in Callers, InvalidParam(c)
  PROVE  ClientInv'
<1>1. Delegate(c) /\ UNCHANGED <<radar, enter, known, asked>>
  BY DEF InvalidParam
<1>2. client' \in BOOLEAN /\ calls' \in 0..MaxCalls
  BY <1>1, DelegateTypes DEF ClientInv
<1>3. QED
  BY <1>1, <1>2, SdkStep

(* A GET of members that are not settings. *)
LEMMA NothingReadStep ==
  ASSUME ClientInv, NEW c \in Callers, NEW members, Get(c, members, ReadsNothing)
  PROVE  ClientInv'
<1>1. PICK x \in Exchange("Get", Nothing, members) :
        known' = IF Trusted(x) THEN Over(Learned(Nothing), known) ELSE known
  BY DEF Get, ReadsNothing
<1>2. Delegate(c) /\ UNCHANGED <<radar, enter, asked>>
  BY DEF Get
<1>3. Stored(Nothing)
  BY OnlyDef DEF Stored, Nothing
<1>4. QED
  BY <1>1, <1>2, <1>3, GetStep

(* What the GETs read is what is stored, or a default that tells nothing,  *)
(* and they change nothing.                                                *)
LEMMA QueriesStep ==
  ASSUME ClientInv, NEW c \in Callers, Queries(c)
  PROVE  ClientInv'
<1> USE DEF Get
<1>1. CASE GetDeviceInfo(c) \/ GetSensorStatus(c) \/ GetDiagnosticInfo(c)
             \/ GetCommandHistoryInfo(c) \/ GetConfigStatus(c) \/ GetMode(c)
  <2>1. \E members : Get(c, members, ReadsNothing)
    BY <1>1
    DEF GetDeviceInfo, GetSensorStatus, GetDiagnosticInfo,
        GetCommandHistoryInfo, GetConfigStatus, GetMode
  <2>2. QED
    BY <2>1, NothingReadStep
<1>2. CASE GetRangeMode(c)
  <2>1. PICK x \in Exchange("Get", Nothing, Range) :
          known' = IF Trusted(x)
                   THEN Over(Learned([range |-> Member(x.data, "range", 0)]), known)
                   ELSE known
    BY <1>2 DEF GetRangeMode
  <2>2. Delegate(c) /\ UNCHANGED <<radar, enter, asked>>
    BY <1>2 DEF GetRangeMode
  <2> DEFINE reads == [range |-> Member(x.data, "range", 0)]
  <2>3. DOMAIN reads = {"range"} /\ reads["range"] = Member(x.data, "range", 0)
    OBVIOUS
  <2>4. x.data \in Sent(Range) => Stored(reads)
    BY <2>3, ReadNames, MemberDef DEF Stored
  <2> HIDE DEF reads
  <2>5. QED
    BY <2>1, <2>2, <2>4, GetStep DEF reads
<1>3. CASE GetPtpConfig(c)
  <2>1. PICK x \in Exchange("Get", Nothing, Ptp \cup Active) :
          known' = IF Trusted(x)
                   THEN Over(Learned([profile |-> Member(x.data, "profile", safe_value(x.data, "active", 0))]), known)
                   ELSE known
    BY <1>3 DEF GetPtpConfig
  <2>2. Delegate(c) /\ UNCHANGED <<radar, enter, asked>>
    BY <1>3 DEF GetPtpConfig
  <2> DEFINE reads == [profile |-> Member(x.data, "profile", safe_value(x.data, "active", 0))]
  <2>3. DOMAIN reads = {"profile"} /\ reads["profile"] = Member(x.data, "profile", safe_value(x.data, "active", 0))
    OBVIOUS
  <2>4. x.data \in Sent(Ptp \cup Active) => Stored(reads)
    BY <2>3, ReadNames, MemberDef DEF Stored
  <2> HIDE DEF reads
  <2>5. QED
    BY <2>1, <2>2, <2>4, GetStep DEF reads
<1>4. CASE GetDetectionFilters(c)
  <2>1. PICK x \in Exchange("Get", Nothing, Filters) :
          known' = IF Trusted(x)
                   THEN Over(Learned([filters |-> Member(x.data, "filters", "default")]), known)
                   ELSE known
    BY <1>4 DEF GetDetectionFilters
  <2>2. Delegate(c) /\ UNCHANGED <<radar, enter, asked>>
    BY <1>4 DEF GetDetectionFilters
  <2> DEFINE reads == [filters |-> Member(x.data, "filters", "default")]
  <2>3. DOMAIN reads = {"filters"} /\ reads["filters"] = Member(x.data, "filters", "default")
    OBVIOUS
  <2>4. x.data \in Sent(Filters) => Stored(reads)
    BY <2>3, ReadNames, MemberDef DEF Stored
  <2> HIDE DEF reads
  <2>5. QED
    BY <2>1, <2>2, <2>4, GetStep DEF reads
<1>5. CASE GetMountingPosition(c)
  <2>1. PICK x \in Exchange("Get", Nothing, Mounting) :
          known' = IF Trusted(x)
                   THEN Over(Learned([mounting |-> Member(x.data, "mounting", "default")]), known)
                   ELSE known
    BY <1>5 DEF GetMountingPosition
  <2>2. Delegate(c) /\ UNCHANGED <<radar, enter, asked>>
    BY <1>5 DEF GetMountingPosition
  <2> DEFINE reads == [mounting |-> Member(x.data, "mounting", "default")]
  <2>3. DOMAIN reads = {"mounting"} /\ reads["mounting"] = Member(x.data, "mounting", "default")
    OBVIOUS
  <2>4. x.data \in Sent(Mounting) => Stored(reads)
    BY <2>3, ReadNames, MemberDef DEF Stored
  <2> HIDE DEF reads
  <2>5. QED
    BY <2>1, <2>2, <2>4, GetStep DEF reads
<1>6. CASE GetRotation(c)
  <2>1. PICK x \in Exchange("Get", Nothing, Rotation) :
          known' = IF Trusted(x)
                   THEN Over(Learned([rotation |-> Member(x.data, "rotation", "default")]), known)
                   ELSE known
    BY <1>6 DEF GetRotation
  <2>2. Delegate(c) /\ UNCHANGED <<radar, enter, asked>>
    BY <1>6 DEF GetRotation
  <2> DEFINE reads == [rotation |-> Member(x.data, "rotation", "default")]
  <2>3. DOMAIN reads = {"rotation"} /\ reads["rotation"] = Member(x.data, "rotation", "default")
    OBVIOUS
  <2>4. x.data \in Sent(Rotation) => Stored(reads)
    BY <2>3, ReadNames, MemberDef DEF Stored
  <2> HIDE DEF reads
  <2>5. QED
    BY <2>1, <2>2, <2>4, GetStep DEF reads
<1>7. CASE GetSensorPosition(c)
  <2>1. PICK x \in Exchange("Get", Nothing, Position) :
          known' = IF Trusted(x)
                   THEN Over(Learned([position |-> Member(x.data, "position", "default")]), known)
                   ELSE known
    BY <1>7 DEF GetSensorPosition
  <2>2. Delegate(c) /\ UNCHANGED <<radar, enter, asked>>
    BY <1>7 DEF GetSensorPosition
  <2> DEFINE reads == [position |-> Member(x.data, "position", "default")]
  <2>3. DOMAIN reads = {"position"} /\ reads["position"] = Member(x.data, "position", "default")
    OBVIOUS
  <2>4. x.data \in Sent(Position) => Stored(reads)
    BY <2>3, ReadNames, MemberDef DEF Stored
  <2> HIDE DEF reads
  <2>5. QED
    BY <2>1, <2>2, <2>4, GetStep DEF reads
<1>8. CASE FirmwareUpdateStatus(c)
  <2>1. PICK x \in Exchange("Get", Nothing, Session) :
          known' = IF Trusted(x)
                   THEN Over(Learned([session |-> Member(x.data, "session", "")]), known)
                   ELSE known
    BY <1>8 DEF FirmwareUpdateStatus
  <2>2. Delegate(c) /\ UNCHANGED <<radar, enter, asked>>
    BY <1>8 DEF FirmwareUpdateStatus
  <2> DEFINE reads == [session |-> Member(x.data, "session", "")]
  <2>3. DOMAIN reads = {"session"} /\ \E d : reads["session"] = Member(x.data, "session", d)
    OBVIOUS
  <2>4. known' = IF Trusted(x) THEN Over(Learned(reads), known) ELSE known
    BY <2>1
  <2> HIDE DEF reads
  <2>5. x.data \in Sent(Session) => Stored(reads)
    BY <2>3, ReadNames, MemberDef DEF Stored
  <2>6. QED
    BY <2>2, <2>4, <2>5, GetStep
<1>9. CASE GetBootInfo(c)
  <2>1. PICK x \in Exchange("Get", Nothing, Boot) :
          known' = IF Trusted(x)
                   THEN Over(Learned([face |-> Member(x.data, "face", "")]), known)
                   ELSE known
    BY <1>9 DEF GetBootInfo
  <2>2. Delegate(c) /\ UNCHANGED <<radar, enter, asked>>
    BY <1>9 DEF GetBootInfo
  <2> DEFINE reads == [face |-> Member(x.data, "face", "")]
  <2>3. DOMAIN reads = {"face"} /\ \E d : reads["face"] = Member(x.data, "face", d)
    OBVIOUS
  <2>4. known' = IF Trusted(x) THEN Over(Learned(reads), known) ELSE known
    BY <2>1
  <2> HIDE DEF reads
  <2>5. x.data \in Sent(Boot) => Stored(reads)
    BY <2>3, ReadNames, MemberDef DEF Stored
  <2>6. QED
    BY <2>2, <2>4, <2>5, GetStep
<1>10. CASE GetNetworkConfig(c)
  <2> DEFINE address(data) == [address |-> Member(data, "address", "default")]
             stream(data, kind) == parse_stream_destination(data, kind)
             Reads(data) ==
               Over(address(data),
                    Over(stream(data, "detection"),
                         Over(stream(data, "health"), stream(data, "performance"))))
  <2>1. PICK x \in Exchange("Get", Nothing, Network) :
          known' = IF Trusted(x) THEN Over(Learned(Reads(x.data)), known) ELSE known
    BY <1>10 DEF GetNetworkConfig
  <2>2. Delegate(c) /\ UNCHANGED <<radar, enter, asked>>
    BY <1>10 DEF GetNetworkConfig
  <2>3. ASSUME NEW data \in Sent(Network) PROVE Stored(Reads(data))
    <3>1. Stored(address(data))
      <4>1. /\ DOMAIN address(data) = {"address"}
            /\ address(data)["address"] = Member(data, "address", "default")
        OBVIOUS
      <4>2. QED
        BY <4>1, ReadNames, MemberDef DEF Stored
    <3>2. ASSUME NEW kind \in StreamKinds PROVE Stored(stream(data, kind))
      <4>1. {kind, ProtocolOf[kind]} \subseteq Settings
        BY ReadNames DEF Network, Protocols
      <4>2. \A s \in Settings :
              Member(data, s, "default").tells =>
                Member(data, s, "default").value = radar.stored[s]
        BY MemberDef
      <4>3. QED
        BY <4>1, <4>2 DEF parse_stream_destination, Stored
    <3>3. "detection" \in StreamKinds /\ "health" \in StreamKinds
            /\ "performance" \in StreamKinds
      BY DEF StreamKinds
    <3> HIDE DEF address, stream
    <3>4. QED
      BY <3>1, <3>2, <3>3, OverStored
  <2> HIDE DEF Reads
  <2>4. QED
    BY <2>1, <2>2, <2>3, GetStep
<1>11. CASE GetDetectionThreshold(c)
  <2> DEFINE level(data) == safe_value(data, "level", 0)
             second(data) == [s \in {"secondTable"} \cap data.names |->
                                Checked(data.values[s])]
             Reads(data) ==
               IF \/ level(data) \notin 1..9
                  \/ "secondTable" \in data.names \ DOMAIN data.values
               THEN Nothing
               ELSE Over([level |-> Checked(level(data))], second(data))
  <2>1. PICK x \in Exchange("Get", Nothing, Threshold) :
          known' = IF Trusted(x) THEN Over(Learned(Reads(x.data)), known) ELSE known
    BY <1>11 DEF GetDetectionThreshold
  <2>2. Delegate(c) /\ UNCHANGED <<radar, enter, asked>>
    BY <1>11 DEF GetDetectionThreshold
  <2>3. ASSUME NEW data \in Sent(Threshold) PROVE Stored(Reads(data))
    <3>1. CASE \/ level(data) \notin 1..9
               \/ "secondTable" \in data.names \ DOMAIN data.values
      BY <3>1, OnlyDef DEF Stored, Nothing
    <3>2. CASE /\ level(data) \in 1..9
               /\ "secondTable" \notin data.names \ DOMAIN data.values
      <4>1. level(data) = radar.stored["level"]
        <5>1. "level" \in DOMAIN data.values
          BY <3>2 DEF safe_value
        <5>2. QED
          BY <5>1, ReadNames, SentDef DEF safe_value
      <4>2. Stored([level |-> Checked(level(data))])
        BY <4>1, ReadNames DEF Stored, Checked
      <4>3. Stored(second(data))
        BY <3>2, ReadNames, SentDef DEF Stored, Checked
      <4>4. QED
        BY <3>2, <4>2, <4>3, OverStored
    <3>3. QED
      BY <3>1, <3>2
  <2> HIDE DEF Reads
  <2>4. QED
    BY <2>1, <2>2, <2>3, GetStep
<1>12. QED
  BY <1>1, <1>2, <1>3, <1>4, <1>5, <1>6, <1>7, <1>8, <1>9, <1>10, <1>11
  DEF Queries

(* The methods whose settings are stored as they are sent. *)
StoreMethods == SETs \ {"SetDetectionThreshold", "ResetAllSettings"}

(* A call that stores what it sends, and is documented to do so. *)
LEMMA StoreStep ==
  ASSUME ClientInv, NEW c \in Callers, NEW method, NEW body, NEW meant,
         Set(c, method, body, meant),
         method \in StoreMethods,
         DOMAIN body \subseteq Config, DOMAIN meant = DOMAIN body,
         \A s \in DOMAIN body :
           meant[s] = {body[s]} /\ body[s] \in ValuesOf(s)
  PROVE  ClientInv'
<1>1. Effect(method, body) = Store(radar, body)
  BY DEF Effect, StoreMethods, SETs
<1>2. Shape(radar)
  BY DEF ClientInv, ShapeInv, Shape
<1>3. DOMAIN body \subseteq Settings /\ "session" \notin DOMAIN meant
  BY SettingNames
<1>4. /\ \A s \in DOMAIN body : Store(radar, body).stored[s] = body[s]
      /\ \A s \in Settings \ DOMAIN body :
           Store(radar, body).stored[s] = radar.stored[s]
  BY <1>2, <1>3, StoreDef
<1>5. method # "SetMode" /\ method # "FirmwareUpdateStart"
  BY DEF StoreMethods, SETs
<1>6. \A s \in DOMAIN meant : /\ meant[s] \subseteq ValuesOf(s)
                              /\ Effect(method, body).stored[s] \in meant[s]
  BY <1>1, <1>4
<1>7. \A s \in Settings \ DOMAIN meant :
        Effect(method, body).stored[s] = radar.stored[s]
  BY <1>1, <1>4
<1>8. QED
  BY <1>3, <1>5, <1>6, <1>7, SetStep

(* The settings by the structures, and the values they take. *)
LEMMA ConfigNames ==
  /\ Network \subseteq Config /\ Threshold \subseteq Config
  /\ Filters \subseteq Config /\ Ptp \subseteq Config /\ Mounting \subseteq Config
  /\ Rotation \subseteq Config /\ Position \subseteq Config /\ Range \subseteq Config
  /\ \A s \in Network \cup Filters \cup Mounting \cup Rotation \cup Position
               \cup {"secondTable"} : ValuesOf(s) = Values
  /\ ValuesOf("range") = {0, 3} /\ ValuesOf("profile") = 0..2
  /\ ValuesOf("level") = {3, 5}
BY DEF Config, ValuesOf, Network, StreamKinds, Protocols,
       ProtocolOf, Threshold, Filters, Ptp, Mounting, Rotation, Position, Range

(* The numbers that are sent are values, and so are the defaults. *)
LEMMA SentValues ==
  /\ \A mode \in {0, 3, 7} : mode \in RangeModes => mode \in ValuesOf("range")
  /\ \A profile \in {0, 1, 3} : ~(profile > 2) => profile \in ValuesOf("profile")
  /\ \A s \in {"address", "profile", "filters"} : DefaultOf(s) \in ValuesOf(s)
<1>1. \A mode \in {0, 3, 7} : mode \in RangeModes => mode \in ValuesOf("range")
  BY ConfigNames DEF RangeModes
<1>2. \A profile \in {0, 1, 3} : ~(profile > 2) => profile \in ValuesOf("profile")
  BY ConfigNames
<1>3. /\ DefaultOf("profile") = 0 /\ DefaultOf("address") = "default"
      /\ DefaultOf("filters") = "default"
  BY DEF DefaultOf
<1>4. /\ 0 \in ValuesOf("profile") /\ "default" \in ValuesOf("address")
      /\ "default" \in ValuesOf("filters")
  BY DEF ValuesOf, Values
<1>5. QED
  BY <1>1, <1>2, <1>3, <1>4

(* A single value for every member of a structure. *)
LEMMA OnlyStep ==
  ASSUME ClientInv, NEW c \in Callers, NEW method, NEW S, NEW v,
         Set(c, method, Only(S, v), Only(S, {v})),
         method \in StoreMethods,
         S \subseteq Config, \A s \in S : v \in ValuesOf(s)
  PROVE  ClientInv'
<1>1. /\ DOMAIN Only(S, v) = S /\ DOMAIN Only(S, {v}) = S
      /\ \A s \in S : Only(S, v)[s] = v /\ Only(S, {v})[s] = {v}
  BY OnlyDef
<1>2. QED
  BY <1>1, StoreStep

(* A network configuration is stored member by member, a stream's          *)
(* destination alone.                                                      *)
LEMMA NetworkStep ==
  ASSUME ClientInv, NEW c \in Callers,
         \/ \E config \in {"old", "new"} : SetNetworkConfig(c, config)
         \/ \E kind \in StreamKinds \cup {"other"}, protocol \in {"", "new"} :
              SetStreamDestination(c, kind, protocol)
  PROVE  ClientInv'
<1>1. "SetNetworkConfig" \in StoreMethods
  BY DEF StoreMethods, SETs
<1>2. ASSUME NEW config \in {"old", "new"}, SetNetworkConfig(c, config)
      PROVE  ClientInv'
  <2>1. [s \in Network |-> config] = Only(Network, config)
    BY DEF Only
  <2>2. Set(c, "SetNetworkConfig", Only(Network, config), Only(Network, {config}))
    BY <1>2, <2>1 DEF SetNetworkConfig
  <2>3. \A s \in Network : config \in ValuesOf(s)
    BY ConfigNames DEF Values
  <2>4. QED
    BY <1>1, <2>2, <2>3, ConfigNames, OnlyStep, Zenon
<1>3. ASSUME NEW kind \in StreamKinds \cup {"other"}, NEW protocol \in {"", "new"},
             SetStreamDestination(c, kind, protocol)
      PROVE  ClientInv'
  <2>1. CASE kind \notin StreamKinds
    BY <1>3, <2>1, InvalidParamStep DEF SetStreamDestination
  <2>2. CASE kind \in StreamKinds
    <3> DEFINE to == Only({kind}, "new")
               by == IF protocol = "" THEN Nothing
                     ELSE Only({ProtocolOf[kind]}, protocol)
               body == Over(to, by)
    <3>1. Set(c, "SetNetworkConfig", body, Stores(body))
      BY <1>3, <2>2 DEF SetStreamDestination
    <3>2. DOMAIN to \subseteq Network /\ \A s \in DOMAIN to : to[s] \in Values
      <4>1. DOMAIN to = {kind} /\ \A s \in {kind} : to[s] = "new"
        BY OnlyDef
      <4>2. kind \in Network /\ "new" \in Values
        BY <2>2 DEF Network, Values
      <4>3. QED
        BY <4>1, <4>2
    <3>3. DOMAIN by \subseteq Network /\ \A s \in DOMAIN by : by[s] \in Values
      <4>1. CASE protocol = ""
        BY <4>1, OnlyDef DEF Nothing
      <4>2. CASE protocol # ""
        <5>1. ProtocolOf[kind] \in Network /\ protocol \in Values
          BY <2>2, <4>2 DEF Network, Protocols, Values
        <5>2. /\ DOMAIN Only({ProtocolOf[kind]}, protocol) = {ProtocolOf[kind]}
              /\ \A s \in {ProtocolOf[kind]} :
                   Only({ProtocolOf[kind]}, protocol)[s] = protocol
          BY OnlyDef
        <5>3. by = Only({ProtocolOf[kind]}, protocol)
          BY <4>2
        <5>4. QED
          BY <5>1, <5>2, <5>3
      <4>3. QED
        BY <4>1, <4>2
    <3> HIDE DEF to, by
    <3>4. DOMAIN body \subseteq Network /\ \A s \in DOMAIN body : body[s] \in Values
      BY <3>2, <3>3 DEF Over
    <3> HIDE DEF body
    <3>5. DOMAIN body \subseteq Config
            /\ \A s \in DOMAIN body : body[s] \in ValuesOf(s)
      BY <3>4, ConfigNames
    <3>6. DOMAIN Stores(body) = DOMAIN body
            /\ \A s \in DOMAIN body : Stores(body)[s] = {body[s]}
      BY DEF Stores
    <3>7. QED
      BY <1>1, <3>1, <3>5, <3>6, StoreStep
  <2>3. QED
    BY <2>1, <2>2
<1>4. QED
  BY <1>2, <1>3

(* The methods that store one structure. *)
LEMMA StructuresStep ==
  ASSUME ClientInv, NEW c \in Callers,
         \/ \E mode \in {0, 3, 7} : SetRangeMode(c, mode)
         \/ \E profile \in {0, 1, 3} : SetPtpConfig(c, profile)
         \/ SetDetectionFilters(c) \/ SetMountingPosition(c)
         \/ SetRotation(c) \/ SetSensorPosition(c)
         \/ \E keys \in {{}, {""}, {"address", "profile"}, {"filters"}} :
              ResetConfigDefaults(c, keys)
  PROVE  ClientInv'
<1>1. /\ "SetRangeMode" \in StoreMethods /\ "SetPtpConfig" \in StoreMethods
      /\ "SetDetectionFilters" \in StoreMethods
      /\ "SetMountingPosition" \in StoreMethods
      /\ "SetRotation" \in StoreMethods /\ "SetSensorPosition" \in StoreMethods
      /\ "ResetConfigDefaults" \in StoreMethods
  BY DEF StoreMethods, SETs
<1>2. "new" \in Values
  BY DEF Values
<1>3. ASSUME NEW mode \in {0, 3, 7}, SetRangeMode(c, mode)
      PROVE  ClientInv'
  <2>1. CASE mode \notin RangeModes
    BY <1>3, <2>1, InvalidParamStep DEF SetRangeMode
  <2>2. CASE mode \in RangeModes
    <3>1. Set(c, "SetRangeMode", Only(Range, mode), Only(Range, {mode}))
      BY <1>3, <2>2 DEF SetRangeMode
    <3>2. \A s \in Range : mode \in ValuesOf(s)
      BY <2>2, SentValues DEF Range
    <3>3. QED
      BY <1>1, <3>1, <3>2, ConfigNames, OnlyStep
  <2>3. QED
    BY <2>1, <2>2
<1>4. ASSUME NEW profile \in {0, 1, 3}, SetPtpConfig(c, profile)
      PROVE  ClientInv'
  <2>1. CASE profile > 2
    BY <1>4, <2>1, InvalidParamStep DEF SetPtpConfig
  <2>2. CASE ~(profile > 2)
    <3>1. Set(c, "SetPtpConfig", Only(Ptp, profile), Only(Ptp, {profile}))
      BY <1>4, <2>2 DEF SetPtpConfig
    <3>2. \A s \in Ptp : profile \in ValuesOf(s)
      BY <2>2, SentValues DEF Ptp
    <3>3. QED
      BY <1>1, <3>1, <3>2, ConfigNames, OnlyStep
  <2>3. QED
    BY <2>1, <2>2
<1>5. CASE SetDetectionFilters(c)
  <2>1. \A s \in Filters : "new" \in ValuesOf(s)
    BY <1>2, ConfigNames
  <2>2. QED
    BY <1>1, <1>5, <2>1, ConfigNames, OnlyStep DEF SetDetectionFilters
<1>6. CASE SetMountingPosition(c)
  <2>1. \A s \in Mounting : "new" \in ValuesOf(s)
    BY <1>2, ConfigNames
  <2>2. QED
    BY <1>1, <1>6, <2>1, ConfigNames, OnlyStep DEF SetMountingPosition
<1>7. CASE SetRotation(c)
  <2>1. \A s \in Rotation : "new" \in ValuesOf(s)
    BY <1>2, ConfigNames
  <2>2. QED
    BY <1>1, <1>7, <2>1, ConfigNames, OnlyStep DEF SetRotation
<1>8. CASE SetSensorPosition(c)
  <2>1. \A s \in Position : "new" \in ValuesOf(s)
    BY <1>2, ConfigNames
  <2>2. QED
    BY <1>1, <1>8, <2>1, ConfigNames, OnlyStep DEF SetSensorPosition
<1>9. ASSUME NEW keys \in {{}, {""}, {"address", "profile"}, {"filters"}},
             ResetConfigDefaults(c, keys)
      PROVE  ClientInv'
  <2>1. CASE keys = {} \/ "" \in keys
    BY <1>9, <2>1, InvalidParamStep DEF ResetConfigDefaults
  <2>2. CASE ~(keys = {} \/ "" \in keys)
    <3> DEFINE body == [s \in keys |-> DefaultOf(s)]
               meant == [s \in keys |-> {DefaultOf(s)}]
    <3>1. keys \subseteq {"address", "profile", "filters"}
      BY <2>2
    <3>2. keys \subseteq Config
      BY <3>1, ConfigNames DEF Ptp, Filters, Network
    <3>3. \A s \in keys : DefaultOf(s) \in ValuesOf(s)
      BY <3>1, SentValues
    <3>4. Set(c, "ResetConfigDefaults", body, meant)
      BY <1>9, <2>2 DEF ResetConfigDefaults
    <3>5. /\ DOMAIN body = keys /\ DOMAIN meant = keys
          /\ \A s \in keys : body[s] = DefaultOf(s) /\ meant[s] = {DefaultOf(s)}
      OBVIOUS
    <3> HIDE DEF body, meant
    <3>6. /\ DOMAIN body \subseteq Config /\ DOMAIN meant = DOMAIN body
          /\ \A s \in DOMAIN body :
               meant[s] = {body[s]} /\ body[s] \in ValuesOf(s)
      BY <3>2, <3>3, <3>5
    <3>7. QED
      BY <1>1, <3>4, <3>6, StoreStep
  <2>3. QED
    BY <2>1, <2>2
<1>10. QED
  BY <1>3, <1>4, <1>5, <1>6, <1>7, <1>8, <1>9

(* A level that is not refused is one that the radar takes. *)
LEMMA ThresholdLevels ==
  \A level \in {0, 3, 10} : level \in 1..9 => level \in ValuesOf("level")
BY ConfigNames

(* Where there is no second frame the second table of a request is not     *)
(* stored, and the caller is left with what was known of it.               *)
LEMMA ThresholdStep ==
  ASSUME ClientInv, NEW c \in Callers, NEW level \in {0, 3, 10},
         NEW hasSecond \in BOOLEAN, SetDetectionThreshold(c, level, hasSecond)
  PROVE  ClientInv'
<1> DEFINE first == [level |-> level]
           second == IF hasSecond THEN [secondTable |-> "new"] ELSE Nothing
           body == Over(first, second)
           meant == [s \in DOMAIN body |-> IF s = "level" THEN {level}
                                           ELSE {"new"} \cup known[s]]
           stored == [s \in {t \in DOMAIN body : t = "secondTable" =>
                               radar.running["range"] \in TwoSubcycle}
                        |-> body[s]]
<1>1. CASE level \notin 1..9
  BY <1>1, InvalidParamStep DEF SetDetectionThreshold
<1>2. CASE level \in 1..9
  <2>1. Set(c, "SetDetectionThreshold", body, meant)
    BY <1>2 DEF SetDetectionThreshold
  <2>2. level \in ValuesOf("level")
    BY <1>2, ThresholdLevels
  <2>3. Effect("SetDetectionThreshold", body) = Store(radar, stored)
    BY DEF Effect
  <2>4. /\ DOMAIN first = {"level"} /\ first["level"] = level
        /\ DOMAIN second \subseteq {"secondTable"}
        /\ \A s \in DOMAIN second : second[s] = "new"
    BY OnlyDef DEF Nothing
  <2> HIDE DEF first, second
  <2>5. /\ DOMAIN body \subseteq {"level", "secondTable"}
        /\ "level" \in DOMAIN body /\ body["level"] = level
        /\ \A s \in DOMAIN body : s # "level" => body[s] = "new"
    <3>1. /\ DOMAIN body = DOMAIN first \cup DOMAIN second
          /\ \A s \in DOMAIN first : body[s] = first[s]
          /\ \A s \in (DOMAIN second) \ (DOMAIN first) : body[s] = second[s]
      BY OverDef
    <3> HIDE DEF body
    <3>2. QED
      BY <2>4, <3>1
  <2> HIDE DEF body
  <2>6. /\ DOMAIN meant = DOMAIN body /\ meant["level"] = {level}
        /\ \A s \in DOMAIN body :
             s # "level" => meant[s] = {"new"} \cup known[s]
    BY <2>5
  <2>7. /\ DOMAIN stored \subseteq DOMAIN body /\ "level" \in DOMAIN stored
        /\ \A s \in DOMAIN stored : stored[s] = body[s]
    BY <2>5
  <2> HIDE DEF meant, stored
  <2>8. DOMAIN body \subseteq Settings /\ "session" \notin DOMAIN body
    BY <2>5, SettingNames, ConfigNames DEF Threshold
  <2>9. Shape(radar)
    BY DEF ClientInv, ShapeInv, Shape
  <2>10. /\ \A s \in DOMAIN stored : Store(radar, stored).stored[s] = stored[s]
         /\ \A s \in Settings \ DOMAIN stored :
              Store(radar, stored).stored[s] = radar.stored[s]
    BY <2>7, <2>8, <2>9, StoreDef
  <2>11. \A s \in Settings : /\ known[s] \subseteq ValuesOf(s)
                             /\ radar.stored[s] \in known[s]
    BY DEF ClientInv, TypeOK, CallerKnows
  <2>12. "new" \in ValuesOf("secondTable")
    BY ConfigNames DEF Values
  <2>13. \A s \in DOMAIN meant :
           /\ meant[s] \subseteq ValuesOf(s)
           /\ Store(radar, stored).stored[s] \in meant[s]
    <3>1. /\ meant["level"] \subseteq ValuesOf("level")
          /\ Store(radar, stored).stored["level"] \in meant["level"]
      BY <2>2, <2>5, <2>6, <2>7, <2>10
    <3>2. ASSUME NEW s \in DOMAIN body, s # "level"
          PROVE  /\ meant[s] \subseteq ValuesOf(s)
                 /\ Store(radar, stored).stored[s] \in meant[s]
      <4>1. s = "secondTable" /\ s \in Settings
        BY <2>5, <2>8, <3>2
      <4>2. meant[s] \subseteq ValuesOf(s)
        BY <2>6, <2>11, <2>12, <3>2, <4>1
      <4>3. Store(radar, stored).stored[s] \in {"new", radar.stored[s]}
        BY <2>5, <2>7, <2>10, <3>2, <4>1
      <4>4. QED
        BY <2>6, <2>11, <3>2, <4>1, <4>2, <4>3
    <3>3. QED
      BY <2>6, <3>1, <3>2
  <2>14. \A s \in Settings \ DOMAIN meant :
           Store(radar, stored).stored[s] = radar.stored[s]
    BY <2>6, <2>7, <2>10
  <2>15. DOMAIN meant \subseteq Settings /\ "session" \notin DOMAIN meant
    BY <2>6, <2>8
  <2>16. QED
    BY <2>1, <2>3, <2>8, <2>13, <2>14, <2>15, SetStep
<1>3. QED
  BY <1>1, <1>2

(* Storing a value for the transfer leaves all the rest as it is. *)
LEMMA StoreSession ==
  ASSUME NEW r, Shape(r), NEW v
  PROVE  /\ Shape(Store(r, Only(Session, v)))
         /\ Store(r, Only(Session, v)).mode = r.mode
         /\ Store(r, Only(Session, v)).stored["session"] = v
         /\ \A s \in Settings : s # "session" =>
              Store(r, Only(Session, v)).stored[s] = r.stored[s]
<1>1. /\ DOMAIN Only(Session, v) = {"session"}
      /\ Only(Session, v)["session"] = v
  BY OnlyDef DEF Session
<1>2. DOMAIN Only(Session, v) \subseteq Settings
  BY <1>1, SettingNames
<1>3. QED
  BY <1>1, <1>2, StoreDef

(* What ends a transfer, and does nothing else. *)
LEMMA EndsTransfer ==
  ASSUME ClientInv, NEW c \in Callers, NEW method, method # "SetMode",
         Set(c, method, Nothing, Only(Session, {"none"})),
         Effect(method, Nothing) \in {Booted(radar), Store(radar, Only(Session, "none"))}
  PROVE  ClientInv'
<1>1. DOMAIN Nothing \subseteq Settings
  BY OnlyDef DEF Nothing
<1>2. /\ DOMAIN Only(Session, {"none"}) = {"session"}
      /\ Only(Session, {"none"})["session"] = {"none"}
  BY OnlyDef DEF Session
<1>3. Shape(radar)
  BY DEF ClientInv, ShapeInv, Shape
<1>4. /\ Effect(method, Nothing).stored["session"] = "none"
      /\ \A s \in Settings : s # "session" =>
           Effect(method, Nothing).stored[s] = radar.stored[s]
  <2>1. CASE Effect(method, Nothing) = Booted(radar)
    BY <1>3, <2>1, BootedDef
  <2>2. CASE Effect(method, Nothing) = Store(radar, Only(Session, "none"))
    BY <1>3, <2>2, StoreSession
  <2>3. QED
    BY <2>1, <2>2
<1>5. "none" \in ValuesOf("session")
  BY DEF ValuesOf
<1>6. QED
  BY <1>1, <1>2, <1>4, <1>5, SettingNames, SetStep

(* The defaults of the configuration are values. *)
LEMMA DefaultValues ==
  \A s \in Config : DefaultOf(s) \in ValuesOf(s)
<1>1. ASSUME NEW s \in Config, s \notin {"range", "profile", "level"}
      PROVE  ValuesOf(s) = Values /\ DefaultOf(s) = "default"
  BY <1>1, SettingNames DEF DefaultOf, ValuesOf
<1>2. "default" \in Values
  BY DEF Values
<1>3. /\ DefaultOf("range") = 0 /\ DefaultOf("profile") = 0
      /\ DefaultOf("level") = 5
  BY DEF DefaultOf
<1>4. 0 \in ValuesOf("range") /\ 0 \in ValuesOf("profile") /\ 5 \in ValuesOf("level")
  BY ConfigNames
<1>5. QED
  BY <1>1, <1>2, <1>3, <1>4

(* A reset of all settings leaves the address, the face and the mode of    *)
(* the boot.                                                               *)
LEMMA ResetAllStep ==
  ASSUME ClientInv, NEW c \in Callers, ResetAllSettings(c)
  PROVE  ClientInv'
<1> DEFINE rest == Config \ {"address"}
           default == [s \in rest |-> DefaultOf(s)]
           defaults == [s \in rest |-> {DefaultOf(s)}]
           none == Only(Session, {"none"})
           meant == Over(defaults, none)
           effect == Effect("ResetAllSettings", Nothing)
<1>1. Set(c, "ResetAllSettings", Nothing, meant)
  BY DEF ResetAllSettings
<1>2. DOMAIN Nothing \subseteq Settings
  BY OnlyDef DEF Nothing
<1>3. effect = Booted(Store(radar, default))
  BY DEF Effect
<1>4. /\ DOMAIN default = rest /\ DOMAIN defaults = rest
      /\ \A s \in rest : default[s] = DefaultOf(s) /\ defaults[s] = {DefaultOf(s)}
  OBVIOUS
<1>5. rest \subseteq Config /\ rest \subseteq Settings /\ "session" \notin rest
  BY SettingNames
<1>6. DOMAIN none = {"session"} /\ none["session"] = {"none"}
  BY OnlyDef DEF Session
<1> HIDE DEF rest, default, defaults, none, effect
<1>7. /\ DOMAIN meant = rest \cup {"session"} /\ meant["session"] = {"none"}
      /\ \A s \in rest : meant[s] = {DefaultOf(s)}
  <2>1. /\ DOMAIN meant = DOMAIN defaults \cup DOMAIN none
        /\ \A s \in DOMAIN defaults : meant[s] = defaults[s]
        /\ \A s \in (DOMAIN none) \ (DOMAIN defaults) : meant[s] = none[s]
    BY OverDef
  <2> HIDE DEF meant
  <2>2. QED
    BY <2>1, <1>4, <1>5, <1>6
<1> HIDE DEF meant
<1>8. Shape(radar)
  BY DEF ClientInv, ShapeInv, Shape
<1>9. /\ Shape(Store(radar, default))
      /\ \A s \in rest : Store(radar, default).stored[s] = DefaultOf(s)
      /\ \A s \in Settings \ rest :
           Store(radar, default).stored[s] = radar.stored[s]
  BY <1>4, <1>5, <1>8, StoreDef
<1>10. /\ effect.stored["session"] = "none"
       /\ \A s \in rest : effect.stored[s] = DefaultOf(s)
       /\ \A s \in Settings \ rest :
            s # "session" => effect.stored[s] = radar.stored[s]
  BY <1>3, <1>5, <1>9, BootedDef
<1>11. "none" \in ValuesOf("session") /\ \A s \in rest : DefaultOf(s) \in ValuesOf(s)
  BY <1>5, DefaultValues DEF ValuesOf
<1>12. \A s \in DOMAIN meant :
         meant[s] \subseteq ValuesOf(s) /\ effect.stored[s] \in meant[s]
  BY <1>7, <1>10, <1>11
<1>13. \A s \in Settings \ DOMAIN meant : effect.stored[s] = radar.stored[s]
  BY <1>7, <1>10
<1>14. DOMAIN meant \subseteq Settings
  BY <1>5, <1>7, SettingNames
<1>15. "none" \in meant["session"]
  BY <1>7
<1>16. \A s \in DOMAIN meant :
         /\ meant[s] \subseteq ValuesOf(s)
         /\ Effect("ResetAllSettings", Nothing).stored[s] \in meant[s]
  BY <1>12 DEF effect
<1>17. \A s \in Settings \ DOMAIN meant :
         Effect("ResetAllSettings", Nothing).stored[s] = radar.stored[s]
  BY <1>13 DEF effect
<1>18. QED
  BY <1>1, <1>2, <1>14, <1>15, <1>16, <1>17, SetStep

(* The SETs, the resets and the restart keep the invariant. *)
LEMMA WritesStep ==
  ASSUME ClientInv, NEW c \in Callers, Writes(c)
  PROVE  ClientInv'
<1>1. CASE Restart(c)
  <2>1. Effect("Restart", Nothing) = Booted(radar)
    BY DEF Effect
  <2>2. QED
    BY <1>1, <2>1, EndsTransfer DEF Restart
<1>2. QED
  BY <1>1, NetworkStep, StructuresStep, ThresholdStep, ResetAllStep DEF Writes

(* A transfer is opened with the check that its caller asked for: a bare   *)
(* crc32 gets its prefix.                                                  *)
LEMMA StartStep ==
  ASSUME ClientInv, NEW c \in Callers, NEW crc32 \in {"0x", "bare", ""},
         FirmwareUpdateStart(c, crc32)
  PROVE  ClientInv'
<1> DEFINE body == [crc32 |-> normalize_crc32(crc32)]
           check == IF crc32 = "" THEN "unchecked" ELSE "image"
           checks == {"none", check}
           meant == Only(Session, checks)
<1>1. Set(c, "FirmwareUpdateStart", body, meant)
  BY DEF FirmwareUpdateStart
<1>2. Effect("FirmwareUpdateStart", body) = Store(radar, Only(Session, check))
  <2>1. body.crc32 = IF crc32 = "" THEN "" ELSE "0x"
    BY DEF normalize_crc32
  <2> HIDE DEF body
  <2>2. (CASE body.crc32 = "0x" -> "image" [] body.crc32 = "bare" -> "decimal"
           [] body.crc32 = "" -> "unchecked") = check
    BY <2>1
  <2>3. Effect("FirmwareUpdateStart", body) =
          Store(radar, Only(Session,
                            CASE body.crc32 = "0x" -> "image"
                              [] body.crc32 = "bare" -> "decimal"
                              [] body.crc32 = "" -> "unchecked"))
    BY DEF Effect
  <2> HIDE DEF check
  <2>4. QED
    BY <2>2, <2>3
<1>3. check \in ValuesOf("session") /\ "none" \in ValuesOf("session")
  BY DEF ValuesOf
<1> HIDE DEF body, check
<1>4. /\ checks \subseteq ValuesOf("session")
      /\ check \in checks /\ "none" \in checks
  BY <1>3
<1> HIDE DEF checks
<1>5. DOMAIN meant = {"session"} /\ meant["session"] = checks
  <2>1. /\ DOMAIN Only(Session, checks) = Session
        /\ \A s \in Session : Only(Session, checks)[s] = checks
    BY OnlyDef
  <2>2. QED
    BY <2>1 DEF Session
<1> HIDE DEF meant
<1>6. Shape(radar)
  BY DEF ClientInv, ShapeInv, Shape
<1>7. /\ Effect("FirmwareUpdateStart", body).stored["session"] = check
      /\ \A s \in Settings : s # "session" =>
           Effect("FirmwareUpdateStart", body).stored[s] = radar.stored[s]
  <2>1. PICK v : v = check
    OBVIOUS
  <2>2. /\ Store(radar, Only(Session, v)).stored["session"] = v
        /\ \A s \in Settings : s # "session" =>
             Store(radar, Only(Session, v)).stored[s] = radar.stored[s]
    BY <1>6, StoreSession
  <2>3. Effect("FirmwareUpdateStart", body) = Store(radar, Only(Session, v))
    BY <1>2, <2>1
  <2>4. QED
    BY <2>1, <2>2, <2>3
<1>8. QED
  BY <1>1, <1>4, <1>5, <1>7, SettingNames, SetStep

(* A switch of the slot leaves the face that the caller knows it was not   *)
(* left with.                                                              *)
LEMMA SwitchStep ==
  ASSUME ClientInv, NEW c \in Callers, FirmwareSwitchSlot(c)
  PROVE  ClientInv'
<1> DEFINE other == CHOOSE f \in {"A", "B"} : f # radar.stored["face"]
           faces == {f \in {"A", "B"} : {f} # known["face"]}
           meant == Only(Boot, faces)
<1>1. Set(c, "FirmwareSwitchSlot", Nothing, meant)
  BY DEF FirmwareSwitchSlot
<1>2. Effect("FirmwareSwitchSlot", Nothing) = Store(radar, Only(Boot, other))
  BY DEF Effect
<1>3. radar.stored["face"] \in known["face"] /\ ValuesOf("face") = {"A", "B"}
  BY SettingNames DEF ClientInv, CallerKnows, ValuesOf
<1>4. other \in {"A", "B"} /\ other # radar.stored["face"]
  <2>1. \E f \in {"A", "B"} : f # radar.stored["face"]
    OBVIOUS
  <2>2. QED
    BY <2>1
<1> HIDE DEF other
<1>5. other \in faces
  BY <1>3, <1>4
<1>6. faces \subseteq ValuesOf("face")
  BY <1>3
<1> HIDE DEF faces
<1>7. /\ DOMAIN meant = {"face"} /\ meant["face"] = faces
      /\ DOMAIN Only(Boot, other) = {"face"}
      /\ Only(Boot, other)["face"] = other
  BY OnlyDef DEF Boot
<1> HIDE DEF meant
<1>8. Shape(radar)
  BY DEF ClientInv, ShapeInv, Shape
<1>9. DOMAIN Only(Boot, other) \subseteq Settings
  BY <1>7, SettingNames
<1>10. /\ Effect("FirmwareSwitchSlot", Nothing).stored["face"] = other
       /\ \A s \in Settings : s # "face" =>
            Effect("FirmwareSwitchSlot", Nothing).stored[s] = radar.stored[s]
  BY <1>2, <1>7, <1>8, <1>9, StoreDef
<1>11. DOMAIN Nothing \subseteq Settings
  BY OnlyDef DEF Nothing
<1>12. QED
  BY <1>1, <1>5, <1>6, <1>7, <1>10, <1>11, SettingNames, SetStep

(* A chunk of an image is not stored among the settings. *)
LEMMA ChunkStep ==
  ASSUME ClientInv, NEW c \in Callers, NEW chunk \in {"null", "data"},
         FirmwareDataChunk(c, chunk)
  PROVE  ClientInv'
<1>1. CASE chunk = "null"
  BY <1>1, InvalidParamStep DEF FirmwareDataChunk
<1>2. CASE chunk # "null"
  <2>1. Set(c, "FirmwareDataChunk", Nothing, Nothing)
    BY <1>2 DEF FirmwareDataChunk
  <2>2. DOMAIN Nothing = {}
    BY OnlyDef DEF Nothing
  <2>3. Effect("FirmwareDataChunk", Nothing) = Store(radar, Nothing)
    BY DEF Effect
  <2>4. Shape(radar)
    BY DEF ClientInv, ShapeInv, Shape
  <2>5. \A s \in Settings : Store(radar, Nothing).stored[s] = radar.stored[s]
    BY <2>2, <2>4, StoreDef
  <2>6. QED
    BY <2>1, <2>2, <2>3, <2>5, SetStep
<1>3. QED
  BY <1>1, <1>2

(* The methods of the firmware update keep the invariant. *)
LEMMA UpdatesStep ==
  ASSUME ClientInv, NEW c \in Callers, Updates(c)
  PROVE  ClientInv'
<1>1. /\ Effect("FirmwareUpdateCommit", Nothing) = Store(radar, Only(Session, "none"))
      /\ Effect("FirmwareUpdateAbort", Nothing) = Store(radar, Only(Session, "none"))
      /\ Effect("FirmwareUpdateReboot", Nothing) = Booted(radar)
  BY DEF Effect
<1>2. CASE FirmwareUpdateCommit(c)
  BY <1>1, <1>2, EndsTransfer DEF FirmwareUpdateCommit
<1>3. CASE FirmwareUpdateAbort(c)
  BY <1>1, <1>3, EndsTransfer DEF FirmwareUpdateAbort
<1>4. CASE FirmwareUpdateReboot(c)
  BY <1>1, <1>4, EndsTransfer DEF FirmwareUpdateReboot
<1>5. QED
  BY <1>2, <1>3, <1>4, StartStep, SwitchStep, ChunkStep DEF Updates

-----------------------------------------------------------------------------
(* The access mode *)

(* A request for a mode leaves what is stored, and kOk with an answer that *)
(* passed the check says that the radar took the mode.                     *)
LEMMA ModeExchange ==
  ASSUME ClientInv, NEW m \in Modes, NEW x \in Exchange("SetMode", [mode |-> m], {}),
         radar' = x.radar
  PROVE  /\ Shape(radar') /\ radar'.stored = radar.stored
         /\ radar'.mode \in {radar.mode, m}
         /\ Trusted(x) => radar'.mode = m
<1>1. Shape(radar)
  BY DEF ClientInv, ShapeInv, Shape
<1>2. Effect("SetMode", [mode |-> m]) = [radar EXCEPT !.mode = m]
  BY DEF Effect
<1>3. /\ Shape([radar EXCEPT !.mode = m])
      /\ [radar EXCEPT !.mode = m].stored = radar.stored
      /\ [radar EXCEPT !.mode = m].mode = m
  BY <1>1 DEF Shape
<1>4. /\ x.radar \in {radar, Effect("SetMode", [mode |-> m])}
      /\ Trusted(x) => x.radar = Effect("SetMode", [mode |-> m])
  BY ExchangeDef
<1>5. QED
  BY <1>1, <1>2, <1>3, <1>4

(* A step that leaves what is stored and what the answers said of it       *)
(* keeps the invariant if it keeps what is said of the modes.              *)
LEMMA StoredSame ==
  ASSUME ClientInv, Shape(radar'), radar'.stored = radar.stored,
         radar'.mode \in Modes, known' = known, asked' \in BOOLEAN,
         client' \in BOOLEAN, calls' \in 0..MaxCalls,
         radar'.mode = "kProgramming" => asked',
         enter' \in [Callers -> Enters], EnterInv', EnterModeReaches'
  PROVE  ClientInv'
<1>1. TypeOK'
  BY DEF ClientInv, TypeOK
<1>2. ShapeInv' /\ CallerKnows' /\ TransferInv' /\ ProgrammingOnlyWhenAsked'
  BY DEF ClientInv, ShapeInv, Shape, CallerKnows, TransferInv,
         ProgrammingOnlyWhenAsked
<1>3. QED
  BY <1>1, <1>2 DEF ClientInv

(* SetMode: another call may ask for a mode while EnterMode is under way. *)
LEMMA SetModeStep ==
  ASSUME ClientInv, NEW c \in Callers, NEW mode \in Modes, SetMode(c, mode)
  PROVE  ClientInv'
<1>1. CASE mode \notin {"kDiagnostic", "kProgramming"}
  BY <1>1, InvalidParamStep DEF SetMode
<1>2. CASE mode \in {"kDiagnostic", "kProgramming"}
  <2>1. PICK x \in Exchange("SetMode", [mode |-> mode], {}) : radar' = x.radar
    BY <1>2 DEF SetMode
  <2>2. /\ Delegate(c) /\ enter' = Watched(enter) /\ known' = known
        /\ asked' = (asked \/ mode = "kProgramming")
    BY <1>2 DEF SetMode, Asks
  <2>3. /\ Shape(radar') /\ radar'.stored = radar.stored
        /\ radar'.mode \in {radar.mode, mode}
    BY <2>1, ModeExchange
  <2>4. /\ TypeOK /\ radar.mode \in Modes /\ asked \in BOOLEAN
        /\ radar.mode = "kProgramming" => asked
    BY DEF ClientInv, TypeOK, ProgrammingOnlyWhenAsked
  <2>5. asked' \in BOOLEAN /\ (asked => asked') /\ (mode = "kProgramming" => asked')
    BY <2>2
  <2>6. enter' \in [Callers -> Enters] /\ EnterInv' /\ EnterModeReaches'
    BY <2>2, <2>5, WatchedOnly
  <2>7. radar'.mode \in Modes /\ (radar'.mode = "kProgramming" => asked')
    BY <2>3, <2>4, <2>5
  <2>8. client' \in BOOLEAN /\ calls' \in 0..MaxCalls
    BY <2>2, <2>4, DelegateTypes
  <2>9. QED
    BY <2>2, <2>3, <2>5, <2>6, <2>7, <2>8, StoredSame
<1>3. QED
  BY <1>1, <1>2

(* EnterMode begins: from now on it sees the modes of the radar. *)
LEMMA EnterModeStep ==
  ASSUME ClientInv, NEW c \in Callers, NEW target \in Modes, EnterMode(c, target)
  PROVE  ClientInv'
<1>1. CASE target = "kNormal"
  BY <1>1, InvalidParamStep DEF EnterMode
<1>2. CASE target # "kNormal"
  <2> DEFINE begun == [step |-> "get", target |-> target,
                       reached |-> radar.mode = target, e2eOk |-> FALSE]
  <2>1. /\ Delegate(c) /\ enter' = [enter EXCEPT ![c] = begun]
        /\ asked' = (asked \/ target = "kProgramming")
        /\ radar' = radar /\ known' = known
    BY <1>2 DEF EnterMode, Asks
  <2>2. /\ TypeOK /\ radar.mode \in Modes /\ asked \in BOOLEAN
        /\ enter \in [Callers -> Enters] /\ Shape(radar)
        /\ radar.mode = "kProgramming" => asked
    BY DEF ClientInv, TypeOK, ShapeInv, Shape, ProgrammingOnlyWhenAsked
  <2>3. asked' \in BOOLEAN /\ (asked => asked') /\ (target = "kProgramming" => asked')
    BY <2>1, <2>2
  <2>4. target \in {"kDiagnostic", "kProgramming"}
    BY <1>2 DEF Modes
  <2>5. /\ begun \in Enters /\ begun.step = "get" /\ begun.target = target
        /\ begun.reached = (radar.mode = target)
    BY DEF Enters
  <2> HIDE DEF begun
  <2>6. /\ enter' \in [Callers -> Enters] /\ enter'[c] = begun
        /\ \A d \in Callers : d # c => enter'[d] = enter[d]
    BY <2>1, <2>2, <2>5
  <2>7. EnterInv' /\ EnterModeReaches'
    <3>1. ASSUME NEW d \in Callers
          PROVE  /\ Aims(enter[d])'
                 /\ enter'[d].step # "none" /\ radar'.mode = enter'[d].target
                      => enter'[d].reached
                 /\ enter'[d].step = "kOk" /\ enter'[d].e2eOk => enter'[d].reached
      <4>1. CASE d = c
        BY <2>1, <2>3, <2>4, <2>5, <2>6, <4>1 DEF Aims
      <4>2. CASE d # c
        BY <2>1, <2>3, <2>6, <4>2
        DEF ClientInv, EnterInv, EnterModeReaches, Aims
      <4>3. QED
        BY <4>1, <4>2
    <3>2. QED
      BY <3>1 DEF EnterInv, EnterModeReaches
  <2>8. client' \in BOOLEAN /\ calls' \in 0..MaxCalls
    BY <2>1, <2>2, DelegateTypes
  <2>9. QED
    BY <2>1, <2>2, <2>3, <2>6, <2>7, <2>8, StoredSame
<1>3. QED
  BY <1>1, <1>2

(* What the steps of EnterMode make of the call it is in. *)
LEMMA CallGoesOn ==
  ASSUME ClientInv, NEW c \in Callers
  PROVE  /\ \A error : \A e2eOk \in BOOLEAN :
              /\ Done(c, error, e2eOk) \in [Callers -> Enters]
              /\ \A d \in Callers : d # c => Done(c, error, e2eOk)[d] = enter[d]
              /\ error # "kOk" => Done(c, error, e2eOk)[c] = NoCall
         /\ \A e2eOk \in BOOLEAN :
              /\ Done(c, "kOk", e2eOk)[c].step = "kOk"
              /\ Done(c, "kOk", e2eOk)[c].e2eOk = e2eOk
              /\ Done(c, "kOk", e2eOk)[c].target = enter[c].target
              /\ Done(c, "kOk", e2eOk)[c].reached = enter[c].reached
         /\ \A step \in {"diagnostic", "programming"} :
              /\ Goes(c, step) \in [Callers -> Enters]
              /\ \A d \in Callers : d # c => Goes(c, step)[d] = enter[d]
              /\ Goes(c, step)[c].step = step
              /\ Goes(c, step)[c].target = enter[c].target
              /\ Goes(c, step)[c].reached = enter[c].reached
<1>1. enter \in [Callers -> Enters] /\ enter[c] \in Enters
  BY DEF ClientInv, TypeOK
<1>2. NoCall \in Enters
  BY DEF NoCall, Enters, Modes
<1>3. ASSUME NEW step \in {"diagnostic", "programming"}
      PROVE  /\ [enter EXCEPT ![c].step = step] \in [Callers -> Enters]
             /\ \A d \in Callers :
                  d # c => [enter EXCEPT ![c].step = step][d] = enter[d]
             /\ [enter EXCEPT ![c].step = step][c].step = step
             /\ [enter EXCEPT ![c].step = step][c].target = enter[c].target
             /\ [enter EXCEPT ![c].step = step][c].reached = enter[c].reached
  BY <1>1 DEF Enters
<1>4. ASSUME NEW e2eOk \in BOOLEAN
      PROVE  /\ Done(c, "kOk", e2eOk) \in [Callers -> Enters]
             /\ \A d \in Callers : d # c => Done(c, "kOk", e2eOk)[d] = enter[d]
             /\ Done(c, "kOk", e2eOk)[c].step = "kOk"
             /\ Done(c, "kOk", e2eOk)[c].e2eOk = e2eOk
             /\ Done(c, "kOk", e2eOk)[c].target = enter[c].target
             /\ Done(c, "kOk", e2eOk)[c].reached = enter[c].reached
  BY <1>1 DEF Enters, Done
<1>5. ASSUME NEW error, NEW e2eOk \in BOOLEAN, error # "kOk"
      PROVE  /\ Done(c, error, e2eOk) \in [Callers -> Enters]
             /\ \A d \in Callers : d # c => Done(c, error, e2eOk)[d] = enter[d]
             /\ Done(c, error, e2eOk)[c] = NoCall
  BY <1>1, <1>2, <1>5 DEF Done
<1>6. QED
  BY <1>3, <1>4, <1>5 DEF Goes

(* What the invariant says of an EnterMode call. *)
LEMMA CallFacts ==
  ASSUME ClientInv, NEW d \in Callers
  PROVE  /\ Aims(enter[d])
         /\ enter[d].step # "none" /\ radar.mode = enter[d].target => enter[d].reached
         /\ enter[d].step = "kOk" /\ enter[d].e2eOk => enter[d].reached
BY DEF ClientInv, EnterInv, EnterModeReaches

(* A thread outside EnterMode aims at nothing. *)
LEMMA NoCallAims ==
  Aims(NoCall) /\ NoCall.step = "none"
BY DEF Aims, NoCall

(* EnterMode after GetMode: done, refused, or on to the next mode. *)
LEMMA EnterGetsStep ==
  ASSUME ClientInv, NEW c \in Callers, EnterGets(c)
  PROVE  ClientInv'
<1>1. /\ enter[c].step = "get"
      /\ UNCHANGED <<client, radar, calls, known, asked>>
  BY DEF EnterGets
<1>2. \E e2eOk \in BOOLEAN :
        \/ \E error : error # "kOk" /\ enter' = Done(c, error, e2eOk)
        \/ /\ e2eOk => radar.mode = enter[c].target
           /\ enter' = Done(c, "kOk", e2eOk)
        \/ enter' = Goes(c, "diagnostic")
        \/ enter[c].target # "kDiagnostic" /\ enter' = Goes(c, "programming")
  <2>1. PICK x \in Exchange("GetMode", Nothing, Mode) :
          LET error == IF x.error = "kOk" /\ ~parse_mode_status(x.data)
                       THEN "kProtocolError" ELSE x.error
              mode  == safe_value(x.data, "mode", "none")
          IN  enter' = CASE error # "kOk" -> Done(c, error, x.e2eOk)
                         [] error = "kOk" /\ mode = enter[c].target ->
                              Done(c, "kOk", x.e2eOk)
                         [] error = "kOk" /\ mode # enter[c].target ->
                              CASE mode = "kProgramming" ->
                                     Done(c, "kAccessDenied", x.e2eOk)
                                [] mode = "kNormal" -> Goes(c, "diagnostic")
                                [] mode = "kDiagnostic" -> Goes(c, "programming")
    BY DEF EnterGets
  <2> DEFINE error == IF x.error = "kOk" /\ ~parse_mode_status(x.data)
                      THEN "kProtocolError" ELSE x.error
             mode == safe_value(x.data, "mode", "none")
  <2>2. x.e2eOk \in BOOLEAN /\ (Trusted(x) => x.data \in Sent(Mode))
    BY ExchangeDef
  <2>3. error = "kOk" => x.error = "kOk" /\ mode \in Modes
    BY DEF parse_mode_status
  <2>4. x.error = "kOk" /\ x.e2eOk /\ mode \in Modes => mode = radar.mode
    <3> SUFFICES ASSUME x.error = "kOk", x.e2eOk, mode \in Modes
                 PROVE  mode = radar.mode
      OBVIOUS
    <3>1. x.data \in Sent(Mode)
      BY <2>2 DEF Trusted
    <3>2. PICK read \in SUBSET Present(Mode) :
            x.data.values = [t \in read |-> Found(t)]
      BY <3>1 DEF Sent
    <3>3. "mode" \in DOMAIN x.data.values
      BY DEF safe_value, Modes
    <3>4. QED
      BY <3>2, <3>3 DEF safe_value, Found
  <2>5. enter' = CASE error # "kOk" -> Done(c, error, x.e2eOk)
                   [] error = "kOk" /\ mode = enter[c].target ->
                        Done(c, "kOk", x.e2eOk)
                   [] error = "kOk" /\ mode # enter[c].target ->
                        CASE mode = "kProgramming" ->
                               Done(c, "kAccessDenied", x.e2eOk)
                          [] mode = "kNormal" -> Goes(c, "diagnostic")
                          [] mode = "kDiagnostic" -> Goes(c, "programming")
    BY <2>1
  <2> HIDE DEF error, mode
  <2>6. CASE error # "kOk"
    BY <2>2, <2>5, <2>6
  <2>7. CASE error = "kOk" /\ mode = enter[c].target
    BY <2>2, <2>3, <2>4, <2>5, <2>7
  <2>8. CASE error = "kOk" /\ mode # enter[c].target
    <3>1. enter' = CASE mode = "kProgramming" -> Done(c, "kAccessDenied", x.e2eOk)
                     [] mode = "kNormal" -> Goes(c, "diagnostic")
                     [] mode = "kDiagnostic" -> Goes(c, "programming")
      BY <2>5, <2>8
    <3>2. CASE mode = "kProgramming"
      BY <2>2, <3>1, <3>2
    <3>3. CASE mode = "kNormal"
      BY <3>1, <3>3
    <3>4. CASE mode = "kDiagnostic"
      BY <2>8, <3>1, <3>4
    <3>5. QED
      BY <2>3, <2>8, <3>2, <3>3, <3>4 DEF Modes
  <2>9. QED
    BY <2>6, <2>7, <2>8
<1>3. /\ enter' \in [Callers -> Enters]
      /\ \A d \in Callers : d # c => enter'[d] = enter[d]
      /\ \/ enter'[c] = NoCall
         \/ /\ enter'[c].target = enter[c].target
            /\ enter'[c].reached = enter[c].reached
            /\ \/ /\ enter'[c].step = "kOk"
                  /\ enter'[c].e2eOk => radar.mode = enter[c].target
               \/ enter'[c].step = "diagnostic"
               \/ /\ enter[c].target # "kDiagnostic"
                  /\ enter'[c].step = "programming"
  BY <1>2, CallGoesOn
<1>4. EnterInv' /\ EnterModeReaches'
  <2>1. ASSUME NEW d \in Callers
        PROVE  /\ Aims(enter[d])'
               /\ enter'[d].step # "none" /\ radar'.mode = enter'[d].target
                    => enter'[d].reached
               /\ enter'[d].step = "kOk" /\ enter'[d].e2eOk => enter'[d].reached
    <3>1. CASE d # c
      BY <1>1, <1>3, <3>1, CallFacts DEF Aims
    <3>2. CASE d = c /\ enter'[c] = NoCall
      BY <3>2, NoCallAims DEF Aims
    <3>3. CASE d = c /\ enter'[c] # NoCall
      <4>1. /\ enter[c].target \in {"kDiagnostic", "kProgramming"}
            /\ enter[c].target = "kProgramming" => asked
            /\ radar.mode = enter[c].target => enter[c].reached
        BY <1>1, CallFacts DEF Aims
      <4>2. QED
        BY <1>1, <1>3, <3>3, <4>1 DEF Aims
    <3>4. QED
      BY <3>1, <3>2, <3>3
  <2>2. QED
    BY <2>1 DEF EnterInv, EnterModeReaches
<1>5. QED
  BY <1>1, <1>3, <1>4
  DEF ClientInv, TypeOK, ShapeInv, CallerKnows, TransferInv,
      ProgrammingOnlyWhenAsked

(* EnterMode after its first SetMode: done, or on to the programming mode. *)
LEMMA EnterDiagnosticStep ==
  ASSUME ClientInv, NEW c \in Callers, EnterDiagnostic(c)
  PROVE  ClientInv'
<1> DEFINE next(x) == IF x.error # "kOk" \/ enter[c].target = "kDiagnostic"
                      THEN Done(c, x.error, x.e2eOk) ELSE Goes(c, "programming")
<1>1. PICK x \in Exchange("SetMode", [mode |-> "kDiagnostic"], {}) :
        radar' = x.radar /\ enter' = Watched(next(x))
  BY DEF EnterDiagnostic
<1>2. enter[c].step = "diagnostic" /\ UNCHANGED <<client, calls, known, asked>>
  BY DEF EnterDiagnostic
<1>3. /\ Shape(radar') /\ radar'.stored = radar.stored
      /\ radar'.mode \in {radar.mode, "kDiagnostic"}
      /\ Trusted(x) => radar'.mode = "kDiagnostic"
      /\ x.e2eOk \in BOOLEAN
  BY <1>1, ModeExchange, ExchangeDef DEF Modes
<1>4. /\ next(x) \in [Callers -> Enters]
      /\ \A d \in Callers : d # c => next(x)[d] = enter[d]
      /\ \/ next(x)[c] = NoCall
         \/ /\ next(x)[c].target = enter[c].target
            /\ \/ /\ next(x)[c].step = "kOk" /\ x.error = "kOk"
                  /\ next(x)[c].e2eOk = x.e2eOk
                  /\ enter[c].target = "kDiagnostic"
               \/ /\ next(x)[c].step = "programming"
                  /\ enter[c].target # "kDiagnostic"
  BY <1>3, CallGoesOn
<1> HIDE DEF next
<1>5. PICK e : e = next(x)
  OBVIOUS
<1>6. ASSUME NEW d \in Callers
      PROVE  /\ Aims(e[d])'
             /\ e[d].step = "kOk" /\ e[d].e2eOk =>
                  e[d].reached \/ radar'.mode = e[d].target
  <2>1. CASE d # c
    BY <1>2, <1>4, <1>5, <2>1, CallFacts DEF Aims
  <2>2. CASE d = c /\ e[c] = NoCall
    BY <2>2, NoCallAims DEF Aims
  <2>3. CASE d = c /\ e[c] # NoCall
    <3>1. /\ enter[c].target \in {"kDiagnostic", "kProgramming"}
          /\ enter[c].target = "kProgramming" => asked
      BY <1>2, CallFacts DEF Aims
    <3>2. QED
      BY <1>2, <1>3, <1>4, <1>5, <2>3, <3>1 DEF Aims, Trusted
  <2>4. QED
    BY <2>1, <2>2, <2>3
<1>7. enter' \in [Callers -> Enters] /\ EnterInv' /\ EnterModeReaches'
  BY <1>1, <1>4, <1>5, <1>6, WatchedEnters
<1>8. /\ radar'.mode \in Modes /\ asked' \in BOOLEAN /\ client' \in BOOLEAN
      /\ calls' \in 0..MaxCalls /\ (radar'.mode = "kProgramming" => asked')
  BY <1>2, <1>3 DEF ClientInv, TypeOK, Modes, ProgrammingOnlyWhenAsked
<1>9. QED
  BY <1>2, <1>3, <1>7, <1>8, StoredSame

(* EnterMode after its last SetMode. *)
LEMMA EnterProgrammingStep ==
  ASSUME ClientInv, NEW c \in Callers, EnterProgramming(c)
  PROVE  ClientInv'
<1>1. PICK x \in Exchange("SetMode", [mode |-> "kProgramming"], {}) :
        radar' = x.radar /\ enter' = Watched(Done(c, x.error, x.e2eOk))
  BY DEF EnterProgramming
<1>2. enter[c].step = "programming" /\ UNCHANGED <<client, calls, known, asked>>
  BY DEF EnterProgramming
<1>3. /\ Shape(radar') /\ radar'.stored = radar.stored
      /\ radar'.mode \in {radar.mode, "kProgramming"}
      /\ Trusted(x) => radar'.mode = "kProgramming"
      /\ x.e2eOk \in BOOLEAN
  BY <1>1, ModeExchange, ExchangeDef DEF Modes
<1>4. enter[c].target = "kProgramming" /\ asked
  BY <1>2, CallFacts DEF Aims
<1>5. PICK e : e = Done(c, x.error, x.e2eOk)
  OBVIOUS
<1>6. /\ e \in [Callers -> Enters]
      /\ \A d \in Callers : d # c => e[d] = enter[d]
      /\ \/ e[c] = NoCall
         \/ /\ e[c].target = "kProgramming"
            /\ e[c].step = "kOk" /\ x.error = "kOk"
            /\ e[c].e2eOk = x.e2eOk
  BY <1>3, <1>5, <1>4, CallGoesOn
<1>7. ASSUME NEW d \in Callers
      PROVE  /\ Aims(e[d])'
             /\ e[d].step = "kOk" /\ e[d].e2eOk =>
                  e[d].reached \/ radar'.mode = e[d].target
  <2>1. CASE d # c
    BY <1>2, <1>6, <2>1, CallFacts DEF Aims
  <2>2. CASE d = c /\ e[c] = NoCall
    BY <2>2, NoCallAims DEF Aims
  <2>3. CASE d = c /\ e[c] # NoCall
    BY <1>2, <1>3, <1>4, <1>6, <2>3 DEF Aims, Trusted
  <2>4. QED
    BY <2>1, <2>2, <2>3
<1>8. enter' = Watched(e)
  BY <1>5, <1>1
<1>9. enter' \in [Callers -> Enters] /\ EnterInv' /\ EnterModeReaches'
  BY <1>6, <1>7, <1>8, WatchedEnters
<1>10. /\ radar'.mode \in Modes /\ asked' \in BOOLEAN /\ client' \in BOOLEAN
      /\ calls' \in 0..MaxCalls /\ (radar'.mode = "kProgramming" => asked')
  BY <1>2, <1>3, <1>4 DEF ClientInv, TypeOK, Modes
<1>11. QED
  BY <1>2, <1>3, <1>9, <1>10, StoredSame

(* EnterMode returns kOk. *)
LEMMA EnterReturnsStep ==
  ASSUME ClientInv, NEW c \in Callers, EnterReturns(c)
  PROVE  ClientInv'
<1>1. /\ enter' = [enter EXCEPT ![c] = NoCall]
      /\ UNCHANGED <<client, radar, calls, known, asked>>
  BY DEF EnterReturns
<1>2. NoCall \in Enters /\ enter \in [Callers -> Enters]
  BY DEF NoCall, Enters, Modes, ClientInv, TypeOK
<1>3. /\ enter' \in [Callers -> Enters] /\ enter'[c] = NoCall
      /\ \A d \in Callers : d # c => enter'[d] = enter[d]
  BY <1>1, <1>2
<1>4. ASSUME NEW d \in Callers
      PROVE  /\ Aims(enter[d])'
             /\ enter'[d].step # "none" /\ radar'.mode = enter'[d].target
                  => enter'[d].reached
             /\ enter'[d].step = "kOk" /\ enter'[d].e2eOk => enter'[d].reached
  <2>1. CASE d # c
    BY <1>1, <1>3, <2>1, CallFacts DEF Aims
  <2>2. CASE d = c
    BY <1>3, <2>2, NoCallAims DEF Aims
  <2>3. QED
    BY <2>1, <2>2
<1>5. EnterInv' /\ EnterModeReaches'
  BY <1>4 DEF EnterInv, EnterModeReaches
<1>6. QED
  BY <1>1, <1>3, <1>5
  DEF ClientInv, TypeOK, ShapeInv, CallerKnows, TransferInv,
      ProgrammingOnlyWhenAsked

-----------------------------------------------------------------------------
(* The SDK and the radar *)

(* The radar loses the transfer, and the access mode, of its own accord. *)
LEMMA RadarStep ==
  ASSUME ClientInv, Reboot \/ TransferTimesOut
  PROVE  ClientInv'
<1>1. /\ Shape(radar) /\ TypeOK
      /\ radar.mode \in Modes
      /\ radar.mode = "kProgramming" => asked
  BY DEF ClientInv, TypeOK, ShapeInv, Shape, ProgrammingOnlyWhenAsked
<1>2. /\ Shape(radar') /\ radar'.mode \in {radar.mode, "kNormal"}
      /\ radar'.stored["session"] = "none"
      /\ \A s \in Settings : s # "session" => radar'.stored[s] = radar.stored[s]
      /\ UNCHANGED <<client, calls, known, asked>>
      /\ enter' \in [Callers -> Enters] /\ EnterInv' /\ EnterModeReaches'
  <2>1. CASE Reboot
    <3>1. /\ radar' = Booted(radar) /\ enter' = Watched(enter)
          /\ UNCHANGED <<client, calls, known, asked>>
      BY <2>1 DEF Reboot
    <3>2. enter' \in [Callers -> Enters] /\ EnterInv' /\ EnterModeReaches'
      BY <3>1, WatchedOnly
    <3>3. QED
      BY <1>1, <3>1, <3>2, BootedDef
  <2>2. CASE TransferTimesOut
    <3>1. /\ radar' = Store(radar, Only(Session, "none"))
          /\ UNCHANGED <<client, enter, calls, known, asked>>
      BY <2>2 DEF TransferTimesOut
    <3>2. /\ Shape(radar') /\ radar'.mode = radar.mode
          /\ radar'.stored["session"] = "none"
          /\ \A s \in Settings : s # "session" => radar'.stored[s] = radar.stored[s]
      BY <1>1, <3>1, StoreSession
    <3>3. enter' \in [Callers -> Enters] /\ EnterInv' /\ EnterModeReaches'
      BY <3>1, <3>2
      DEF ClientInv, TypeOK, EnterInv, EnterModeReaches, Aims
    <3>4. QED
      BY <3>1, <3>2, <3>3
  <2>3. QED
    BY <2>1, <2>2
<1>3. \A s \in Settings : /\ known'[s] \subseteq ValuesOf(s)
                          /\ radar'.stored[s] \in known'[s]
  BY <1>2 DEF ClientInv, TypeOK, CallerKnows, TransferInv
<1>4. \A s \in Settings : radar'.stored[s] \in ValuesOf(s)
  BY <1>3
<1>5. TypeOK'
  BY <1>1, <1>2, <1>3, <1>4 DEF TypeOK, Modes
<1>6. ShapeInv' /\ CallerKnows' /\ TransferInv' /\ ProgrammingOnlyWhenAsked'
  BY <1>1, <1>2, <1>3
  DEF ClientInv, ShapeInv, Shape, CallerKnows, TransferInv,
      ProgrammingOnlyWhenAsked
<1>7. QED
  BY <1>2, <1>5, <1>6 DEF ClientInv

(* A call before Init is counted, and does nothing. *)
LEMMA NotInitializedStep ==
  ASSUME ClientInv, NEW c \in Callers, NotInitialized(c)
  PROVE  ClientInv'
<1>1. calls \in 0..MaxCalls /\ client \in BOOLEAN
  BY DEF ClientInv, TypeOK
<1>2. calls' \in 0..MaxCalls
  BY <1>1, ClientAssumption DEF NotInitialized
<1>3. QED
  BY <1>1, <1>2, SdkStep DEF NotInitialized

-----------------------------------------------------------------------------
(* The invariant *)

(* What is stored at the start is a value. *)
LEMMA OldValues ==
  \A s \in Settings : OldOf(s) \in ValuesOf(s)
<1>1. ASSUME NEW s \in Settings,
             s \notin {"range", "profile", "level", "face", "session"}
      PROVE  OldOf(s) \in ValuesOf(s)
  <2>1. OldOf(s) = "old"
    BY <1>1 DEF OldOf
  <2>2. ValuesOf(s) = Values
    BY <1>1, SettingNames DEF ValuesOf
  <2>3. QED
    BY <2>1, <2>2 DEF Values
<1>2. /\ OldOf("range") = 0 /\ OldOf("profile") = 0 /\ OldOf("level") = 5
      /\ OldOf("face") = "A" /\ OldOf("session") = "none"
  BY DEF OldOf
<1>3. /\ 0 \in ValuesOf("range") /\ 0 \in ValuesOf("profile")
      /\ 5 \in ValuesOf("level")
  BY ConfigNames
<1>4. "A" \in ValuesOf("face") /\ "none" \in ValuesOf("session")
  BY DEF ValuesOf
<1>5. QED
  BY <1>1, <1>2, <1>3, <1>4

(* The invariant holds at the start, *)
LEMMA InitInv == Init => ClientInv
<1> SUFFICES ASSUME Init PROVE ClientInv
  OBVIOUS
<1>1. PICK mode \in Modes, old \in {[range |-> 0, profile |-> 0],
                                   [range |-> 3, profile |-> 1]} :
        LET stored == [s \in Settings |-> IF s \in DOMAIN old THEN old[s] ELSE OldOf(s)]
        IN  /\ radar = [mode |-> mode, stored |-> stored,
                        running |-> [s \in Range \cup Ptp |-> stored[s]]]
            /\ asked = (mode = "kProgramming")
            /\ known = [s \in Settings |-> {stored[s]}]
  BY DEF Init
<1> DEFINE stored == [s \in Settings |-> IF s \in DOMAIN old THEN old[s] ELSE OldOf(s)]
<1>0. DOMAIN old = {"range", "profile"} /\ old["range"] \in {0, 3} /\ old["profile"] \in 0..2
  OBVIOUS
<1>2. \A s \in Settings : stored[s] \in ValuesOf(s)
  <2>1. \A s \in Settings : OldOf(s) \in ValuesOf(s)
    BY OldValues
  <2>2. ValuesOf("range") = {0, 3} /\ ValuesOf("profile") = 0..2
    BY ConfigNames
  <2>3. QED
    BY <1>0, <2>1, <2>2
<1>3. DOMAIN stored = Settings /\ stored["session"] = "none"
  BY <1>0, SettingNames DEF OldOf
<1>4. /\ Shape(radar) /\ radar.mode = mode /\ radar.stored = stored
      /\ known = [s \in Settings |-> {stored[s]}]
      /\ asked = (mode = "kProgramming")
  BY <1>1, <1>3 DEF Shape
<1> HIDE DEF stored
<1>5. client = FALSE /\ calls = 0 /\ enter = [c \in Callers |-> NoCall]
  BY DEF Init
<1>6. NoCall \in Enters
  BY DEF NoCall, Enters, Modes
<1>7. enter \in [Callers -> Enters] /\ \A c \in Callers : enter[c] = NoCall
  BY <1>5, <1>6
<1>8. EnterInv /\ EnterModeReaches
  BY <1>7, NoCallAims DEF EnterInv, EnterModeReaches
<1>9. /\ DOMAIN known = Settings
      /\ \A s \in Settings : known[s] = {stored[s]}
  BY <1>4
<1>10. TypeOK
  <2>1. client \in BOOLEAN /\ calls \in 0..MaxCalls
    <3>1. 0 \in 0..MaxCalls
      BY ClientAssumption
    <3>2. QED
      BY <1>5, <3>1
  <2>2. radar.mode \in Modes /\ asked \in BOOLEAN
    BY <1>4
  <2>3. \A s \in Settings :
          radar.stored[s] \in ValuesOf(s) /\ known[s] \subseteq ValuesOf(s)
    BY <1>2, <1>4, <1>9
  <2>4. QED
    BY <1>7, <2>1, <2>2, <2>3 DEF TypeOK
<1>11. ShapeInv /\ CallerKnows /\ TransferInv /\ ProgrammingOnlyWhenAsked
  BY <1>3, <1>4, <1>9, SettingNames
  DEF Shape, ShapeInv, CallerKnows, TransferInv, ProgrammingOnlyWhenAsked
<1>12. QED
  BY <1>8, <1>10, <1>11 DEF ClientInv

(* and every step of a caller, of the SDK or of the radar keeps it. *)
LEMMA NextInv == ClientInv /\ [Next]_vars => ClientInv'
<1> SUFFICES ASSUME ClientInv, [Next]_vars PROVE ClientInv'
  OBVIOUS
<1>1. ASSUME NEW c \in Callers,
             Queries(c) \/ Writes(c) \/ Updates(c) \/ NotInitialized(c)
      PROVE  ClientInv'
  BY <1>1, QueriesStep, WritesStep, UpdatesStep, NotInitializedStep
<1>2. ASSUME NEW c \in Callers, NEW mode \in Modes,
             SetMode(c, mode) \/ EnterMode(c, mode)
      PROVE  ClientInv'
  BY <1>2, SetModeStep, EnterModeStep
<1>3. ASSUME NEW c \in Callers,
             EnterGets(c) \/ EnterDiagnostic(c) \/ EnterProgramming(c)
               \/ EnterReturns(c)
      PROVE  ClientInv'
  BY <1>3, EnterGetsStep, EnterDiagnosticStep, EnterProgrammingStep,
     EnterReturnsStep
<1>4. CASE SdkInit \/ SdkStop \/ UNCHANGED vars
  <2>1. client \in BOOLEAN /\ calls \in 0..MaxCalls
    BY DEF ClientInv, TypeOK
  <2>2. QED
    BY <1>4, <2>1, SdkStep DEF SdkInit, SdkStop, vars
<1>5. CASE Reboot \/ TransferTimesOut
  BY <1>5, RadarStep
<1>6. QED
  BY <1>1, <1>2, <1>3, <1>4, <1>5 DEF Next

(* The invariant of all the theorems below: what the codes say, together   *)
(* with the shape of the radar and the aims of the EnterMode calls.        *)
THEOREM ClientInvariant == Spec => []ClientInv
BY InitInv, NextInv, PTL DEF Spec

(* Every value of the state is one that the program or the radar can hold. *)
THEOREM ClientTypeCorrect == Spec => []TypeOK
<1>1. ClientInv => TypeOK
  BY DEF ClientInv
<1>2. QED
  BY <1>1, ClientInvariant, PTL

(* For every number of threads and of calls, in every order of calls,      *)
(* lost or damaged answers, missing members and reboots: a caller that     *)
(* looks at the E2E verdict is never misled by an error code, nor by a     *)
(* value that it has read, unless that is the default a missing member     *)
(* leaves.                                                                 *)
THEOREM CodesAndValuesAreRight == Spec => []CallerKnows
<1>1. ClientInv => CallerKnows
  BY DEF ClientInv
<1>2. QED
  BY <1>1, ClientInvariant, PTL

(* EnterMode returns kOk, with a last answer that passed the E2E check,    *)
(* only if the radar has been in the target mode at some moment of the     *)
(* call, whatever the other threads did in between and whatever mode a     *)
(* damaged answer to its GetMode made it start from.                       *)
THEOREM EnterModeIsTruthful == Spec => []EnterModeReaches
<1>1. ClientInv => EnterModeReaches
  BY DEF ClientInv
<1>2. QED
  BY <1>1, ClientInvariant, PTL

(* The radar is put into the programming mode by a call that asks for it   *)
(* and by no other, EnterMode with the diagnostic mode as target included. *)
THEOREM ProgrammingIsAskedFor == Spec => []ProgrammingOnlyWhenAsked
<1>1. ClientInv => ProgrammingOnlyWhenAsked
  BY DEF ClientInv
<1>2. QED
  BY <1>1, ClientInvariant, PTL
=============================================================================
