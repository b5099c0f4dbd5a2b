---------------------------- MODULE ConfigClient ----------------------------
(***************************************************************************)
(* The Config API as its callers see it: each ConfigClient method, the     *)
(* request it builds or refuses to build, the radar that runs the request  *)
(* in its access mode, and the error code that comes back.                 *)
(*                                                                         *)
(* TcpClient, modelled in ConfigTransport, exchanges one request at a      *)
(* time, so an exchange is one step here; EnterMode makes up to three of   *)
(* them, and other calls and reboots come in between.  The radar runs      *)
(* requests in the order of their arrival: one whose answer is lost was    *)
(* run before the next request, or never.                                  *)
(*                                                                         *)
(* The members of a request or an answer are grouped into settings, each   *)
(* of which stands for any one of its members; a value is "old" (there at  *)
(* the start), "new" (a caller's) or "default".                            *)
(***************************************************************************)
EXTENDS Naturals

CONSTANTS
  Callers,      (* threads of the application                              *)
  MaxCalls      (* bound on their calls                                     *)

ASSUME ClientAssumption == MaxCalls \in Nat

VARIABLES
  client,    (* config_client_ exists                                      *)
  radar,     (* the radar: access mode, stored settings, running ones      *)
  enter,     (* per caller: the EnterMode call it is in                    *)
  calls,     (* calls made so far                                          *)
  known,     (* history: per setting, the values the answers leave open    *)
  asked      (* history: somebody has asked for the programming mode       *)

vars == <<client, radar, enter, calls, known, asked>>

-----------------------------------------------------------------------------
(* The settings, by the structures that carry them *)

StreamKinds == {"detection", "health", "performance"}
ProtocolOf  == [detection |-> "detectionProtocol", health |-> "healthProtocol",
                performance |-> "performanceProtocol"]
Protocols   == {ProtocolOf[k] : k \in StreamKinds}
Network     == {"address"} \cup StreamKinds \cup Protocols
Threshold   == {"level", "secondTable"}
Filters     == {"filters"}
Ptp         == {"profile"}
Mounting    == {"mounting"}
Rotation    == {"rotation"}
Position    == {"position"}
Range       == {"range"}
Config      == Network \cup Threshold \cup Filters \cup Ptp \cup Mounting
                 \cup Rotation \cup Position \cup Range

(* The face the radar boots, and the open transfer with the check that it  *)
(* will make of the image: "none" when no transfer is open.                *)
Boot     == {"face"}
Session  == {"session"}
Settings == Config \cup Boot \cup Session

(* What a GET reads besides: the access mode, and the profile that runs.   *)
Mode   == {"mode"}
Active == {"active"}

Modes  == {"kNormal", "kDiagnostic", "kProgramming"}
Values == {"old", "new", "default"}

(* A single range mode has no second frame; in DR and UDR there is one.    *)
RangeModes  == 0..6
TwoSubcycle == {0, 6}

ValuesOf(s) == CASE s = "range"   -> {0, 3}
                 [] s \in {"profile", "active"} -> 0..2
                 [] s = "level"   -> {3, 5}
                 [] s = "face"    -> {"A", "B"}
                 [] s = "session" -> {"none", "image", "unchecked", "decimal"}
                 [] s = "mode"    -> Modes
                 [] OTHER         -> Values
DefaultOf(s) == CASE s \in {"range", "profile"} -> 0 [] s = "level" -> 5
                  [] OTHER -> "default"
OldOf(s) == CASE s \in {"range", "profile"} -> 0 [] s = "level" -> 5
              [] s = "face" -> "A" [] s = "session" -> "none" [] OTHER -> "old"

Only(members, v) == [s \in members |-> v]
Nothing == Only({}, "old")

(* f where it says something, and g elsewhere *)
Over(f, g) ==
  [s \in DOMAIN f \cup DOMAIN g |-> IF s \in DOMAIN f THEN f[s] ELSE g[s]]

-----------------------------------------------------------------------------
(* The radar.  Every setting is stored before it is confirmed and runs     *)
(* from the next boot; a boot ends the transfer.                           *)

Booted(r) == [mode |-> "kNormal",
              stored |-> [r.stored EXCEPT !["session"] = "none"],
              running |-> [s \in DOMAIN r.running |-> r.stored[s]]]

Store(r, body) == [r EXCEPT !.stored = Over(body, r.stored)]

(* In which modes the radar runs a method. *)
SETs     == {"SetNetworkConfig", "SetRangeMode", "SetDetectionThreshold",
             "SetDetectionFilters", "SetPtpConfig", "SetMountingPosition",
             "SetRotation", "SetSensorPosition", "ResetConfigDefaults",
             "ResetAllSettings"}
Firmware == {"FirmwareUpdateStart", "FirmwareDataChunk", "FirmwareUpdateCommit",
             "FirmwareUpdateAbort", "FirmwareSwitchSlot", "FirmwareUpdateReboot"}

Open(method) == /\ method \in SETs => radar.mode = "kDiagnostic"
                /\ method \in Firmware => radar.mode = "kProgramming"

(* A crc32 with "0x" or none at all is what it says; bare, it is decimal. *)
Effect(method, body) ==
  CASE method \in {"Restart", "FirmwareUpdateReboot"} -> Booted(radar)
    [] method = "ResetAllSettings" ->
         Booted(Store(radar, [s \in Config \ {"address"} |-> DefaultOf(s)]))
    [] method = "SetMode" -> [radar EXCEPT !.mode = body.mode]
    [] method = "SetDetectionThreshold" ->
         Store(radar, [s \in {t \in DOMAIN body : t = "secondTable" =>
                                radar.running["range"] \in TwoSubcycle}
                         |-> body[s]])
    [] method = "FirmwareUpdateStart" ->
         Store(radar, Only(Session, CASE body.crc32 = "0x" -> "image"
                                      [] body.crc32 = "bare" -> "decimal"
                                      [] body.crc32 = "" -> "unchecked"))
    [] method \in {"FirmwareUpdateCommit", "FirmwareUpdateAbort"} ->
         Store(radar, Only(Session, "none"))
    [] method = "FirmwareSwitchSlot" ->
         Store(radar, Only(Boot, CHOOSE f \in {"A", "B"} : f # radar.stored["face"]))
    [] OTHER -> Store(radar, body)

Order == [kNormal |-> 0, kDiagnostic |-> 1, kProgramming |-> 2]

(* What a GET of these members finds: what is stored, the mode and the     *)
(* running profile, but no second table where there is no second frame.    *)
Found(s) == CASE s = "mode"   -> radar.mode
              [] s = "active" -> radar.running["profile"]
              [] OTHER        -> radar.stored[s]
Present(members) == {t \in members : t = "secondTable" =>
                       radar.running["range"] \in TwoSubcycle}

(* The data of an answer: the names it carries, and the values of those    *)
(* that are of the type the SDK reads.                                     *)
NoData == [names |-> {}, values |-> Nothing]

(* Any of the members may be missing, or have a type that the SDK does not *)
(* read; it tells the two apart for the second table only.                 *)
Sent(members) ==
  {[names |-> read \cup others, values |-> [s \in read |-> Found(s)]] :
     read \in SUBSET Present(members),
     others \in SUBSET (Present(members) \cap {"secondTable"})}

(* Damage on the way: one member has another value, or none can be read. *)
Damaged(members) ==
  {[names |-> members, values |-> Nothing]}
  \cup UNION {{[names |-> members,
                values |-> [s \in members |-> IF s = t THEN v ELSE Found(s)]] :
                 v \in ValuesOf(t)} : t \in members}

Refusals(method, body) ==
  {[rc |-> rc, radar |-> radar] :
     rc \in IF ~Open(method) THEN {"SESSION_REQUIRED"}
            ELSE IF method # "SetMode"
            THEN {"INVALID_PARAM", "NOT_SUPPORTED", "BUSY", "INVALID_STATE",
                  "INTERNAL_ERROR"}
            ELSE CASE Order[body.mode] = Order[radar.mode] + 1 -> {"BUSY"}
                   [] Order[body.mode] > Order[radar.mode] + 1 -> {"SESSION_REQUIRED"}
                   [] OTHER -> {"ACCESS_DENIED"}}

Reactions(method, body) ==
  Refusals(method, body) \cup
  IF Open(method) /\ (method = "SetMode" => Order[body.mode] = Order[radar.mode] + 1)
  THEN {[rc |-> "SUCCESS", radar |-> Effect(method, body)]} ELSE {}

-----------------------------------------------------------------------------
(* Exchange *)

AfiErrorFromReturnCode(rc) ==
  CASE rc = "SUCCESS" -> "kOk"              [] rc = "INVALID_PARAM" -> "kInvalidParam"
    [] rc = "NOT_SUPPORTED" -> "kNotSupported" [] rc = "BUSY" -> "kBusy"
    [] rc = "SESSION_REQUIRED" -> "kSessionRequired"
    [] rc = "ACCESS_DENIED" -> "kAccessDenied" [] rc = "INVALID_STATE" -> "kInvalidState"
    [] OTHER -> "kSensorError"

(* Mutant: an answer that does not come is reported as a refusal. *)
ErrorFromTransportRefused(tcp) ==
  CASE tcp = "kTcpProtocol" -> "kProtocolError"
    [] tcp \in {"kTcpTimeout", "kTcpTooLarge"} -> "kInvalidParam"
    [] OTHER -> "kDisconnected"

ErrorFromTransport(tcp) ==
  CASE tcp = "kTcpTimeout" -> "kTimeout"    [] tcp = "kTcpProtocol" -> "kProtocolError"
    [] tcp = "kTcpTooLarge" -> "kInvalidParam" [] OTHER -> "kDisconnected"

(* The SDK reads the data of a success. *)
Read(rc, datas) == IF rc = "SUCCESS" THEN datas ELSE {NoData}

(* The answers to a request: what the radar sends, and what damage makes   *)
(* of it: an answer with another return code, a success or not, for the    *)
(* CRC covers the whole body.                                              *)
Intact(y, members) ==
  {[intact |-> TRUE, rc |-> y.rc, data |-> data, radar |-> y.radar] :
     data \in Read(y.rc, Sent(members))}
Spoilt(rc, y, members) ==
  {[intact |-> FALSE, rc |-> rc, data |-> data, radar |-> y.radar] :
     data \in Read(rc, Damaged(members))}
Answers(method, body, members) ==
  UNION {Intact(y, members) \cup Spoilt("SUCCESS", y, members)
           \cup Spoilt("BUSY", y, members) : y \in Reactions(method, body)}

(* Mutant: the verdict of an earlier answer is kept. *)
LastResponseE2eOkKept(answer) == answer.intact \in BOOLEAN

(* The check finds the damage; the answer is used all the same. *)
LastResponseE2eOk(answer) == answer.intact

(* The ways an exchange can end: without a request (no endpoint, a legacy  *)
(* radar, a request too large), without an answer to a request that ran or *)
(* not, with an answer that does not parse, or with one that does.  The    *)
(* caller gets the error, and LastResult: a return code and a verdict.     *)
Exchange(method, body, members) ==
  LET NoAnswer(error, rc, r) == [error |-> error, return_code |-> rc,
                                 e2eOk |-> FALSE, data |-> NoData, radar |-> r]
      answers == Answers(method, body, members)
  IN  {NoAnswer("kDisconnected", "none", radar),
       NoAnswer("kNotSupported", "NOT_SUPPORTED", radar),
       NoAnswer(ErrorFromTransport("kTcpTooLarge"), "none", radar)}
      \cup
      {NoAnswer(ErrorFromTransport(tcp), "none", r) :
         tcp \in {"kTcpTimeout", "kTcpProtocol", "kTcpDisconnected"},
         r \in {radar} \cup {y.radar : y \in Reactions(method, body)}}
      \cup
      {[error |-> "kProtocolError", return_code |-> "none",
        e2eOk |-> LastResponseE2eOk(a), data |-> NoData, radar |-> a.radar] :
         a \in answers}
      \cup
      {[error |-> AfiErrorFromReturnCode(a.rc), return_code |-> a.rc,
        e2eOk |-> LastResponseE2eOk(a), data |-> a.data, radar |-> a.radar] :
         a \in answers}

(* What a caller can tell by the error and by LastResult: whether its call *)
(* may have been done or not, and whether what it has read is the radar's. *)
Doubtful   == {"kTimeout", "kDisconnected", "kProtocolError"}
Doubt(x)   == x.error \in Doubtful \/ (x.return_code # "none" /\ ~x.e2eOk)
Trusted(x) == x.error = "kOk" /\ x.e2eOk

Idle(c) == enter[c].step = "none"

(* The facade passes a call on if Init has made a client. *)
Delegate(c) ==
  /\ Idle(c) /\ calls < MaxCalls
  /\ calls' = calls + 1
  /\ client
  /\ UNCHANGED client

(* History: the radar has been in the target mode during the call. *)
Watched(e) ==
  [c \in Callers |->
     [e[c] EXCEPT !.reached = @ \/ (e[c].step # "none" /\ radar'.mode = e[c].target)]]

(* A call that changes settings: `meant` is what it is documented to do if *)
(* it returns kOk, for each setting the values that are then possible.     *)
Set(c, method, body, meant) ==
  /\ Delegate(c)
  /\ \E x \in Exchange(method, body, {}) :
       /\ radar' = x.radar
       /\ known' = CASE Doubt(x) -> Over([s \in DOMAIN meant |-> meant[s] \cup known[s]],
                                        known)
                     [] Trusted(x) -> Over(meant, known)
                     [] OTHER -> known
  /\ enter' = Watched(enter)
  /\ UNCHANGED asked

Stores(body) == [s \in DOMAIN body |-> {body[s]}]

(* A call refused before anything is sent. *)
InvalidParam(c) == Delegate(c) /\ UNCHANGED <<radar, enter, known, asked>>

safe_value(data, key, default) ==
  IF key \in DOMAIN data.values THEN data.values[key] ELSE default

(* A member in the caller's structure, and whether it tells the caller     *)
(* anything: a default does not, for a missing member, or one of another   *)
(* type, leaves it there; what the method itself checks does.              *)
Member(data, key, default) ==
  LET value == safe_value(data, key, default)
  IN  [value |-> value, tells |-> value # default]
Checked(value) == [value |-> value, tells |-> TRUE]

Learned(reads) ==
  [s \in {t \in DOMAIN reads : reads[t].tells} |->
     IF s = "session" THEN {reads[s].value, "none"} ELSE {reads[s].value}]

(* A GET: Reads(data) is what it leaves in the caller's structure. *)
Get(c, members, Reads(_)) ==
  /\ Delegate(c)
  /\ \E x \in Exchange("Get", Nothing, members) :
       known' = IF Trusted(x) THEN Over(Learned(Reads(x.data)), known) ELSE known
  /\ UNCHANGED <<radar, enter, asked>>

-----------------------------------------------------------------------------
(* The methods.  0x001x: device *)

ReadsNothing(data) == Nothing

GetDeviceInfo(c)         == Get(c, {}, ReadsNothing)
GetSensorStatus(c)       == Get(c, {}, ReadsNothing)
GetDiagnosticInfo(c)     == Get(c, {}, ReadsNothing)
GetCommandHistoryInfo(c) == Get(c, {}, ReadsNothing)
GetConfigStatus(c)       == Get(c, {}, ReadsNothing)

Restart(c) == Set(c, "Restart", Nothing, Only(Session, {"none"}))
ResetAllSettings(c) ==
  Set(c, "ResetAllSettings", Nothing,
      Over([s \in Config \ {"address"} |-> {DefaultOf(s)}],
           Only(Session, {"none"})))

(* 0x002x: network *)

parse_stream_destination(data, kind) ==
  [s \in {kind, ProtocolOf[kind]} |-> Member(data, s, "default")]

GetNetworkConfig(c) ==
  LET Reads(data) ==
        Over([address |-> Member(data, "address", "default")],
             Over(parse_stream_destination(data, "detection"),
                  Over(parse_stream_destination(data, "health"),
                       parse_stream_destination(data, "performance"))))
  IN  Get(c, Network, Reads)

SetNetworkConfig(c, config) ==
  Set(c, "SetNetworkConfig", [s \in Network |-> config], Only(Network, {config}))

(* An empty protocol is not sent. *)
SetStreamDestination(c, kind, protocol) ==
  IF kind \notin StreamKinds THEN InvalidParam(c)
  ELSE LET body == Over(Only({kind}, "new"),
                        IF protocol = "" THEN Nothing
                        ELSE Only({ProtocolOf[kind]}, protocol))
       IN  Set(c, "SetNetworkConfig", body, Stores(body))

(* 0x003x and 0x005x: range mode and PTP profile *)

GetRangeMode(c) ==
  LET Reads(data) == [range |-> Member(data, "range", 0)] IN Get(c, Range, Reads)
SetRangeMode(c, mode) ==
  IF mode \notin RangeModes THEN InvalidParam(c)
  ELSE Set(c, "SetRangeMode", Only(Range, mode), Only(Range, {mode}))

(* The stored profile is configured_profile; where the answer has none, it *)
(* is read as the profile that runs.                                       *)
GetPtpConfig(c) ==
  LET Reads(data) == [profile |-> Member(data, "profile", safe_value(data, "active", 0))]
  IN  Get(c, Ptp \cup Active, Reads)
SetPtpConfig(c, profile) ==
  IF profile > 2 THEN InvalidParam(c)
  ELSE Set(c, "SetPtpConfig", Only(Ptp, profile), Only(Ptp, {profile}))

(* 0x004x: detection *)

(* Mutant: a level that is missing is not refused. *)
GetDetectionThresholdAny(c) ==
  LET Reads(data) == [level |-> Checked(safe_value(data, "level", 0))]
  IN  Get(c, Threshold, Reads)

(* Nothing is read of an answer without a level of 1 to 9, or with a       *)
(* second table that is not one: the call returns kProtocolError.          *)
GetDetectionThreshold(c) ==
  LET Reads(data) ==
        LET level == safe_value(data, "level", 0)
        IN  IF \/ level \notin 1..9
               \/ "secondTable" \in data.names \ DOMAIN data.values
            THEN Nothing
            ELSE Over([level |-> Checked(level)],
                      [s \in {"secondTable"} \cap data.names |->
                         Checked(data.values[s])])
  IN  Get(c, Threshold, Reads)

(* The second table is sent if the caller has one; a single range mode     *)
(* ignores it, and the answer does not say so.                             *)
SetDetectionThreshold(c, level, hasSecond) ==
  IF level \notin 1..9 THEN InvalidParam(c)
  ELSE LET body == Over([level |-> level],
                        IF hasSecond THEN [secondTable |-> "new"] ELSE Nothing)
       IN  Set(c, "SetDetectionThreshold", body,
               [s \in DOMAIN body |-> IF s = "level" THEN {level}
                                      ELSE {"new"} \cup known[s]])

GetDetectionFilters(c) ==
  LET Reads(data) == [filters |-> Member(data, "filters", "default")]
  IN  Get(c, Filters, Reads)
SetDetectionFilters(c) ==
  Set(c, "SetDetectionFilters", Only(Filters, "new"), Only(Filters, {"new"}))

(* 0x007x: mounting *)

GetMountingPosition(c) ==
  LET Reads(data) == [mounting |-> Member(data, "mounting", "default")]
  IN  Get(c, Mounting, Reads)
SetMountingPosition(c) ==
  Set(c, "SetMountingPosition", Only(Mounting, "new"), Only(Mounting, {"new"}))

GetRotation(c) ==
  LET Reads(data) == [rotation |-> Member(data, "rotation", "default")]
  IN  Get(c, Rotation, Reads)
SetRotation(c) == Set(c, "SetRotation", Only(Rotation, "new"), Only(Rotation, {"new"}))

GetSensorPosition(c) ==
  LET Reads(data) == [position |-> Member(data, "position", "default")]
  IN  Get(c, Position, Reads)
SetSensorPosition(c) ==
  Set(c, "SetSensorPosition", Only(Position, "new"), Only(Position, {"new"}))

(* 0x008x: firmware update.  A caller gives crc32 with its prefix, as 8    *)
(* bare hex digits, or not at all.                                         *)

normalize_crc32(crc32) == IF crc32 = "bare" THEN "0x" ELSE crc32

(* A transfer ends by itself when the radar waits too long for data. *)
FirmwareUpdateStart(c, crc32) ==
  Set(c, "FirmwareUpdateStart", [crc32 |-> normalize_crc32(crc32)],
      Only(Session, {"none", IF crc32 = "" THEN "unchecked" ELSE "image"}))

(* A null chunk of some length is refused. *)
FirmwareDataChunk(c, chunk) ==
  IF chunk = "null" THEN InvalidParam(c)
  ELSE Set(c, "FirmwareDataChunk", Nothing, Nothing)

FirmwareUpdateCommit(c) ==
  Set(c, "FirmwareUpdateCommit", Nothing, Only(Session, {"none"}))
FirmwareUpdateAbort(c) ==
  Set(c, "FirmwareUpdateAbort", Nothing, Only(Session, {"none"}))
FirmwareUpdateStatus(c) ==
  LET Reads(data) == [session |-> Member(data, "session", "")] IN Get(c, Session, Reads)
FirmwareSwitchSlot(c) ==
  Set(c, "FirmwareSwitchSlot", Nothing,
      Only(Boot, {f \in {"A", "B"} : {f} # known["face"]}))
FirmwareUpdateReboot(c) ==
  Set(c, "FirmwareUpdateReboot", Nothing, Only(Session, {"none"}))
GetBootInfo(c) ==
  LET Reads(data) == [face |-> Member(data, "face", "")] IN Get(c, Boot, Reads)

(* 0x009x: persistence *)

ResetConfigDefaults(c, keys) ==
  IF keys = {} \/ "" \in keys THEN InvalidParam(c)
  ELSE Set(c, "ResetConfigDefaults", [s \in keys |-> DefaultOf(s)],
           [s \in keys |-> {DefaultOf(s)}])

-----------------------------------------------------------------------------
(* 0x00Ex: access mode *)

Asks(mode) == asked' = (asked \/ mode = "kProgramming")

(* An answer without a mode, or with another number, is kProtocolError. *)
parse_mode_status(data) == safe_value(data, "mode", "none") \in Modes

GetMode(c) == Get(c, Mode, ReadsNothing)

(* Normal is reached by a reboot only. *)
SetMode(c, mode) ==
  IF mode \notin {"kDiagnostic", "kProgramming"} THEN InvalidParam(c)
  ELSE /\ Delegate(c)
       /\ \E x \in Exchange("SetMode", [mode |-> mode], {}) : radar' = x.radar
       /\ enter' = Watched(enter)
       /\ Asks(mode)
       /\ UNCHANGED known

EnterMode(c, target) ==
  IF target = "kNormal" THEN InvalidParam(c)
  ELSE /\ Delegate(c)
       /\ enter' = [enter EXCEPT ![c] = [step |-> "get", target |-> target,
                                         reached |-> radar.mode = target,
                                         e2eOk |-> FALSE]]
       /\ Asks(target)
       /\ UNCHANGED <<radar, known>>

NoCall == [step |-> "none", target |-> "kNormal", reached |-> FALSE, e2eOk |-> FALSE]

(* The call is over; LastResult is that of its last exchange. *)
Done(c, error, e2eOk) ==
  IF error = "kOk" THEN [enter EXCEPT ![c].step = "kOk", ![c].e2eOk = e2eOk]
  ELSE [enter EXCEPT ![c] = NoCall]
Goes(c, step)  == [enter EXCEPT ![c].step = step]

(* GetMode, the first step of EnterMode, acts on the mode that it reads. *)
EnterGets(c) ==
  /\ enter[c].step = "get"
  /\ \E x \in Exchange("GetMode", Nothing, Mode) :
       LET error == IF x.error = "kOk" /\ ~parse_mode_status(x.data)
                    THEN "kProtocolError" ELSE x.error
           mode  == safe_value(x.data, "mode", "none")
       IN  enter' = CASE error # "kOk" -> Done(c, error, x.e2eOk)
                      [] error = "kOk" /\ mode = enter[c].target ->
                           Done(c, "kOk", x.e2eOk)
                      [] error = "kOk" /\ mode # enter[c].target ->
                           CASE mode = "kProgramming" ->
                                  Done(c, "kAccessDenied", x.e2eOk)
                             [] mode = "kNormal" -> Goes(c, "diagnostic")
                             [] mode = "kDiagnostic" -> Goes(c, "programming")
  /\ UNCHANGED <<client, radar, calls, known, asked>>

(* Mutant: the second SetMode follows the first whatever the target is. *)
EnterDiagnosticOn(c) ==
  /\ enter[c].step = "diagnostic"
  /\ \E x \in Exchange("SetMode", [mode |-> "kDiagnostic"], {}) :
       /\ radar' = x.radar
       /\ enter' = Watched(IF x.error # "kOk" THEN Done(c, x.error, x.e2eOk)
                           ELSE Goes(c, "programming"))
  /\ UNCHANGED <<client, calls, known, asked>>

(* Mutant: the answer to the first SetMode is not looked at. *)
EnterDiagnosticBlind(c) ==
  /\ enter[c].step = "diagnostic"
  /\ \E x \in Exchange("SetMode", [mode |-> "kDiagnostic"], {}) :
       /\ radar' = x.radar
       /\ enter' = Watched(IF enter[c].target = "kDiagnostic"
                           THEN Done(c, "kOk", x.e2eOk) ELSE Goes(c, "programming"))
  /\ UNCHANGED <<client, calls, known, asked>>

EnterDiagnostic(c) ==
  /\ enter[c].step = "diagnostic"
  /\ \E x \in Exchange("SetMode", [mode |-> "kDiagnostic"], {}) :
       /\ radar' = x.radar
       /\ enter' = Watched(IF x.error # "kOk" \/ enter[c].target = "kDiagnostic"
                           THEN Done(c, x.error, x.e2eOk) ELSE Goes(c, "programming"))
  /\ UNCHANGED <<client, calls, known, asked>>

EnterProgramming(c) ==
  /\ enter[c].step = "programming"
  /\ \E x \in Exchange("SetMode", [mode |-> "kProgramming"], {}) :
       /\ radar' = x.radar
       /\ enter' = Watched(Done(c, x.error, x.e2eOk))
  /\ UNCHANGED <<client, calls, known, asked>>

EnterReturns(c) ==
  /\ enter[c].step = "kOk"
  /\ enter' = [enter EXCEPT ![c] = NoCall]
  /\ UNCHANGED <<client, radar, calls, known, asked>>

-----------------------------------------------------------------------------
Init ==
  /\ client = FALSE
  /\ \E mode \in Modes, old \in {[range |-> 0, profile |-> 0],
                                [range |-> 3, profile |-> 1]} :
       LET stored == [s \in Settings |-> IF s \in DOMAIN old THEN old[s] ELSE OldOf(s)]
       IN  /\ radar = [mode |-> mode, stored |-> stored,
                       running |-> [s \in Range \cup Ptp |-> stored[s]]]
           /\ asked = (mode = "kProgramming")
           /\ known = [s \in Settings |-> {stored[s]}]
  /\ enter = [c \in Callers |-> NoCall]
  /\ calls = 0

(* Init and Stop of the SDK, between calls. *)
SdkInit ==
  /\ ~client
  /\ client' = TRUE
  /\ UNCHANGED <<radar, enter, calls, known, asked>>
SdkStop ==
  /\ client /\ \A c \in Callers : Idle(c)
  /\ client' = FALSE
  /\ UNCHANGED <<radar, enter, calls, known, asked>>

(* Without a client a call returns kNotInitialized. *)
NotInitialized(c) ==
  /\ ~client /\ Idle(c) /\ calls < MaxCalls
  /\ calls' = calls + 1
  /\ UNCHANGED <<client, radar, enter, known, asked>>

(* The radar reboots of its own accord, or gives up a transfer. *)
Reboot ==
  /\ radar' = Booted(radar)
  /\ enter' = Watched(enter)
  /\ UNCHANGED <<client, calls, known, asked>>
TransferTimesOut ==
  /\ radar.stored["session"] # "none"
  /\ radar' = Store(radar, Only(Session, "none"))
  /\ UNCHANGED <<client, enter, calls, known, asked>>

Queries(c) ==
  \/ GetDeviceInfo(c) \/ GetSensorStatus(c) \/ GetDiagnosticInfo(c)
  \/ GetCommandHistoryInfo(c) \/ GetConfigStatus(c) \/ GetMode(c)
  \/ GetNetworkConfig(c) \/ GetRangeMode(c) \/ GetPtpConfig(c)
  \/ GetDetectionThreshold(c) \/ GetDetectionFilters(c)
  \/ GetMountingPosition(c) \/ GetRotation(c) \/ GetSensorPosition(c)
  \/ FirmwareUpdateStatus(c) \/ GetBootInfo(c)

Writes(c) ==
  \/ \E config \in {"old", "new"} : SetNetworkConfig(c, config)
  \/ \E kind \in StreamKinds \cup {"other"}, protocol \in {"", "new"} :
       SetStreamDestination(c, kind, protocol)
  \/ \E mode \in {0, 3, 7} : SetRangeMode(c, mode)
  \/ \E profile \in {0, 1, 3} : SetPtpConfig(c, profile)
  \/ \E level \in {0, 3, 10}, hasSecond \in BOOLEAN :
       SetDetectionThreshold(c, level, hasSecond)
  \/ SetDetectionFilters(c) \/ SetMountingPosition(c)
  \/ SetRotation(c) \/ SetSensorPosition(c)
  \/ \E keys \in {{}, {""}, {"address", "profile"}, {"filters"}} :
       ResetConfigDefaults(c, keys)
  \/ Restart(c) \/ ResetAllSettings(c)

Updates(c) ==
  \/ \E crc32 \in {"0x", "bare", ""} : FirmwareUpdateStart(c, crc32)
  \/ \E chunk \in {"null", "data"} : FirmwareDataChunk(c, chunk)
  \/ FirmwareUpdateCommit(c) \/ FirmwareUpdateAbort(c)
  \/ FirmwareSwitchSlot(c) \/ FirmwareUpdateReboot(c)

Next ==
  \/ \E c \in Callers :
       \/ Queries(c) \/ Writes(c) \/ Updates(c) \/ NotInitialized(c)
       \/ \E mode \in Modes : SetMode(c, mode) \/ EnterMode(c, mode)
       \/ EnterGets(c) \/ EnterDiagnostic(c) \/ EnterProgramming(c) \/ EnterReturns(c)
  \/ SdkInit \/ SdkStop \/ Reboot \/ TransferTimesOut

Spec == Init /\ [][Next]_vars

-----------------------------------------------------------------------------
(* Properties *)

Enters == [step : {"none", "get", "diagnostic", "programming", "kOk"},
           target : Modes, reached : BOOLEAN, e2eOk : BOOLEAN]

TypeOK ==
  /\ client \in BOOLEAN /\ calls \in 0..MaxCalls
  /\ radar.mode \in Modes
  /\ \A s \in Settings : radar.stored[s] \in ValuesOf(s) /\ known[s] \subseteq ValuesOf(s)
  /\ enter \in [Callers -> Enters]
  /\ asked \in BOOLEAN

(* A caller that looks at the E2E verdict is never misled, by an error     *)
(* code or by a value read: every setting of the radar has a value that    *)
(* the answers so far leave open.  kOk says that it was done and is        *)
(* stored; a timeout, a lost connection, an answer that cannot be read and *)
(* any answer that failed the check, that it may have been; every other    *)
(* code that it was not.  A value that a GET leaves in the caller's        *)
(* structure is stored, unless it is the very one that a missing or an     *)
(* unreadable member leaves there, which no caller can tell from it.       *)
CallerKnows == \A s \in Settings : radar.stored[s] \in known[s]

(* EnterMode returns kOk, with a last answer that passed the E2E check,    *)
(* only if the radar was in the target mode at some moment of the call,    *)
(* whoever else changed the mode or rebooted it and whatever damage there  *)
(* was to the earlier answers that EnterMode acted on.                     *)
EnterModeReaches ==
  \A c \in Callers : enter[c].step = "kOk" /\ enter[c].e2eOk => enter[c].reached

(* The radar stops its streams, and serves no SET until a reboot, only if  *)
(* some call has asked for the programming mode.                           *)
ProgrammingOnlyWhenAsked == radar.mode = "kProgramming" => asked

-----------------------------------------------------------------------------
(* The inductive invariant of the proofs *)

ShapeInv ==
  /\ DOMAIN radar = {"mode", "stored", "running"}
  /\ DOMAIN radar.stored = Settings /\ DOMAIN radar.running = Range \cup Ptp
  /\ DOMAIN known = Settings

(* An EnterMode call goes on to a mode that somebody has asked for, and    *)
(* has seen every mode the radar was in since it began.                    *)
Aims(e) ==
  e.step # "none" =>
    /\ e.target \in {"kDiagnostic", "kProgramming"}
    /\ e.step = "programming" => e.target = "kProgramming"
    /\ e.target = "kProgramming" => asked

EnterInv ==
  \A c \in Callers :
    /\ Aims(enter[c])
    /\ enter[c].step # "none" /\ radar.mode = enter[c].target =>
         enter[c].reached

(* A transfer may be over whatever the answers said of it: it ends by      *)
(* itself, and with a reboot.                                              *)
TransferInv == "none" \in known["session"]

ClientInv ==
  /\ TypeOK /\ ShapeInv /\ EnterInv /\ TransferInv
  /\ CallerKnows /\ EnterModeReaches /\ ProgrammingOnlyWhenAsked
=============================================================================
