\* Two threads with an honest sensor, or one with a sensor that sends anything.
SPECIFICATION MCSpec

CONSTANTS
  c1 = c1
  c2 = c2
  Callers = {c1, c2}
  Restart = Restart
  NoCaller = NoCaller
  GetDeviceInfo = GetDeviceInfo
  Methods = {GetDeviceInfo, Restart}
  ProbeMethod = GetDeviceInfo
  Sizes = {"fits", "large"}
  Bodies = {"good", "badE2e", "noJson", "short"}
  Echoes = {TRUE, FALSE}
  MaxSession = 1
  MaxCall = 2
  MaxConn = 2
  MaxBoot = 2

INVARIANTS
  TypeOK
  AnswerMatchesRequest
  OpenSocketIsProbed
  LegacySensorOnlyProbed
  NoSpuriousProtocolError
  OneThreadLastResult

PROPERTIES
  NoConnectionWithoutEndpoint
  ImplementsAtMostOnce
  MutexReleased
