\* Two threads send while the application stops, starts again and reconnects.
SPECIFICATION Spec
CHECK_DEADLOCK FALSE

CONSTANTS
  Threads = {t1, t2}
  NoThread = NoThread
  Sensors = {A, B}
  NoSensor = NoSensor
  Forced = {""}
  CounterMod = 8
  SessionMod = 8
  SentBefore = {7}
  MaxSend = 2
  MaxInit = 2
  MaxReconnect = 1
  MaxReboot = 1

SYMMETRY ThreadSymmetry

INVARIANTS
  FramesInOrder
  RightTransport
  StopCloses
