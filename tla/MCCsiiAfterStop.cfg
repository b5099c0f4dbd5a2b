\* One thread that goes on sending while the application changes the sensor.
SPECIFICATION Spec
CHECK_DEADLOCK FALSE

CONSTANTS
  Threads = {t1}
  NoThread = NoThread
  Sensors = {A, B}
  NoSensor = NoSensor
  Forced = {""}
  CounterMod = 8
  SessionMod = 8
  SentBefore = {0}
  MaxSend = 2
  MaxInit = 2
  MaxReconnect = 0
  MaxReboot = 0

INVARIANT FramesReachSensor
