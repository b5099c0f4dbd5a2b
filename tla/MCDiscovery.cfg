\* Three radars, a window of two steps, answers in any order and shape.
SPECIFICATION Spec
CHECK_DEADLOCK FALSE

CONSTANTS
  r1 = r1
  r2 = r2
  r3 = r3
  Radars <- SmallRadars
  Ip <- SmallIp
  Serial <- SmallSerial
  Keys <- SmallKeys
  Window = 2
  MaxError = 1

INVARIANTS
  ListedOnce
  AnsweredIsListed

PROPERTIES
  ScanEnds
