\* A receiver before a network that only loses, or before one that reorders.
SPECIFICATION Spec
CHECK_DEADLOCK FALSE

CONSTANTS
  MaxPayload = 10
  MaxSegment = 4
  Align = 2
  Sessions <- AllSessions
  Origins <- AllOrigins
  HeaderSize = 3
  Generation = "v1.1"
  CounterMod = 16
  MaxMessage = 4
  Networks <- Both

INVARIANTS
  TypeOK
  DeliveredIsOneMessage
  UninterruptedIsDelivered
  LossIsExact
