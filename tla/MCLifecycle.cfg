\* Two streams, the second over TCP or UDP from one Init to the next, where
\* closing a socket ends a recv() on it.
SPECIFICATION Spec

CONSTANTS
  NStreams = 2
  Transports <- TcpAndEither
  MaxSocket = 2
  MaxDelay = 2
  CloseWakesRecv = TRUE

INVARIANTS
  TypeOK
  HeaderAtFrameStart
  NoThreadOutlivesStop
  FailedInitLeavesNothing
  StopClosesTheRest

PROPERTIES
  StopReturns
  StreamRecovers
