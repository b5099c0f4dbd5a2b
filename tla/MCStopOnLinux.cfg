\* One TCP stream, where closing a socket does not end a recv() on it.
SPECIFICATION Spec

CONSTANTS
  NStreams = 1
  Transports <- OneTcp
  MaxSocket = 2
  MaxDelay = 1
  CloseWakesRecv = FALSE

PROPERTIES
  StopReturns
