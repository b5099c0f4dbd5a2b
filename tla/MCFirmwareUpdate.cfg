\* Two updates of three components, a radar of either kind that loses power twice,
\* any request lost but GetBootInfo between two components.
SPECIFICATION Spec

CONSTANTS
  NComponents = 3
  Size = 2
  MaxChunk = 2
  MaxStalled = 1
  Unreliable <- AllButCheck
  LegacyRadars = {TRUE, FALSE}
  MaxUpdates = 2
  MaxRestarts = 2

INVARIANTS
  TypeOK
  ActiveFaceWhole
  OkMeansWritten
  RebootWhileIdle
  NoTransferLeftOpen

PROPERTIES
  UpdateReturns

CHECK_DEADLOCK FALSE
