\* GetBootInfo between two components gets no answer; nothing else goes wrong.
SPECIFICATION Spec

CONSTANTS
  NComponents = 2
  Size = 1
  MaxChunk = 1
  MaxStalled = 1
  Unreliable = {"check"}
  LegacyRadars = {FALSE}
  MaxUpdates = 1
  MaxRestarts = 0

INVARIANTS
  ActiveFaceWhole

CHECK_DEADLOCK FALSE
