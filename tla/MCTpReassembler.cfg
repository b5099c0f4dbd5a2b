\* Every sequence of segments, well formed or not.
SPECIFICATION TpSpec

CONSTANTS
  MaxPayload = 6
  MaxSegment = 3
  Align = 2
  Sessions = {1, 2}
  Origins = {1, 2}

INVARIANTS
  TpTypeOK

PROPERTIES
  ImplementsReassembly
