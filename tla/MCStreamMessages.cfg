\* Every length up to a few entries of each list, counts around their limits.
SPECIFICATION Spec

CONSTANTS
  Lengths <- SmallLengths
  Counts <- SmallCounts

INVARIANTS
  ReadsInPayload
  AcceptedIffExact
  GenerationIsClean
