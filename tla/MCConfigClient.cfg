\* Two threads that call what they like, a radar that may reboot at any time.
SPECIFICATION Spec

CONSTANTS
  Callers = {c1, c2}
  MaxCalls = 3

SYMMETRY CallerSymmetry
CHECK_DEADLOCK FALSE

INVARIANTS
  CallerKnows
  EnterModeReaches
  ProgrammingOnlyWhenAsked
