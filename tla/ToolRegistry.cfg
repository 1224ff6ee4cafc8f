CONSTANTS
  c1 = c1
  c2 = c2
  c3 = c3
  n1 = n1
  s1 = s1
  Calls <- MCCalls
  Names <- MCNames
  Sessions <- MCSessions
  MaxPerWindow = 1
  Window = 2
  MaxTools = 2
  MaxTime = 3
  None = None
SPECIFICATION Spec
SYMMETRY MCSymmetry
INVARIANT Accounting
INVARIANT RunsAudited
INVARIANT OnlyConfirmedRun
INVARIANT NotTooFrequent
CHECK_DEADLOCK FALSE
