CONSTANTS
  wild = wild
  shot = shot
  twin = twin
  Hooks <- MCHooks3
  Name <- MCName
  Priority <- MCPriority
  Wildcard <- MCWildcard
  Once <- MCOnce
  Emissions = {e1, e2}
SPECIFICATION HooksSpec
INVARIANT PriorityOrder
INVARIANT NobodySkipped
SYMMETRY Interchangeable
CHECK_DEADLOCK FALSE
