CONSTANTS
  Keys = {k1, k2}
  Values <- MCValues
  Ttls <- MCTtls
  Nil = Nil
  MaxTime = 4
  MaxCount = 3
SPECIFICATION Spec
PROPERTY LiveEntriesStay
PROPERTY TransparentFallback
CHECK_DEADLOCK FALSE
