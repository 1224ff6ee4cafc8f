CONSTANTS
  t1 = t1
  t2 = t2
  Tasks <- MCTasks
  MaxSpans = 3
  MaxStarted = 4
  MaxTraces = 2
SPECIFICATION TracerSpec
SYMMETRY MCSymmetry
INVARIANT SameTrace
INVARIANT OwnParent
INVARIANT BlocksNest
CHECK_DEADLOCK FALSE
