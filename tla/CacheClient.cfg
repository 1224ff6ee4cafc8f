CONSTANTS
  Limit <- MCLimit
  Window <- MCWindow
  MaxClock = 6
  MaxChecks = 5
  Callers = {a, b}
  Ttl = 1
SPECIFICATION ClientSpec
SYMMETRY Interchangeable
INVARIANT NeverOverLimit
INVARIANT RetryHonoured
INVARIANT UpdatesKept
CHECK_DEADLOCK FALSE
