CONSTANTS
  Jobs = {report}
  Period <- MCPeriod
  MaxTime = 10
SPECIFICATION Spec
INVARIANT CronTimesKept
CHECK_DEADLOCK FALSE
