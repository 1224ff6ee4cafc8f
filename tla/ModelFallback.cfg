CONSTANTS
  big = big
  small = small
  coder = coder
  NoModel = NoModel
  ModelIds <- MCModels
  Rankings <- MCRankings
  Chain <- MCChain
  Default = small
  Calls = {c1, c2}
  SessionIds = {s1}
  ListTtl = 1
  Cooldown = 1
  MaxClock = 2
  MaxPast = 3
SPECIFICATION FallbackSpec
INVARIANT EveryModelOnce
INVARIANT StatsMatch
INVARIANT ListFresh
INVARIANT RestsForAbsence
SYMMETRY Interchangeable
CHECK_DEADLOCK FALSE
