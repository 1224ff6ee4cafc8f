CONSTANTS
  Clients = {c1, c2}
  token = token
  system = system
  none = none
  s1 = s1
  Kinds <- MCKinds
  Tags <- MCTags
  Wishes <- MCWishes
  MaxQueue = 2
  MaxHistory = 2
  MaxPublished = 3
SPECIFICATION FairSpec
INVARIANT InOrder
INVARIANT WithinRequest
INVARIANT Accounted
INVARIANT DropsOldest
INVARIANT RecentComplete
PROPERTY EventuallyHandled
CHECK_DEADLOCK FALSE
