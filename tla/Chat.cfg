CONSTANTS
  Requests = {r1, r2}
  Users = {u1}
  Sessions = {s1, s2}
  Models = {m1}
  Docs = {d1}
  question = question
  greeting = greeting
  command = command
  attack = attack
  Texts <- MCTexts
  Unsafe <- MCUnsafe
  Quick <- MCQuick
  Skilled <- MCSkilled
  Limit = 1
  Window = 1
  HistoryLimit = 4
  Threshold = 1
  KeepRecent = 1
  KeyTail = 1
  MaxTime = 1
SPECIFICATION Spec
INVARIANT TurnsPaired
INVARIANT ReplyStored
INVARIANT WithinLimit
INVARIANT OwnTurnLast
INVARIANT SameQuestion
CHECK_DEADLOCK FALSE
SYMMETRY Interchangeable
