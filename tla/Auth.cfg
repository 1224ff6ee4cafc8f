SPECIFICATION Spec
CONSTANTS
  Parts = {"", "owned", "a", "b", "c", "api"}
  Users <- MCUsers
  UserIds <- MCUserIds
  Roles = {"admin", "user", "readonly"}
  Chatters = {"user"}
  Limit <- MCLimit
  Hour = 1
  KeyLives = {0}
  TokenLives = {1}
  Never = Never
  Chosen = Chosen
  Clients = {c1, c2}
  Asked <- MCAsked
  Spellings = {issued, other}
  MaxTime = 2
  MaxKeys = 2
  MaxTokens = 1
  MaxServed = 2
  MaxChats = 1
SYMMETRY Symmetry
INVARIANT BootstrapOnce
INVARIANT LostStaysOut
INVARIANT WithinRoleLimit
INVARIANT SessionsOwned
