SPECIFICATION Spec
CONSTANTS
  Sessions = {s1, s2}
  NoSession = NoSession
  Configs = {c1}
  MaxEdits = 2
  Conns = {h1, h2}
  NoConn = NoConn
  MaxApplies = 2
  MaxOthers = 1
  Conf = 1
  Floor = 1
  Holdoff = 0
  MaxLag = 0
  LoseRequests = FALSE
  LoseReplies = FALSE
INVARIANTS
  SettledConfig
  ConfirmedByOwnSession
SYMMETRY Symmetric
CHECK_DEADLOCK FALSE
