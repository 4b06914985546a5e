SPECIFICATION Spec
CONSTANTS
  Sessions = {s1, s2}
  NoSession = NoSession
  Configs = {c1}
  MaxEdits = 2
  Conns = {h1}
  NoConn = NoConn
  MaxApplies = 2
  MaxOthers = 1
  Conf = 3
  Floor = 3
  Holdoff = 1
  MaxLag = 1
  LoseRequests = TRUE
  LoseReplies = TRUE
PROPERTY AppliedInTime
SYMMETRY Symmetric
CHECK_DEADLOCK FALSE
