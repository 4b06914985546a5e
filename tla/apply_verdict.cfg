SPECIFICATION FairSpec
CONSTANTS
  Sessions = {s1}
  NoSession = NoSession
  Configs = {c1}
  MaxEdits = 1
  Conns = {h1, h2}
  NoConn = NoConn
  MaxApplies = 2
  MaxOthers = 1
  Conf = 2
  Floor = 2
  Holdoff = 1
  MaxLag = 1
  LoseRequests = FALSE
  LoseReplies = FALSE
INVARIANT RolledBackMeansOver
PROPERTIES
  VerdictReached
  KeepsPromise
CHECK_DEADLOCK FALSE
