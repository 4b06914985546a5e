SPECIFICATION FairSpec
CONSTANTS
  f1 = f1
  f2 = f2
  f3 = f3
  Fns = {f1, f2, f3}
  Interval <- MCInterval
  Throwers = {f1}
  OneShots = {f3}
  Invocations <- MCInvocations
  MaxAdds = 3
  MaxEvents = 1
  TickWrap = 2
  Clients <- MCInvocations
  Plain <- MCPlain
  LoseCalls = TRUE
INVARIANTS
  CallsAccounted
  ExpiredMeansGone
  OneCallAtATime
  PausedStaysPaused
PROPERTIES
  CallsSettle
  CalledAgain
CHECK_DEADLOCK FALSE
