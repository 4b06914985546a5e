SPECIFICATION FairSpec
CONSTANTS
  Procs = {p1, p2}
  NoProc = NoProc
  Addrs = {a1, a2}
  Public = {a1, a2}
  NoAddr = NoAddr
  CheckSeconds = 1
  ForceSeconds = 2
  RetrySeconds = 1
  RetryMaxCount = 0
  AdminStops = FALSE
  NewName = FALSE
  MaxFaults = 1
  MaxStarts = 3
PROPERTIES Converges Refreshes
