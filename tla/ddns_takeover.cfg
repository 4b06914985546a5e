SPECIFICATION Spec
CONSTANTS
  Procs = {p1, p2}
  NoProc = NoProc
  Addrs = {a1, a2}
  Public = {a1}
  NoAddr = NoAddr
  CheckSeconds = 2
  ForceSeconds = 3
  RetrySeconds = 1
  RetryMaxCount = 1
  AdminStops = TRUE
  NewName = TRUE
  MaxFaults = 2
  MaxStarts = 3
INVARIANT OneDaemon
PROPERTY PacedUpdates
SYMMETRY Symmetric
