SPECIFICATION Spec
CONSTANTS
  x = x
  y = y
  w = w
  z = z
  v = v
  t1 = t1
  t2 = t2
  n1 = n1
  n2 = n2
  on = on
  off = off
  Order <- MCOrder
  Opt <- MCOpt
  Explicit = {y, w}
  Flags = {x}
  Required = {y}
  Retained = {}
  Default <- MCDefault
  Entries <- MCEntries
  Deps <- MCDeps
  Contained <- MCContained
  Rejected <- MCRejected
  Empty = Empty
  Existing = {a}
  Temps = {t1, t2}
  News = {n1, n2}
  None = None
  Initial <- MCInitial
  MaxClicks = 2
  MaxFailures = 1
SYMMETRY MCSymmetry
INVARIANTS
  ShownSettled
  
PROPERTIES
  SavedAsShown
  NothingInvalidSaved
CHECK_DEADLOCK FALSE
