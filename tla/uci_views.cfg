SPECIFICATION Spec
CONSTANTS
  Names = {n1, n2, n3}
  News = {x1, x2}
  NoName = NoName
  Opts = {o1}
  Vals = {v1, v2}
  None = None
  Views <- MCViews
  MaxEdits <- MCMaxEdits
PROPERTIES
  SaveShowsSame
  SaveKeepsValues
  SaveKeepsOrder
SYMMETRY Symmetric
CHECK_DEADLOCK FALSE
