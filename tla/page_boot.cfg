SPECIFICATION LifeFairSpec
CONSTANTS
  ui = ui
  form = form
  view = view
  pre = pre
  Names = {ui, form, view, pre}
  Core = {ui, form}
  Ui = ui
  View = view
  Preloads = {pre}
  Allowed <- MCAllowed
  MaxLoads = 2
  RowIds = {1, 2}
  MaxPresses = 3
  MaxReloads = 1
INVARIANTS
  CircularIsReal
PROPERTIES
  ClassesSettle
  PageComesUp
  RequestServed
CHECK_DEADLOCK FALSE
