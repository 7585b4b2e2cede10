CONSTANTS
  d1 = d1
  d2 = d2
  l1 = l1
  Dialog = {d1, d2}
  Leaf = {}
  Home <- AllInFirst
  None = None
  Modal = TRUE
  Garbage = {FALSE}
  MaxDepth = 3
  MaxNotify = 0
SPECIFICATION Spec
INVARIANT CallersKeepTheirControls
CHECK_DEADLOCK FALSE
