CONSTANTS
  d1 = d1
  d2 = d2
  l1 = l1
  Dialog = {d1, d2}
  Leaf = {}
  Home <- AllInFirst
  None = None
  Modal = FALSE
  Garbage = {TRUE, FALSE}
  MaxDepth = 2
  MaxNotify = 0
SPECIFICATION FairSpec
PROPERTY RemovedIsDeleted
CHECK_DEADLOCK FALSE
