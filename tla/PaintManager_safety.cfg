CONSTANTS
  d1 = d1
  d2 = d2
  l1 = l1
  Dialog = {d1, d2}
  Leaf = {l1}
  Home <- AllInFirst
  None = None
  Modal = FALSE
  Garbage = {FALSE}
  MaxDepth = 3
  MaxNotify = 0
SPECIFICATION Spec
INVARIANTS TypeOK CallersKeepTheirControls RememberedControlsExist
PROPERTY ImplementsDelayedWork
