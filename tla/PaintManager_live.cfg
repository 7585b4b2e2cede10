CONSTANTS
  d1 = d1
  d2 = d2
  l1 = l1
  Dialog = {d1}
  Leaf = {l1}
  Home <- AllInFirst
  None = None
  Modal = FALSE
  Garbage = {FALSE}
  MaxDepth = 2
  MaxNotify = 1
SPECIFICATION FairSpec
PROPERTIES RemovedIsDeleted SentIsDelivered
