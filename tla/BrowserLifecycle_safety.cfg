CONSTANTS
  Control = {c1, c2}
  Client = {k1, k2}
  Browser = {b1, b2, b3}
  Slotted = {c1}
  None = None
SPECIFICATION Spec
SYMMETRY Symmetric
INVARIANTS TypeOK HeldIsAnnounced OpenMainIsHeld TestedCallFaultsOnlyAfterClose
           CallsReachOwnBrowser MenuFindsBrowserBeforeClose SlotDiesOnlyWithSecondClient
CHECK_DEADLOCK FALSE
PROPERTY ImplementsHolder
