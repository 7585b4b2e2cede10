CONSTANTS
  Control = {c1, c2}
  Local = {l1, l2}
  None = None
  Ids = 3
  Start = 1
  MaxMade = 4
SPECIFICATION FairSpec
INVARIANTS TypeOK OneEntryEach NoOrphanTimer ArmedIsRunning TicksReachTheirOwner
PROPERTIES ImplementsTimerSet ArmedTicks
