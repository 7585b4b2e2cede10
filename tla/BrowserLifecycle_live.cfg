CONSTANTS
  Control = {c1}
  Client = {k1, k2}
  Browser = {b1, b2}
  Slotted = {c1}
  None = None
SPECIFICATION FairSpec
PROPERTIES CloseRequestCompletes WindowTakesItsBrowsers
CHECK_DEADLOCK FALSE
