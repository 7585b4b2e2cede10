CONSTANTS
  Control = {c1}
  Client = {k1}
  Browser = {b1, b2}
  Slotted = {c1}
  None = None
SPECIFICATION Spec
INVARIANT QuitAfterAllClosed
CHECK_DEADLOCK FALSE
