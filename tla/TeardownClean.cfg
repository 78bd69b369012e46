\* What teardown says it leaves.
SPECIFICATION Spec
CONSTANTS
  Clients = {c1}
  Shapes <- MCShapes
  MaxEpoch = 1
  Denied = Denied
  None = None
INVARIANTS TeardownIsClean
