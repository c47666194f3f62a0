SPECIFICATION LoginSpec
CONSTANTS
  Handlers = {r1, r2}
  Nothing = none
  CodesPerBatch = 1
  MaxStarted = 4
  MaxTime = 1
SYMMETRY HandlerSymmetry
INVARIANT UsedOnce SignedOut
CHECK_DEADLOCK FALSE
