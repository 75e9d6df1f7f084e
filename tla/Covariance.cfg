\* All processes end, so deadlock is not checked.
CONSTANTS
  N = 3
  Old <- OldLines
  Norm <- Norms
  MIN = 100
  Interruptible <- SomeInterrupts
  MayFail = TRUE
SPECIFICATION Spec
INVARIANTS LinesIntact CollectedOnce ClosestIsClosest
PROPERTY AllEnd
CHECK_DEADLOCK FALSE
