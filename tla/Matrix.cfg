\* Two clients; one of them and the worker may be interrupted.
CONSTANTS
  c1 = c1  c2 = c2
  Clients = {c1, c2}
  Parts = 3
  Capacity = 2
  matrix <- TwoMatrices
  Y = Y  W = W  Z = Z  V = V
  Interruptible = {c1, Y, W, Z}
  None = None
SPECIFICATION Spec
CHECK_DEADLOCK FALSE
INVARIANTS StreamAligned OwnVerdict
PROPERTY AllAnswered
