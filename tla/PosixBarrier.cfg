\* Five threads meet at the barrier.  The threads end after it, so the run
\* has final states; AllPass shows that these are the only ones.
CONSTANTS
  Threads = {t1, t2, t3, t4, t5}
  None = None
SPECIFICATION BSpec
CHECK_DEADLOCK FALSE
INVARIANT NoSleeperLeft
PROPERTIES RendezvousSafety AllPass
