\* All processes may have ended or wait, so deadlock is not checked.
SPECIFICATION Spec
CONSTANTS
  s1 = s1
  s2 = s2
  c1 = c1
  Server = Server
  Stale = Stale
  Servants = {s1, s2}
  Clients = {c1}
  Victims <- SomeVictims
INVARIANTS DistinctPorts TotalOfTable
PROPERTIES SigintEndsServant SigintEndsServer CallReturns
CHECK_DEADLOCK FALSE
