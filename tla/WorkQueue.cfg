\* Three workers race for three connections; a server never stops, so
\* deadlock is checked.
CONSTANTS
  Workers = {w1, w2, w3}
  Conns = {c1, c2, c3}
  Main = Main
  None = None
SPECIFICATION Spec
INVARIANT NoLostWakeup
PROPERTIES HandoffSafety HandoffSpec
