\* Two servants, started one after the other or together; two clients.
CONSTANTS
  s1 = s1  s2 = s2
  all = all  known = known  unknown = unknown
  k1 = k1  k2 = k2  elsewhere = elsewhere
  None = None
  Empty = Empty
  Eof = Eof
  Workers = {w1, w2}
  Clients = {all, known}
  Servants = {s1, s2}
  Conns <- MixedConns
  Cities = {k1, k2}
  wants <- MixedWants
  holds <- TwoHold
SPECIFICATION TSSpec
CHECK_DEADLOCK FALSE
INVARIANTS NoServantTwice RegistrationKept RightServant TotalCovers
PROPERTIES ExitOnlyOnUnready KnownCityAnswered
