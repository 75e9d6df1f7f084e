\* A client asks for a city that no servant holds.
CONSTANTS
  s1 = s1  s2 = s2 
  all = all  known = known  unknown = unknown
  k1 = k1  k2 = k2  elsewhere = elsewhere
  None = None
  Empty = Empty
  Eof = Eof
  Workers = {w1, w2}
  Clients = {known, unknown}
  Servants = {s1}
  Conns <- LostConns
  Cities = {k1, elsewhere}
  wants <- LostWants
  holds <- OneHolds
SPECIFICATION TSSpec
CHECK_DEADLOCK FALSE
PROPERTIES EveryRequestAnswered
