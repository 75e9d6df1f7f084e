\* The model ends with the answer, so deadlock is not checked.
SPECIFICATION DataSpec
CONSTANTS
  gumushane = gumushane
  hakkari = hakkari
  mus = mus
  ordu = ordu
  van = van
  bag = bag
  ev = ev
  Empty = Empty
  Blank = Blank
  Missing = Missing
  FILE_COUNT = 2
  TRANSACTION_COUNT = 3
  Dataset <- FiveCities
  PartOf <- NameParts
  Libraries <- SomeLibraries
  Ranges <- EitherOrder
  Lines <- SomeLines
INVARIANTS CountIsExact CityAtItsServant
CHECK_DEADLOCK FALSE
