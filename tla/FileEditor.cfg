\* All editors end, so deadlock is not checked.
CONSTANTS
  Editors = {e1, e2}
  None = None
  LineEnds <- SomeEnds
  Chars <- SomeChars
  Texts <- SomeTexts
  Jobs <- SomeJobs
  Lower <- LowerOf
SPECIFICATION EditSpec
INVARIANT EditReplacesAll
PROPERTY EditsIsolated
CHECK_DEADLOCK FALSE
