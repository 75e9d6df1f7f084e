\* Four threads with two rows each, SIGINT at any time or never.
CONSTANTS
  Threads = {0, 1, 2, 3}
  None = None
  Size = 8
SPECIFICATION DSpec
CHECK_DEADLOCK FALSE
INVARIANTS DftReadsFinalProduct OutputComplete RowsApart NoUseAfterFree
PROPERTY Finishes
