\* Three consumers, two rounds; exact, larger, smaller, one-sided files.  A process
\* that has ended, or waits for a delivery that never comes, stops.
CONSTANTS
  C = 3
  N = 2
  SemMax = 7
  Inputs <- MCInputs
SPECIFICATION Spec
CHECK_DEADLOCK FALSE
INVARIANTS Conservation NoFailure NobodyCutOff
PROPERTY Ends
