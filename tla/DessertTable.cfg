SPECIFICATION Spec
CONSTANTS
  Chefs <- SomeChefs
  Input <- MixedInput
  Interruptible <- SomeProcs
INVARIANTS EachPairOneDessert TotalIsExact
PROPERTY AllServed
CHECK_DEADLOCK FALSE
