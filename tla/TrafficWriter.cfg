SPECIFICATION FairSpec
CONSTANTS
  Free = Free
  Callers = {c1, c2}
  Controllers = {k1, k2}
  Cap = 1
  MaxGen = 2
INVARIANTS NoStrandedWrite NeverStoppedShort
PROPERTIES EverySubmitReturns EveryStopReturns ImplementsOnceWrites
