SPECIFICATION Spec
CONSTANT Level <- MCLevel
CONSTANT Calls <- MCCalls
CONSTANT MaxLate = 2
CONSTANT MaxMixed = 1
INVARIANT ConfigAsFresh
INVARIANT SetupIsUp
INVARIANT NothingLeftBehind
PROPERTY ShortestSetup
CHECK_DEADLOCK FALSE
PROPERTY CallReturns
