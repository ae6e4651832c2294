SPECIFICATION Spec
CONSTANT b1 = b1
CONSTANT b2 = b2
CONSTANT Broker <- MCBroker
CONSTANT Requests <- MCRequests
CONSTANT RuntimeLists <- MCRuntimeLists
CONSTANT InitialSims <- MCInitialSims
CONSTANT MacCompanions = 3
CONSTANT MaxSims = 2
CONSTANT MaxSignals = 2
INVARIANT ReportIsGood
INVARIANT NoneIsForgotten
PROPERTY Answers
CHECK_DEADLOCK FALSE
