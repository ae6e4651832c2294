SPECIFICATION Spec
CONSTANT MaxAttempts = 2
INVARIANT ResultsAreGenuine
INVARIANT NodeOrphanExplained
INVARIANT EpmdStopsWithTree
PROPERTY GoodRunBrokenForAReason
CHECK_DEADLOCK FALSE
PROPERTY EndIsNoticed
PROPERTY ImplementsReport
