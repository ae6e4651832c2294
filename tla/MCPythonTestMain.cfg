SPECIFICATION MainSpec
CONSTANT Programs <- MCPrograms
INVARIANT EveryTestIsTold
INVARIANT ExitTells
CHECK_DEADLOCK FALSE
