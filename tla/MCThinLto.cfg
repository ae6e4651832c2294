SPECIFICATION LinkSpec
CONSTANT Links <- MCLinks
INVARIANT LinkedOnce
INVARIANT InputsDeclared
INVARIANT FlagsReachOpt
CHECK_DEADLOCK FALSE
