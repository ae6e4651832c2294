SPECIFICATION SelectionSpec
CONSTANT Cases <- MCCases
CONSTANT MaxTime = 1
CONSTANT Ignored <- MCIgnored
CONSTANT Sandbox <- MCSandbox
CONSTANT Mergeable <- MCMergeable
INVARIANT SelectionIsJust
CHECK_DEADLOCK FALSE
