SPECIFICATION ShellSpec
CONSTANT Lists <- MCLists
CONSTANT Nodes <- MCNodes
CONSTANT Specs = {1, 2, 0}
INVARIANT OneNodeUp
INVARIANT OneSuiteInNode
PROPERTY IdKeepsItsTest
CHECK_DEADLOCK FALSE
PROPERTY CommandReturns
