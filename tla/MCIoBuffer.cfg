SPECIFICATION Spec
CONSTANT MaxElements = 2
CONSTANT Others <- MCOthers
CONSTANT MaxLines = 3
CONSTANT MaxParts = 2
INVARIANT OwnOutput
INVARIANT BufferIsTail
INVARIANT ReportedOrPrinted
PROPERTY LeavesForAReason
CHECK_DEADLOCK FALSE
