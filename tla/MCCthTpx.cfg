SPECIFICATION Spec
CONSTANT Group <- MCGroup
CONSTANT Case <- MCCase
CONSTANT TestSpecs <- MCTestSpecs
INVARIANT GroupsTracked
INVARIANT ReportsFaithful
INVARIANT CollectedInOrder
CHECK_DEADLOCK FALSE
