SPECIFICATION Spec
CONSTANT Inputs <- MCInputs
INVARIANT MergesWithoutCycle
INVARIANT LibrariesAreValid
INVARIANT LayersAreMinimal
CHECK_DEADLOCK FALSE
