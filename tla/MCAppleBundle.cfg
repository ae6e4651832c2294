SPECIFICATION Spec
CONSTANT Inputs <- MCInputs
CONSTANT HasEntitlements = {}
INVARIANT StateIsCurrent
INVARIANT BundleIsFresh
INVARIANT SealsHold
CHECK_DEADLOCK FALSE
