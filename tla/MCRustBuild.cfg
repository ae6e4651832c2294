SPECIFICATION Spec
CONSTANT Inputs <- MCInputs
INVARIANT ConsumersGetCode
INVARIANT DiagnosticsArrive
INVARIANT InputsArrive
CHECK_DEADLOCK FALSE
