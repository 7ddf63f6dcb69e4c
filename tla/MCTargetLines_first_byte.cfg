CONSTANT LineStates <- AllLineStates
SPECIFICATION Spec
INVARIANT FirstByteDriven
