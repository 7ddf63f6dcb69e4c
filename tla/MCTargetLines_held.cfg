CONSTANT LineStates <- AllLineStates
SPECIFICATION Spec
INVARIANT HeldInReset
