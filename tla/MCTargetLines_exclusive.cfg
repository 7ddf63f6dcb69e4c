CONSTANT LineStates <- AllLineStates
SPECIFICATION Spec
INVARIANT ExclusiveAccess
