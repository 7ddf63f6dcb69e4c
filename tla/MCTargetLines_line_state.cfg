CONSTANT LineStates <- AllLineStates
SPECIFICATION Spec
INVARIANT LineStateWins
