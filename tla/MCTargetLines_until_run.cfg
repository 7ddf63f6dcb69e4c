CONSTANT LineStates <- AllLineStates
SPECIFICATION Spec
INVARIANT DrivenUntilRun
