CONSTANT LineStates <- AllLineStates
SPECIFICATION Spec
INVARIANT DrivenMidFlash
