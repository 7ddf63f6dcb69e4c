CONSTANT LineStates <- AllLineStates
SPECIFICATION Spec
PROPERTY ReleasedToRun
