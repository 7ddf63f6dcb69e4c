CONSTANT LineStates <- AllLineStates
SPECIFICATION Spec
PROPERTY Backstop
