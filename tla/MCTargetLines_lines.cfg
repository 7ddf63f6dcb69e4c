CONSTANT LineStates <- AllLineStates
SPECIFICATION Spec
INVARIANTS
    TypeOK
    PadNeverStranded
    NotLeftInReset
    ResetNeverRefused
PROPERTIES
    QuietRelease
    ReleasedOnceRunning
