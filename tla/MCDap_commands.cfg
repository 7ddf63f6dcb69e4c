CONSTANTS
    Retries <- OneOnly
    DefaultRetries <- One
    MatchRetries <- OneOnly
    Values <- MatchValues
    MaxRequests <- Three
    HalfClock <- Twelve
    WriteCycles <- One
    SlowCycles <- Three
    FastCycles <- Zero
    DefaultClock <- Two
    Clocks <- ClockChoices
    MaxSequences <- Two
SPECIFICATION Spec
INVARIANTS
    TypeOK
    WordsOfCount
    WritesConfirmed
    DrivenBetweenCommands
    NeverFaster
PROPERTIES
    ImplementsAccess
    CommandEnds
