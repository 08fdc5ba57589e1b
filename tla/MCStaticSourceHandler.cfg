SPECIFICATION FairSpec
CONSTANTS
    MaxStarts = 3
    MaxReloads = 2
CHECK_DEADLOCK FALSE
INVARIANTS
    TypeOK
    NoInstanceLeftBehind
    RequestsAreCurrent
PROPERTIES
    KeepsSourceContract
    StopAlwaysReturns
    CallsAreAnswered
