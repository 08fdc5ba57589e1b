SPECIFICATION Spec
CONSTANTS
    MaxStarts = 1
    MaxReloads = 1
CHECK_DEADLOCK FALSE
INVARIANT
    ReloadsDoNotCrash
