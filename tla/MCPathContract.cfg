SPECIFICATION FairSpec
CONSTANTS
    Readers = {r1, r2}
    Describers = {d1}
    Publishers = {p1, p2}
    Confs <- ReportingConfs
CHECK_DEADLOCK FALSE
PROPERTIES
    KeepsContract
    StartingHoldAnswered
    UnusedIsStopped
