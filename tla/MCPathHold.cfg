SPECIFICATION FairSpec
CONSTANTS
    Readers = {r1, r2}
    Describers = {d1}
    Publishers = {p1}
    Confs <- RunOnDemandConfs
CHECK_DEADLOCK FALSE
PROPERTIES
    HoldAnswered
