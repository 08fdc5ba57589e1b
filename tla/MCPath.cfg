SPECIFICATION Spec
CONSTANTS
    Readers = {r1, r2, r3}
    Describers = {d1}
    Publishers = {p1, p2}
    Confs <- MCConfs
SYMMETRY Symmetry
CHECK_DEADLOCK FALSE
INVARIANTS
    FittingIsLoop
    TypeOK
    NoPanic
    StreamInv
    StreamMatchesSource
    ReadyEffectsMatchStream
    NoOrphanReader
    NoOrphanPublisher
    CloseOnlyWhenUnused
    MaxReadersRespected
    ClosedIsClean
