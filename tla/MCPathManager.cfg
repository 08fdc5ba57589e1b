SPECIFICATION FairSpec
CONSTANTS
    a = a
    re = re
    all = all
    None = None
    Names = {a}
    Regexps = {re}
    Matches <- MCMatches
    AllOthers = all
    Settings <- MCSettings
    Configurations <- MCConfigurations
    Clients = {c1}
    MaxPaths = 3
    MaxReloads = 1
CHECK_DEADLOCK FALSE
INVARIANTS
    TypeOK
    PathsAreListed
    OnePathPerName
PROPERTIES
    ReloadFinishes
    CloseFinishes
    ClientsAreAnswered
