SPECIFICATION Spec
CONSTANTS
    a = a
    re = re
    all = all
    None = None
    Names = {a}
    Regexps = {re}
    Matches <- MCMatches
    AllOthers = all
    Settings <- MCSettings
    Configurations <- HotConfigurations
    Clients = {c1}
    MaxPaths = 4
    MaxReloads = 2
CHECK_DEADLOCK FALSE
INVARIANT ReloadIsApplied
