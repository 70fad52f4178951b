SPECIFICATION MCSpec
CONSTANTS
    Plain = {p}
    Secret = {s}
    HotReload = {TRUE, FALSE}
    Requests = {r1, r2}
    MaxUpdates = 3
    MaxFaults = 1
    Unset = Unset
INVARIANTS
    TypeOK
    RestartFlagged
    LegacyInSync
    EnvironmentsApart
PROPERTIES
    OthersKept
SYMMETRY RequestSymmetry
