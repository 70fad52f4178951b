SPECIFICATION FairSpec
CONSTANTS
    core = core
    a = a
    Modules = {core, a}
    Core = {core}
    Requests = {r1, r2}
    Admins = {w1}
    Faults = {"redis", "mongo", "wipe"}
    MaxWrites = 2
    SeedDefault <- MCSeedDefault
INVARIANTS
    TypeOK
PROPERTIES
    ImplementsGate
    Converges
