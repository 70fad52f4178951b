SPECIFICATION Spec
CONSTANTS
    core = core
    a = a
    b = b
    Modules <- MCModules
    Core = {core}
    DependsOn <- MCDependsOn
    InfraContainers <- MCInfra
    Order <- MCOrder
    HotReload = {b}
    EnabledByDefault = {core, a}
    Handlers = {h1, h2}
    SerializedToggles = TRUE
    MaxFaults = 1
    NoModule = NoModule
    NoDoc = NoDoc
INVARIANTS
    TypeOK
    JobsMatchStarted
    JobsHaveContainers
    EnabledInSync
    RepliesHonest
PROPERTIES
    BootReconciles
SYMMETRY HandlerSymmetry
