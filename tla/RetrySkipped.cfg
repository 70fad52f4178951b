SPECIFICATION Spec
CONSTANTS
    core = core
    a = a
    b = b
    Modules <- MCModules
    Core = {core}
    DependsOn <- MCDependsOn
    InfraContainers <- MCInfra
    Order <- MCOrder
    HotReload = {}
    EnabledByDefault = {core, a}
    Handlers = {h1}
    SerializedToggles = TRUE
    MaxFaults = 1
    NoModule = NoModule
    NoDoc = NoDoc
INVARIANTS
    StartedWasInitialized
