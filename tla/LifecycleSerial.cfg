SPECIFICATION FairSpec
CONSTANTS
    core = core
    a = a
    b = b
    Modules <- MCModules
    Core = {core}
    DependsOn <- MCDependsOn
    InfraContainers <- MCInfra
    Order <- MCOrder
    HotReload = {}
    EnabledByDefault = {core, a}
    Handlers = {h1}
    SerializedToggles = TRUE
    MaxFaults = 2
    NoModule = NoModule
    NoDoc = NoDoc
PROPERTIES
    DependentsProtected
    RequestsSettle
    ServesAgain
