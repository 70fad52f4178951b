SPECIFICATION Spec
CONSTANTS
    core = core a = a b = b r1 = r1 r2 = r2
    Modules = {core, a, b}
    Core = {core}
    DependsOn <- MCDependsOn
    Order <- MCOrder
    Keys = {"core", "authz", "b"}
    Provides <- MCProvides
    Resolves <- MCResolves
    Requires <- MCRequires
    Producers = {a}
    Authz = "authz"
    Capabilities <- MCCapabilities
    Retries = {r1, r2}
    MaxRetries = 3
    NoService = NoService NoModule = NoModule
    Unknown = Unknown
SYMMETRY Symmetry
INVARIANT RetryNeverPanics
CHECK_DEADLOCK FALSE
