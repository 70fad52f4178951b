SPECIFICATION Spec
CONSTANTS
    Known = {"core", "dev", "rag", "docs"}
    Registered <- MCRegistered
    Core = {"core"}
    Dev = "dev"
    EnabledByDefault = {"core", "dev", "docs"}
    ProfileAddons <- MCProfileAddons
    Keys = {"url", "token"}
    ModuleKeys <- MCModuleKeys
    Secret = {"token"}
    Default <- MCDefault
    Values = {default, env}
    default = default
    env = env
    k1 = k1
    k2 = k2
    none = none
    Empty = Empty
    CipherKeys = {k1, k2}
    NoCipher = none
    Processes <- MCProcesses
    Updates = 2
    Restarts = 1
    MaxFaults = 1
    NoDoc = NoDoc
    Failed = Failed
INVARIANTS TypeOK EnabledAsSeeded SettingsStick AccessorsAgree SchemaCurrent
PROPERTIES BootKeepsSettings
CHECK_DEADLOCK FALSE
