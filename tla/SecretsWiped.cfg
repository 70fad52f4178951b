SPECIFICATION MCSpec
CONSTANTS
    Plain = {p}
    Secret = {s}
    HotReload = {FALSE}
    Requests = {r1}
    MaxUpdates = 2
    MaxFaults = 0
    Unset = Unset
PROPERTIES
    SecretsKept
