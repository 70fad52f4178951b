SPECIFICATION PartsSpec
CONSTANTS
    Collections <- MCCollections
    Indexed = {"users", "audit"}
    Outages <- MCOutages
    MaxAttempts = 10
    FirstWait = 1
    WaitCap = 15
    OpTimeout = 50
    Deadline = 150
    LinkIds = {"google", "apple", "github"}
    MaxLinks = 4
    Kinds = {internal, external}
    Appliers = {a1, a2}
    Registrars = {r1, r2, r3}
    Families = 4
    MaxClock = 2
    Never = Never
    IntBits = 4
    TargetBits = {2, 3, 4}
    Numbers <- MCNumbers
    Tenants = {t1, t2}
    NoTenant = NoTenant
    Anything = Anything
    Statuses = {open, sent}
    MaxDocs = 3
    MaxStages = 2
INVARIANTS OutageSurvived SetupInTime PrimaryIsChosen LagFresh RegisteredOnce TypedReadsAgree
PROPERTIES TenantsApart
CHECK_DEADLOCK FALSE
