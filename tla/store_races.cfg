\* Three requests of two tenants on one content, all in progress at once.
SPECIFICATION Spec
CONSTANTS
    Requests = {r1, r2, r3}
    Tenants = {t1, t2}
    Hashes = {h1}
    Keys = {k1}
    NoKey = NoKey
    NoFile = NoFile
    Ops = {"compress", "delete", "read", "essence"}
    MaxActive = 3
    MaxCrashes = 0
    MaxFaults = 0
SYMMETRY Symmetry
INVARIANTS
    OneChargePerKey
    DedupOnlyOwn
    TenantIsolation
    AckedIsBilled
    BilledWasArchived
    GrantHasFile
\* The requests are finitely many: when all have been answered nothing is left to do.
CHECK_DEADLOCK FALSE
