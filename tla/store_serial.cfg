\* Requests one at a time; one restart, and one failed statement or lost client, anywhere.
SPECIFICATION Spec
CONSTANTS
    Requests = {r1, r2, r3}
    Tenants = {t1, t2}
    Hashes = {h1, h2}
    Keys = {k1}
    NoKey = NoKey
    NoFile = NoFile
    Ops = {"compress", "delete"}
    MaxActive = 1
    MaxCrashes = 1
    MaxFaults = 1
SYMMETRY Symmetry
INVARIANTS
    GrantHasBlob
    PublishedWhole
    IndexCoversVault
PROPERTY
    ImplementsArchive
\* The requests are finitely many: when all have been answered nothing is left to do.
CHECK_DEADLOCK FALSE
