\* A delete counts the references left and then purges; a send may come in between.
SPECIFICATION Spec
CONSTANTS
    Requests = {r1, r2, r3}
    Tenants = {t1, t2}
    Hashes = {h1}
    Keys = {k1}
    NoKey = NoKey
    NoFile = NoFile
    Ops = {"compress", "delete"}
    MaxActive = 2
    MaxCrashes = 0
    MaxFaults = 0
SYMMETRY Symmetry
PROPERTY BlobLeavesWithLastReference
\* The requests are finitely many: when all have been answered nothing is left to do.
CHECK_DEADLOCK FALSE
