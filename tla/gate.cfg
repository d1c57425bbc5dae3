\* Four clients that come, wait, work and leave; without symmetry, which liveness forbids.
SPECIFICATION FairSpec
CONSTANTS
    Requests = {r1, r2, r3, r4}
    Permits = 3
    Threads = 2
INVARIANTS
    PermitsConserved
    BalancerLeavesOne
PROPERTY WaitersServed
