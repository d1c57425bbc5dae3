\* A node with two workers and one with one, a kill and a failed write anywhere.
SPECIFICATION Spec
CONSTANTS
    n1 = n1
    n2 = n2
    w1 = w1
    w2 = w2
    w3 = w3
    Nodes = {n1, n2}
    Enabled = {n1}
    Workers = {w1, w2, w3}
    NodeOf <- MCNodeOf
    Dicts = {d1, d2}
    NoDict = NoDict
    Sizes = {1, 2}
    MinSamples = 2
    MinBytes = 3
    SampleBudget = 3
    MaxCrashes = 1
    MaxFaults = 1
SYMMETRY Symmetry
INVARIANTS
    SealedResolves
    ResolvedIsGenuine
    ReadyIsTrained
