\* Three small trees, one change by another program anywhere, two workers.
SPECIFICATION Spec
CONSTANTS
    MaxNome = 3
    Root = 1
    Nodes = {1, 2, 3, 4, 5, 6, 7, 8, 9, 10, 11, 12, 13}
    Kind <- MCKind
    Dev <- MCDev
    Perm <- MCPerm
    Trees <- MCTrees
    Bytes <- MCBytes
    Datas <- MCDatas
    Workers = {w1, w2}
    CacheMax = 1
    ProfMax = 2
    MaxArquivos = 0
    HashCompleto = FALSE
    MaxEdits = 1
SYMMETRY Symmetry
INVARIANTS
    ScanExact
    RedundantIsCopy
    CopiesAreFound
CHECK_DEADLOCK FALSE
