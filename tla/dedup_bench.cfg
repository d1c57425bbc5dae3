\* Two pairs of versions, three starts of the preparation, three chunkers.
SPECIFICATION Spec
CONSTANTS
    Pares <- MCPares
    Chunkers <- MCChunkers
    Divisor = 2
    Fator = 2
    Gear <- MCGear
    MaxExec = 3
INVARIANTS
    PreparedIsGenuine
    RebuildExact
    ChunksFindWholeFiles
CHECK_DEADLOCK FALSE
