\* Four blocks in two files, two workers, tests of one tick, one dead worker.
SPECIFICATION FairSpec
CONSTANTS
    B = 4
    Clen <- MCClen
    NPrep = 2
    NTeste = 2
    Comandos <- MCComandos
    Duracao = 1
    Intervalo = 1
    Folga = 1
    Passo = 2
    CapSaida = 8
    MaxPorTic = 1
    MaxTempo = 2
    MaxMortes = 1
INVARIANTS
    FramesComeBack
    StopsForTheDeadline
PROPERTIES
    CommandEnds
CHECK_DEADLOCK FALSE
