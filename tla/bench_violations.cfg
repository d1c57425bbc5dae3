\* The same instance; what the report says of an empty list of violations.
SPECIFICATION Spec
CONSTANTS
    Arquivos <- MCArquivos
    Selecoes <- MCSelecoes
    Cap = 4
    Bloco = 1
    Mib = 2
    ConfigsDe <- MCConfigsDe
    ConfigsCompleto = {"zstd-3"}
    Longa = "zstd-3-long27"
    Velocidade <- MCVelocidade
    Lentas = {"zstd-19"}
    ClassesDic = {"texto"}
    Niveis = {3}
    Ecore <- MCEcore
    NCpus = 2
    ConfigsEscala <- MCConfigsEscala
    Ordem <- MCOrdem
    Ns <- MCNs
    Rodadas = 1
    Grupos <- MCGrupos
    MaxExec = 2
    MaxFaltas = 1
INVARIANT
    ViolationsListed
CHECK_DEADLOCK FALSE
