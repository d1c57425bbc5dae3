SPECIFICATION Spec
CONSTANTS
    NTransforms = 2
    Limiar = 3
    Tol = 3
    Prof = 2
    MinFolha = 2
    NVariantes = 3
    Maiores = {3}
    Media = 2
    CompCusto <- MCCompCusto
    DescCusto <- MCDescCusto
    TransCusto = 1
    Curva <- MCCurva
    PrecoArm = 10
    Camadas = {0, 3}
    Esc = 10
    Configs <- MCConfigs
    Nucleos = 2
    Base = 4
    MinBloco = 1
    Grande = 2
    Medio = 2
    Setor = 2
    TolNum = 3
    TolDen = 2
    MinimoPares = 1
    Bloco = 2
    MaxBlocos = 2
    CodecsRapidos = {"zstd-3"}
    CodecsLentos = {"xz-9e"}
    ClassesTransform = {"texto"}
    Blocos <- MCBlocos
    Economias <- MCEconomias
    Textos <- MCTextos
    Cortes <- MCCortes
    Tars <- MCTars
    Colecoes <- MCColecoes
    Amostras <- MCAmostras
    Manifestos <- MCManifestos
    Opcoes <- MCOpcoes
    MaxVezes = 3
INVARIANTS
    RegretsAddUp
    JudgedOnUnseen
    PolicyPays
    ToolsAgree
    BytesComeBack
    FamiliesDisjoint
    SampleCounted
    ResultHoldsAll
CHECK_DEADLOCK FALSE
