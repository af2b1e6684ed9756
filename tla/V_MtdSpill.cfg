SPECIFICATION Spec
CONSTANTS
    Size <- SizeTwo
    Nand = TRUE
    ImageLen = 5
    ChunksPerBlock = 2
    PartOffset = 0
    NoErase = FALSE
    EraseOpt = FALSE
    Forced = FALSE
    UseFlag = TRUE
    FlagSize = 1
    UseCfg = FALSE
    CfgSkip = 0
    CfgBlocks = 0
    EofChunk = 0
    HasHeader = FALSE
    Faults <- NoFaults
    MaxBad = 2
    MaxWorn = 1
INVARIANTS
    NeverBlind
