SPECIFICATION Spec
CONSTANTS
    Size <- SizeFive
    Nand = TRUE
    ImageLen = 8
    ChunksPerBlock = 2
    PartOffset = 0
    NoErase = FALSE
    EraseOpt = FALSE
    Forced = FALSE
    UseFlag = TRUE
    FlagSize = 3
    UseCfg = TRUE
    CfgSkip = 1
    CfgBlocks = 1
    EofChunk = 5
    HasHeader = TRUE
    Faults <- NoWriteFault
    MaxBad = 1
    MaxWorn = 0
INVARIANTS
    OkMeansStored
    ConfigKept
    FlagCoversTear
