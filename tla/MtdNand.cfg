SPECIFICATION FairSpec
CONSTANTS
    Size <- SizeOne
    Nand = TRUE
    ImageLen = 5
    ChunksPerBlock = 2
    PartOffset = 0
    NoErase = FALSE
    EraseOpt = TRUE
    Forced = TRUE
    UseFlag = TRUE
    FlagSize = 1
    UseCfg = FALSE
    CfgSkip = 0
    CfgBlocks = 0
    EofChunk = 0
    HasHeader = FALSE
    Faults <- AllFaults
    MaxBad = 2
    MaxWorn = 1
INVARIANTS
    NeverBlind
    NoHole
PROPERTIES
    Termination
