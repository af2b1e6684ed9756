SPECIFICATION Spec
CONSTANTS
    Size <- SizeTwo
    Nand = FALSE
    ImageLen = 5
    ChunksPerBlock = 2
    PartOffset = 0
    NoErase = FALSE
    EraseOpt = FALSE
    Forced = FALSE
    UseFlag = TRUE
    FlagSize = 1
    UseCfg = FALSE
    CfgSkip = 0
    CfgBlocks = 0
    EofChunk = 0
    HasHeader = FALSE
    Faults <- ReadFault
    MaxBad = 0
    MaxWorn = 0
INVARIANTS
    RebootOnlyAfterSuccess
