SPECIFICATION Spec
CONSTANTS
    Size <- SizeOffset
    Nand = FALSE
    ImageLen = 7
    ChunksPerBlock = 2
    PartOffset = 1
    NoErase = FALSE
    EraseOpt = FALSE
    Forced = FALSE
    UseFlag = TRUE
    FlagSize = 1
    UseCfg = FALSE
    CfgSkip = 0
    CfgBlocks = 0
    EofChunk = 0
    HasHeader = FALSE
    Faults <- NoReadFault
    MaxBad = 0
    MaxWorn = 2
INVARIANTS
    TypeOK
    SingleGap
    OkMeansStored
    Ordered
    BelowOffsetKept
PROPERTIES
    FlashOnlyUnderFlag
    Implements
