SPECIFICATION Spec
CONSTANTS
    Names <- ThreeNames
    NameLen <- OneLetter
    Bucket <- TwoBuckets
    NBuckets = 2
    Backed <- TwoBacked
    Short <- OnlyInit
    MaxLen = 60
    Inputs <- MoreStrings
    Default <- Usual
    Absent = Absent
    Lost = Lost
    Size = 36
    Headers <- OnlyAnother
    Contents <- Begins
    Readers = {r1}
    Faults <- AllFaults
    MaxWrites = 2
INVARIANTS
    TypeOK
    ReadsCurrent
    HeaderAgrees
PROPERTIES
    Implements
