SPECIFICATION Spec
CONSTANTS
    Names <- ThreeNames
    NameLen <- OneLetter
    Bucket <- TwoBuckets
    NBuckets = 2
    Backed <- TwoBacked
    Short <- OnlyInit
    MaxLen = 10
    Inputs <- SomeStrings
    Default <- Usual
    Absent = Absent
    Lost = Lost
    Size = 24
    Headers <- OnlyUsual
    Contents <- Nothing
    Readers = {}
    Faults <- NoFaults
    MaxWrites = 2
INVARIANTS
    AllWritten
