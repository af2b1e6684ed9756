SPECIFICATION FairSpec
CONSTANTS
    Descriptions <- AllDescriptions
    MaxRelease = 3
    MaxCuts = 2
    MaxFaults = 2
INVARIANTS
    TypeOK
    Bootable
    NotStranded
    Blameless
PROPERTIES
    RunningIntact
    Installs
    Implements
CHECK_DEADLOCK FALSE
