SPECIFICATION FairSpec
CONSTANTS
    Images <- AllImages
    Blocks = 4
    MaxCuts = 2
    MaxFaults = 2
INVARIANTS
    TypeOK
    OnlyNew
    Forgets
PROPERTIES
    Completes
    SettingsSurvive
    StartsAgain
CHECK_DEADLOCK FALSE
