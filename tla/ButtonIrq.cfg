SPECIFICATION FrontSpec
CONSTANTS
    NButtons = 2
    Switches <- OneSwitch
    Cpus <- OneCpu
    Preempt = FALSE
    Faults <- CreateFaults
    Polled = FALSE
    Threshold = 0
    Delay = 1
    HZ = 1
    Prompt = FALSE
    MaxAge = 1
    MaxEdges = 3
INVARIANTS
    TypeOK
    Alternate
    Synced
    QuietAfterRemove

    
