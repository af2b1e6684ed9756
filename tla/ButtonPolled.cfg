SPECIFICATION FairSpec
CONSTANTS
    NButtons = 1
    Switches <- NoSwitch
    Cpus <- OneCpu
    Preempt = FALSE
    Faults <- MemoryFaults
    Polled = TRUE
    Threshold = 1
    Delay = 1
    HZ = 1
    Prompt = TRUE
    MaxAge = 3
    MaxEdges = 2
INVARIANTS
    Intact
    InSequence
PROPERTIES
    Debounced
    SeenWithinHold
    SettledIsReported
