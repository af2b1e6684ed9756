SPECIFICATION Spec
CONSTANTS
    NButtons = 2
    Switches <- OneSwitch
    Cpus <- TwoCpus
    Preempt = TRUE
    Faults <- NoFaults
    Polled = FALSE
    Threshold = 0
    Delay = 0
    HZ = 1
    Prompt = FALSE
    MaxAge = 0
    MaxEdges = 0
INVARIANTS
    PressIsTold
