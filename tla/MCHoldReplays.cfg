SPECIFICATION Spec
CONSTANTS
    PipelineDepth = 5
    LoadUsePenalty = 1
    TakenBranchPenalty = 2
    JumpRedirectPenalty = 2
    DividerLatency = 8
    DividerInterval = 1
    WordBits = 6
    MemSize = 40
    NumRegs = 2
    MaxInstructions = 16
    ResetPc = 0
    ProgramLength = 4
    InsnSet <- Core
    Ending <- DivideAndHalt
    Switches <- BothOn
    IcacheLines = 8
    DcacheLines = 1
    Latency = 3
    Machines <- DocMachines
    LoadValues = {0, 4}
PROPERTY
    HoldsReplayed
CHECK_DEADLOCK FALSE
