SPECIFICATION FairSpec
CONSTANTS
    PipelineDepth = 5
    LoadUsePenalty = 1
    TakenBranchPenalty = 2
    JumpRedirectPenalty = 2
    DividerLatency = 8
    DividerInterval = 1
    WordBits = 6
    MemSize = 12
    NumRegs = 2
    MaxInstructions = 5
    ResetPc = 0
    ProgramLength = 3
    InsnSet <- Extended
    Ending <- NoTail
    Switches <- AnySwitch
    IcacheLines = 2
    DcacheLines = 1
    Latency = 0
    Machines <- MCMachines
    LoadValues = {0, 4}
INVARIANTS
    CycleAccounting
    InstructionMix
PROPERTY
    RunEnds
CHECK_DEADLOCK FALSE
