SPECIFICATION Spec
CONSTANTS
    PipelineDepth = 5
    LoadUsePenalty = 1
    TakenBranchPenalty = 2
    JumpRedirectPenalty = 2
    DividerLatency = 8
    DividerInterval = 1
    WordBits = 6
    MemSize = 24
    NumRegs = 2
    MaxInstructions = 8
    ResetPc = 0
    ProgramLength = 4
    InsnSet <- Core
    Ending <- DivideAndHalt
    Switches <- BothOn
    IcacheLines = 2
    DcacheLines = 1
    Latency = 0
    Machines <- MCMachines
    LoadValues = {0, 4}
INVARIANTS
    TypeOK
    StreamNearPc
    ReplaysHit
    WrongPathBounded
    CycleAccounting
    OverlapBacked
    LastRetireIsTotal
PROPERTIES
    CreditsEarned
    CountersGrow
    TraceInOrder
CHECK_DEADLOCK FALSE
