SPECIFICATION Spec
CONSTANTS
    PipelineDepth = 5
    LoadUsePenalty = 1
    TakenBranchPenalty = 2
    JumpRedirectPenalty = 2
    DividerLatency = 8
    DividerInterval = 1
    WordBits = 9
    MemSize = 272
    NumRegs = 18
    MaxInstructions = 40
    ResetPc = 0
    Machines <- MCMachines
    LoadValues = {35}
INVARIANTS
    DocumentedResults
    DocumentedTrace
CHECK_DEADLOCK FALSE
