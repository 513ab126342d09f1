SPECIFICATION Spec
CONSTANTS
    PipelineDepth = 0
    LoadUsePenalty = 2
    TakenBranchPenalty = 3
    JumpRedirectPenalty = 1
    DividerLatency = 2
    DividerInterval = 4
    Insns <- MCInsns
    StallCycles = {0, 5}
    MaxRetired = 3
    MaxHolds = 2
INVARIANTS
    TypeOK
    MatchesStream
