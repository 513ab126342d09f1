SPECIFICATION Spec
CONSTANTS
    PipelineDepth = 5
    LoadUsePenalty = 1
    TakenBranchPenalty = 2
    JumpRedirectPenalty = 2
    DividerLatency = 8
    DividerInterval = 1
    Insns <- MCInsns
    StallCycles = {0, 7}
    MaxRetired = 4
    MaxHolds = 1
INVARIANTS
    StallsAccounted
    MatchesStream
PROPERTY
    RetiresInOrder
