SPECIFICATION Spec
CONSTANTS
    Commands <- Select
    Flags <- MCFlags
    MaxCommands = 1
    Follows <- MCFollows
    Cases <- MCCases
    Evidence <- MCEvidence
    SweepCases <- MCSweepCases
    Sizes <- MCSizes
    Latencies <- MCLatencies
    Mixed <- MCMixed
    SelectedKeys <- MCSelectedKeys
    BaseLines = 64
    BaseLat = 3
    CycleCounts = {1, 2, 3}
    RtlSummaries5b <- MCRtl5b
    RtlSummaries6b <- MCRtl6b
    SelectionCases <- MCSelectionCases
    M7Files <- MCM7Files
    M8Files <- MCM8Files
    References <- MCReferences
    OverlapLogs <- MCOverlapLogs
    ReplayLogs <- MCReplayLogs
    ExpectedOverlap = 2
    ExpectedReplays = 2
    FetchCases <- MCFetchCases
    FetchLogs <- MCFetchLogs
    Retirements <- MCRetirements
    AddressSpace = 16
    ShippedPredictions <- MCShipped
INVARIANT
    StrictRejectsFallback
\* The user need not start another command.
CHECK_DEADLOCK FALSE
