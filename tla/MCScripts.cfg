SPECIFICATION FairSpec
CONSTANTS
    Commands <- MCCommands
    Flags <- MCFlags
    MaxCommands = 2
    Follows <- MCFollows
    Cases <- MCCases
    Evidence <- MCEvidence
    SweepCases <- MCSweepCases
    Sizes <- MCSizes
    Latencies <- MCLatencies
    Mixed <- MCMixed
    SelectedKeys <- MCSelectedKeys
    BaseLines = 64
    BaseLat = 3
    CycleCounts = {1, 2, 3}
    RtlSummaries5b <- MCRtl5b
    RtlSummaries6b <- MCRtl6b
    SelectionCases <- MCSelectionCases
    M7Files <- MCM7Files
    M8Files <- MCM8Files
    References <- MCReferences
    OverlapLogs <- MCOverlapLogs
    ReplayLogs <- MCReplayLogs
    ExpectedOverlap = 2
    ExpectedReplays = 2
    FetchCases <- MCFetchCases
    FetchLogs <- MCFetchLogs
    Retirements <- MCRetirements
    AddressSpace = 16
    ShippedPredictions <- MCShipped
INVARIANTS
    VerdictsSound
    CorrelationClaims
    SummaryWhole
    FrontExact
    PredictionsValidated
    SelectionSound
    EpisodesMaximal
PROPERTIES
    ScriptsEnd
\* The user need not start another command; that no script hangs is ScriptsEnd.
CHECK_DEADLOCK FALSE
