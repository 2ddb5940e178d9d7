SPECIFICATION Spec
CONSTANTS
    r1 = r1
    r2 = r2
    Runs <- TwoRuns
    Mirrors <- PayloadAndIndex
    Hooks <- Nothing
    Rank <- MirrorChain
    DependsOn <- PointsTo
    Gated <- Nothing
    Lenient <- Nothing
    MayRehearse = FALSE
    Overlap = FALSE
    MaxFaults = 1
    MaxTampers = 0
INVARIANTS
    DistributedIsTagged

\* every command ends, so the system may stop
CHECK_DEADLOCK FALSE
