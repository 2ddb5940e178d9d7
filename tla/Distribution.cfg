SPECIFICATION FairSpec
CONSTANTS
    r1 = r1
    r2 = r2
    Runs <- TwoRuns
    Mirrors <- PayloadAndIndex
    Hooks <- Propose
    Rank <- Chain
    DependsOn <- PointsTo
    Gated <- Propose
    Lenient <- Propose
    MayRehearse = TRUE
    Overlap = TRUE
    MaxFaults = 1
    MaxTampers = 1
INVARIANTS
    TypeOK
    WriteAhead
    ChainStops
    DistributedIsTrue
    IndexNamesPayload
    VerifiedIsDelivered
PROPERTIES
    Reconciles
    ImplementsDelivery

\* every command ends, so the system may stop
CHECK_DEADLOCK FALSE
