SPECIFICATION Spec
CONSTANTS
    r1 = r1
    r2 = r2
    Runs <- TwoRuns
    Mirrors <- PayloadOnly
    Hooks <- NotifyAndPropose
    Rank <- LenientFirst
    DependsOn <- PointsNowhere
    Gated <- Nothing
    Lenient <- Notify
    MayRehearse = FALSE
    Overlap = FALSE
    MaxFaults = 1
    MaxTampers = 0
INVARIANTS
    VerifiedNeedsDelivery

\* every command ends, so the system may stop
CHECK_DEADLOCK FALSE
