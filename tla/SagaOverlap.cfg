SPECIFICATION Spec
CONSTANTS
    r1 = r1
    r2 = r2
    r3 = r3
    r4 = r4
    Runs <- TwoRuns
    Actions <- MixedPlan
    Type <- MixedTypes
    PlanOrder <- MixedOrder
    Needs <- MixedNeeds
    Advancing <- NoneAdvance
    Overlap = TRUE
    MaxFaults = 1
    MaxTampers = 1
SYMMETRY Symmetry2
CONSTRAINT OneInterference
INVARIANTS
    TypeOK
    WriteAhead
    PublishedIsTrue
    SucceededNeverResent
PROPERTIES
    ImplementsTieredRelease

\* every run ends, so the system may stop
CHECK_DEADLOCK FALSE
