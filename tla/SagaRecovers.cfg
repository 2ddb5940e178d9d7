SPECIFICATION FairSpec
CONSTANTS
    r1 = r1
    r2 = r2
    r3 = r3
    r4 = r4
    Runs <- FourRuns
    Actions <- CreatePlan
    Type <- CreateTypes
    PlanOrder <- CreateOrder
    Needs <- CreateNeeds
    Advancing <- OneAdvances
    Overlap = FALSE
    MaxFaults = 1
    MaxTampers = 0
ACTION_CONSTRAINT StartedInOrder
INVARIANTS
    TiersRespected
    PublishedIsTrue
PROPERTIES
    EventuallyPublished
    RefusesOnlyOnConflict

\* every run ends, so the system may stop
CHECK_DEADLOCK FALSE
