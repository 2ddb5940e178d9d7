SPECIFICATION Spec
CONSTANTS
    r1 = r1
    r2 = r2
    r3 = r3
    r4 = r4
    Runs <- ThreeRuns
    Actions <- DefaultPlan
    Type <- DefaultTypes
    PlanOrder <- DefaultOrder
    Needs <- DefaultNeeds
    Advancing <- NoneAdvance
    Overlap = FALSE
    MaxFaults = 1
    MaxTampers = 0
PROPERTIES
    RefusesOnlyOnConflict

\* every run ends, so the system may stop
CHECK_DEADLOCK FALSE
