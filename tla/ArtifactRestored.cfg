SPECIFICATION Spec
CONSTANTS
    t1 = t1
    t2 = t2
    x1 = x1
    x2 = x2
    Absent = Absent
    Base = Base
    NoOne = NoOne
    Txns <- OneTxn
    Targets <- TwoTargets
    Deletes <- WritesAll
    Refreshes <- OneTxn
    RetentionMax = 0
    MaxFaults = 1
    MaxEdits = 0

INVARIANTS
    AppliedAsTold


\* every command ends, so the system may stop
CHECK_DEADLOCK FALSE
