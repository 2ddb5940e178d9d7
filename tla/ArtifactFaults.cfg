SPECIFICATION FairSpec
CONSTANTS
    t1 = t1
    t2 = t2
    x1 = x1
    x2 = x2
    Absent = Absent
    Base = Base
    NoOne = NoOne
    Txns <- TwoTxns
    Targets <- TwoTargets
    Deletes <- RemovesOne
    Refreshes <- OnlyLast
    RetentionMax = 0
    MaxFaults = 1
    MaxEdits = 1

INVARIANTS
    TypeOK
    Recoverable
    CommittedIsTrue
    OneLateChange
    Honest
PROPERTIES
    EditsKept
    ImplementsUndoableUpdate
    EveryCommandAnswers

\* every command ends, so the system may stop
CHECK_DEADLOCK FALSE
