SPECIFICATION FairSpec
CONSTANTS
    c1 = c1
    c2 = c2
    c3 = c3
    p1 = p1
    p2 = p2
    b1 = b1
    b2 = b2
    NoPlan = NoPlan
    NoCommand = NoCommand
    Commands <- ThreeCommands
    Plans <- TwoPlans
    Breakers <- TwoBreakers
    BreakableKinds <- OnlyDead
    MaxCrashes = 1
ACTION_CONSTRAINT OneOrder
INVARIANTS
    TypeOK
    ReleasedNotReplaced
    OneInForce
    Exclusive
PROPERTIES
    ApprovesInForce
    ImplementsLineage
    LockComesFree

\* every command ends, so the system may stop
CHECK_DEADLOCK FALSE
