SPECIFICATION FairSpec
CONSTANTS
    PostHooks <- Hooks2
    Gated <- GatedHook
    Rank <- HookOrder
    Plans <- AnyPlan
    MaxFaults = 3
INVARIANTS
    TypeOK
    TellsTruth
    FrozenUntilVerified
    ConfigRestored
    PostVerifyOnce
PROPERTIES
    VerifiedStays
    ImplementsLedger
    ShipFinishes
