SPECIFICATION FairSpec
CONSTANTS
    PostHooks <- NoHooks
    Gated <- NoHooks
    Rank <- NoOrder
    Plans <- Distributing
    MaxFaults = 0
PROPERTIES
    ShipResumes
