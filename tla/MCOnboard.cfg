SPECIFICATION Spec
CONSTANTS
    Queue = "q"
    OtherQueue = "other"
    EventTypes <- Events
    ZoneId = "zone"
    NoRow = "norow"
    SeedZones = {"zone", "placeholder"}
    StartSubscriptions <- Subscribed
    MaxSendingFaults = 1
    Runs = {1}
    Keys = {1, 2, 3}
    Blank = 0
    NoKey = 99
    Beginnings <- Begun
    MaxOnboardFaults = 1
INVARIANTS
    ClaimsAreTrue
    OnboardedIsWhole
PROPERTIES
    SetupFinishes
CHECK_DEADLOCK FALSE
