SPECIFICATION LiveSpec
CONSTANTS
    Unreadable = Unreadable
    Disks <- MCDisks
    Stopper = {"app", "poll"}
    Tethers = {"t1"}
    MaxWire = 2
    MaxLives = 2
INVARIANTS
    FeaturesAsAsked
    WaitGroupExact
    StoreClosedLast
    NothingLeft
    PanicExplained
    Presence
    WaitExplained
PROPERTIES
    InitializeNeutral
    HangExplained
CHECK_DEADLOCK FALSE
