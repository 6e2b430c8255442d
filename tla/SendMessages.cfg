SPECIFICATION LiveSpec
CONSTANTS
    Caller = {"ret", "app"}
    MaxRetries = 3
INVARIANTS
    ConfigRestored
    FullEffort
    DuplicatesExplained
PROPERTIES
    ImplementsCalls
    CallsReturn
