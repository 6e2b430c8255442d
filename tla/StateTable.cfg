SPECIFICATION LiveSpec
CONSTANTS
    Checker = {"poll", "app"}
    Content = {"a", "b"}
    NoContent = NoContent
    MaxChanges = 3
INVARIANTS
    HeardOnceInTurn
PROPERTIES
    HandlerUpToDate
    RecordFollows
