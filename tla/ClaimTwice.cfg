SPECIFICATION Spec
CONSTANTS
    Checker = {"poll", "app"}
    Content = {"a", "b"}
    NoContent = NoContent
    MaxChanges = 2
INVARIANT OneCallPerChange
