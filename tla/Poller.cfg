SPECIFICATION LiveSpec
CONSTANTS
    Rates = {"slow", "fast"}
    Setter = {"app", "handler"}
    Checker = {"poll", "app"}
    Limits = {2}
    Route <- MCRoute
    Others = {"default"}
    MaxHandlers = 2
    Sort <- MCSort
    MaxMessages = 2
    AppStops = TRUE
INVARIANTS
    RateInForce
    EveryMessageHandled
    InOrder
    RoutesStand
PROPERTIES
    RateTakesEffect
    PollerReturns
