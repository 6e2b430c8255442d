SPECIFICATION LiveSpec
CONSTANTS
    m1 = m1
    m2 = m2
    Msg = {m1, m2}
    Sync = {}
    Tethered = {}
    Addressed = {}
    Unserializable = {}
    TTL = 1
    MaxQueueSize = 1
    MinBatchSize = 1
    MaxBatchSize = 1
    OfflineStorage = TRUE
    OfflineRetryEnabled = TRUE
    ConnectivityCheckEnabled = TRUE
    SendHeartbeat = FALSE
    Inbound = FALSE
    RetryBatchSize = 1
    RetryBatches = 1
    Faults = {"down"}
    Refused = {m2}
    AppStops = TRUE
    MaxClock = 1
    MaxReboots = 0
PROPERTIES
    EventuallyDelivered
    StopReturns
    NothingOverstays
