SPECIFICATION Spec
CONSTANTS
    m1 = m1

    Msg = {m1}
    Sync = {}
    Tethered = {}
    Addressed = {m1}
    Unserializable = {}
    TTL = 9
    MaxQueueSize = 2
    MinBatchSize = 1
    MaxBatchSize = 2
    OfflineStorage = TRUE
    OfflineRetryEnabled = TRUE
    ConnectivityCheckEnabled = FALSE
    SendHeartbeat = FALSE
    Inbound = FALSE
    RetryBatchSize = 1
    RetryBatches = 1
    Faults = {"down"}
    Refused = {}
    AppStops = TRUE
    MaxClock = 0
    MaxReboots = 0
INVARIANT ArrivesAsPublished
