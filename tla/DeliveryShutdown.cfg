SPECIFICATION Spec
CONSTANTS
    m1 = m1
    m2 = m2
    m3 = m3
    Msg = {m1, m2, m3}
    Sync = {m1}
    Tethered = {m3}
    Addressed = {}
    Unserializable = {m3}
    TTL = 1
    MaxQueueSize = 2
    MinBatchSize = 1
    MaxBatchSize = 1
    OfflineStorage = TRUE
    OfflineRetryEnabled = TRUE
    ConnectivityCheckEnabled = FALSE
    SendHeartbeat = TRUE
    Inbound = TRUE
    RetryBatchSize = 1
    RetryBatches = 1
    Faults = {"down", "erring"}
    Refused = {}
    AppStops = TRUE
    MaxClock = 0
    MaxReboots = 0
INVARIANTS DrainComplete StorageOutlivesWorkers MemoryBounded DirectMeansDelivered Accounted
