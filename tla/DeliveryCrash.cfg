SPECIFICATION Spec
CONSTANTS
    m1 = m1
    m2 = m2
    Msg = {m1, m2}
    Sync = {}
    Tethered = {}
    Addressed = {}
    Unserializable = {}
    TTL = 1
    MaxQueueSize = 1
    MinBatchSize = 1
    MaxBatchSize = 2
    OfflineStorage = TRUE
    OfflineRetryEnabled = TRUE
    ConnectivityCheckEnabled = TRUE
    SendHeartbeat = FALSE
    Inbound = FALSE
    RetryBatchSize = 1
    RetryBatches = 2
    Faults = {"down", "erring"}
    Refused = {}
    AppStops = TRUE
    MaxClock = 1
    MaxReboots = 1
SYMMETRY Symmetry
INVARIANTS
    OneCopy
    IInv
PROPERTIES
    StoredUntilDelivered
    ImplementsOutbox
    UsesCalls
