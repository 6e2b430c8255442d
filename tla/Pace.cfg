SPECIFICATION Spec
CONSTANTS
    Tick = 2
    Second = 1
    Timeout = 3
    Interval = 3
    MaxRetries = 2
    MinBatchSize = 1
    MaxBatchSize = 3
    MaxQueueSize = 2
    TargetCPUPercent = 50
    TargetMemPercent = 80
    Percents <- MCPercents
    Slow = 2
    Unlucky = 1
INVARIANTS BatchFits BatchAge Absence Pulse
