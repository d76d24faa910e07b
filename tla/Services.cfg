\* A part comes to rest when its bounds are used up: a stopped daemon, a closed page.
CHECK_DEADLOCK FALSE
SPECIFICATION FairSpec
CONSTANTS
    Sessions = {1, 2, 3}
    PageSize = 1
    MaxWrites = 2
    MaxDaemonStops = 2
    Accounts = {1}
    MaxCredits = 1
    MaxProbeFailures = 1
    MaxEdits = 1
    MaxChanges = 1
    MaxFailures = 1
    MaxLoads = 1
    Batches = {1, 2}
    Sizes = {1, 2}
    MaxBatches = 2
    MaxTotalBytes = 2
    MaxRetention = 1
    MinDrainInterval = 1
    MinBackoff = 1
    MaxBackoff = 2
    AuthBackoff = 2
    RetryAfters = {2}
    MaxRetries = 1
    MaxCrashes = 1
    MaxFaults = 1
    MaxDamage = 0
    MaxOrders = 0
PROPERTIES KeepsCycling QueueServes LatchReturns Refreshed
