\* A part comes to rest when its bounds are used up.
CHECK_DEADLOCK FALSE
SPECIFICATION Spec
CONSTANTS
    Levels = {2, 4, 5, 10, 20, 23, 70}
    MaxObserved = 3
    FailureThreshold = 3
    MaxEpoch = 2
    Hour = 4
    Day = 8
    Interval = 5
    Retention = 8
    MaxClock = 9
    MaxBack = 1
    RepeatedFailures = 1
    MaxRuns = 2
    MaxGrants = 1
    MaxPolls = 1
    MaxCrashes = 1
    Accounts = {1}
    MaxCredits = 1
    MaxProbeFailures = 1
    MaxAccountEdits = 2
    Nonces = {1, 2}
    StateTtl = 2
    MaxNow = 4
    MaxLoginRequests = 4
    MaxUpdates = 3
    BatchLimit = 2
    Pages = 2
    MaxSendFailures = 2
    MaxStops = 1
    Importers = {1, 2}
    Secrets = {1, 2}
    MaxFileEdits = 1
    MaxImports = 2
    Tools = {1, 2}
    Names = {"a", "b"}
    MaxToolRuns = 3
    MaxDeaths = 1
    Listed = {1, 2}
    MaxRequest = 3
    MaxPageEdits = 2
    Resets = {1, 2}
    Lefts = {5, 50}
    LowRemaining = 10
    CodexFailures = 2
    MaxFaults = 2
    CheckBalances = {40, 53, 70}
    LowBalance = 50
    RearmedBalance = 55
    LargeDrop = 25
    MaxChecks = 3
    MaxSteps = 1
    Editors = {"e1", "e2"}
    MaxAccounts = 2
    MaxNames = 2
    MaxCycles = 1
    MaxErrors = 1
    KeptFor = 1
    MaxShotTime = 3
    MaxRemovals = 1
    MaxShotFaults = 2
INVARIANTS  DigestsOnce GrantsTold GainsRose VerifierOnce
INVARIANTS NoCommandLost  DeletedBackedUp AccountShown
INVARIANTS LedgerAgrees  
PROPERTIES AlertsTold
