\* A part comes to rest when its bounds are used up.
CHECK_DEADLOCK FALSE
SPECIFICATION Spec
CONSTANTS
    Accounts = {1}
    MaxCredits = 1
    MaxFailures = 1
    MaxEdits = 2
INVARIANT AntigravityGainsRose
