SPECIFICATION Spec
CONSTANTS
  Batches = {1, 2}
  Sizes = {1}
  MaxBatches = 1
  MaxTotalBytes = 1
  MaxRetention = 1
  MinDrainInterval = 1
  MinBackoff = 1
  MaxBackoff = 2
  AuthBackoff = 2
  RetryAfters = {0}
  MaxRetries = 1
  MaxCrashes = 2
  MaxFaults = 2
  MaxDamage = 1
  MaxOrders = 1
INVARIANTS StateRecoverable DropCountBounds HaltStands
PROPERTIES NoUploadAfterConflict GenerationsGrow
