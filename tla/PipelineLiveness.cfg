SPECIFICATION FairSpec
CONSTANTS
  Batches = {1, 2}
  Keys = {1, 2}
  Slots = {s1, s2}
  MaxActive = 0
PROPERTIES EveryBatchSettles
