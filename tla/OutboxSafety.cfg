SPECIFICATION Spec
CONSTANTS
  Passes = {p1, p2}
  Events = {1, 2}
  MaxItems = {2}
  MaxRetries = 2
  LeaseDuration = 1
  MaxLead = 1
  MaxCrashes = 0
  MaxSlow = 1
SYMMETRY PassSymmetry
INVARIANTS DuplicateNeedsCause
PROPERTIES SentStays
