SPECIFICATION FairSpec
CONSTANTS
  Passes = {p1}
  Events = {1, 2}
  MaxItems = {1}
  MaxRetries = 2
  LeaseDuration = 1
  MaxLead = 1
  MaxCrashes = 1
  MaxSlow = 1
PROPERTIES EveryDeliverySettles
