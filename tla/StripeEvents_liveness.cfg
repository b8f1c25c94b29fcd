SPECIFICATION FairSpec
CONSTANTS
  History <- TwoEvents
  Delivery = {d1, d2}
  MaxFaults = 2
  None = None
PROPERTIES
  EveryEventProcessed
