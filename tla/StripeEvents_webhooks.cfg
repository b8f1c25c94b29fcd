SPECIFICATION Spec
CONSTANTS
  History <- FourEvents
  Delivery = {d1, d2}
  MaxFaults = 1
  None = None
INVARIANTS
  DeliveryInv
  PaidMeansCredited
  AppliedOnce
  FollowsStripe
  OrderInv
PROPERTIES
  StaysProcessed
SYMMETRY DeliverySymmetry
