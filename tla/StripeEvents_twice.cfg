SPECIFICATION Spec
CONSTANTS
  History <- FourEvents
  Delivery = {d1, d2}
  MaxFaults = 1
  None = None
INVARIANT NeverAppliedTwice
SYMMETRY DeliverySymmetry
