SPECIFICATION Spec
CONSTANTS
  c1 = c1 c2 = c2 l1 = l1 i1 = i1 i2 = i2
  NoInstance = NoInstance
  Charges <- TwoCharges
  Leases <- OneLease
  LeaseOf <- SameLease
  Instances <- Two
  LastDay = 3
  Graces <- NoOrOneDay
  Offsets <- EastOrWest
  MaxFailures = 1
INVARIANTS FeeOnce
PROPERTIES FeeComes
CHECK_DEADLOCK FALSE
