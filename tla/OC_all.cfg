SPECIFICATION Spec
CONSTANTS
  p1 = p1 u1 = u1 u2 = u2 l1 = l1 l2 = l2 s1 = s1 s2 = s2
  None = None
  Props <- OneProperty
  Units <- TwoUnits
  Leases <- TwoLeases
  Slots <- TwoSlots
  FreeUnits = 1
  FreeProps = 1
SYMMETRY Symmetry
INVARIANTS OneLiveLease StatusIsTrue ArchivedIsFree LimitsHoldUpToOverlap
CHECK_DEADLOCK FALSE
