SPECIFICATION WalletSpec
CONSTANTS
  o1 = o1 o2 = o2 x1 = x1 x2 = x2 s1 = s1 s2 = s2
  None = None
  Kinds <- AllKinds
  Objs <- TwoObjects
  Subs <- TwoSubs
  Slots <- TwoSlots
  MaxEvents = 2
  MaxDoubts = 1
  Banks <- OneBank
  Cards <- TwoSubs
  MaxSetups = 3
  Window = 2
  MaxUnits = 3
  MaxSlips = 1
SYMMETRY Symmetry
INVARIANTS RemoteIsKept RowIsSettled OneSubscription VerifiedIsTrue CardToldIsCharged UnitsAreBilled
CHECK_DEADLOCK FALSE
