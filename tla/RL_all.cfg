SPECIFICATION Spec
CONSTANTS
  c1 = c1 c2 = c2 r1 = r1 r2 = r2 r3 = r3 h1 = h1 h2 = h2
  NoCharge = NoCharge
  Charges <- OneCharge
  Requests <- TwoRequests
  Hooks <- TwoHooks
  Amount <- TwoEach
  Rent = 2
  TenantAmounts <- JustAll
  ManualAmounts <- Full
  Features <- AllFeatures
  Serialized = FALSE
INVARIANTS  MoneyBehindEveryCredit
SYMMETRY Symmetric
CHECK_DEADLOCK FALSE
