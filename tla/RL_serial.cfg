SPECIFICATION Spec
CONSTANTS
  c1 = c1 c2 = c2 r1 = r1 r2 = r2 r3 = r3 h1 = h1 h2 = h2
  NoCharge = NoCharge
  Charges <- OneCharge
  Requests <- Requests3
  Hooks <- OneHook
  Amount <- TwoEach
  Rent = 2
  TenantAmounts <- ExplicitAmounts
  ManualAmounts <- JustPart
  Features <- OrderedNoRecon
  Serialized = TRUE
INVARIANTS VoidedCarriesNoMoney NeverOverdebited
PROPERTIES BookSpec
CHECK_DEADLOCK FALSE
