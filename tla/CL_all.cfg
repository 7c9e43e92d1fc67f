SPECIFICATION Spec
CONSTANTS
  u1 = u1  u2 = u2  k1 = k1  k2 = k2  l1 = l1  b1 = b1  m1 = m1
  None = None
  Refused = Refused
  Users <- TwoUsers
  Calls <- TwoCalls
  MaxLogouts = 1
  MaxOpened = 2
  Pages <- TwoPages
  Shift = 1
  Leases <- OneLease
  DaysPerMonth = 3
  LastDueDay = 2
  Starts <- FromDay5
  Ends <- ToDay7
  NewEnds <- ToDay8
  DueDays <- DueDayTwo
  Extras <- NoExtras
  Copies = 2
  MaxPayments = 1
  MaxSaves = 2
  Bills <- OneBill
  Moneys <- OneMoney
  NoRow = NoRow
  LastDate = 2
  BillAmounts <- Two
  MoneyAmounts <- OneTwo
  Froms <- FromTwo
  Tos <- ToOne
  MaxDuring = 1
  Subjects <- TwoRows
  NoOne = NoOne
  Sends <- TwoSends
  MaxTexts = 2
  MaxElsewhere = 1
INVARIANTS
  OwnData
  LogoutRevokes
  WaitersAreServed
  
  OneRentPerMonth
  SweptClean
  ReportAddsUp
  IssuedStays
  NothingLeftOver
  LateAnswersPass
SYMMETRY Symmetry
CHECK_DEADLOCK FALSE
