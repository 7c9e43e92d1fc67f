SPECIFICATION Spec
CONSTANTS
  n1 = n1 n2 = n2 i1 = i1 i2 = i2 x1 = x1 x2 = x2
  None = None
  Notes <- TwoNotes
  Matters <- Changes
  Instances <- TwoInstances
  Subjects <- TwoSubjects
  RentDays <- TwoDays
  LeaseEnds <- TwoEnds
  LastDay = 35
  TicketWays <- JustEmail
  Files <- TwoFiles
  Desks <- TwoDesks
  MaxChanges = 2
  MaxDoubts = 1
SYMMETRY Symmetry
INVARIANTS LogIsHonest RemindedOnce FilesMatchRows SubmitterKnows
CHECK_DEADLOCK FALSE
