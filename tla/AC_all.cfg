SPECIFICATION Spec
CONSTANTS
  u1 = u1 u2 = u2 e1 = e1 i1 = i1 l1 = l1 r1 = r1 r2 = r2
  None = None
  Deleted = Deleted
  Users <- TwoUsers
  Emails <- OneEmail
  Invites <- OneInvite
  Links <- OneLink
  Requests <- TwoRequests
  MaxPass = 1
  MaxVersion = 2
  MaxToken = 1
SYMMETRY Names
INVARIANTS AcceptedIsBacked OldPasswordsAreOut
CHECK_DEADLOCK FALSE
