SPECIFICATION Spec
CONSTANTS
  p1 = p1 p2 = p2 p3 = p3 k1 = k1 k2 = k2 m1 = m1 m2 = m2 m3 = m3
  NoPost = NoPost
  Posts <- ThreePosts
  Clicks <- TwoClicks
  MailOf <- Repeated
  Texts <- JustM2
  Urgent <- NoMail
  Limit = 2
  Features <- Failures
  Serialized = FALSE
INVARIANTS SentByOne ThreadedOnce
CHECK_DEADLOCK FALSE
