SPECIFICATION Spec
CONSTANTS
  p1 = p1 p2 = p2 p3 = p3 k1 = k1 k2 = k2 m1 = m1 m2 = m2 m3 = m3
  NoPost = NoPost
  Posts <- ThreePosts
  Clicks <- NoClicks
  MailOf <- Distinct
  Texts <- JustM3
  Urgent <- JustM2
  Limit = 1
  Features <- AllFeatures
  Serialized = TRUE
INVARIANTS RepliesAreCapped
PROPERTIES SilentWhenEscalated 
CHECK_DEADLOCK FALSE
