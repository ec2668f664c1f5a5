CONSTANTS
  a = a
  b = b
  Slots = {s1, s2}
  Texts = {a, b}
  Strange = {b}
  Batches <- AllBatches
  Editors = {e1, e2}
  Mixes <- AllMixes
  MaxPosts = 2
  MaxSends = 1
  MaxEdits = 2
  MaxFaults = 1
SPECIFICATION FairSpec
INVARIANTS
  InboxTypeOK
  UnreadKeepsUp
  ClosedIsQuiet
  LossesBounded
  AnsweredIsAccounted
  StoredOncePerPost
PROPERTIES
  StoredIsAnnounced
CHECK_DEADLOCK FALSE
