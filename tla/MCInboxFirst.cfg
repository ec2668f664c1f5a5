CONSTANTS
  a = a
  b = b
  Slots = {s1, s2}
  Texts = {a, b}
  Strange = {}
  Batches <- OneBatch
  Editors = {e1}
  Mixes <- NoMix
  MaxPosts = 2
  MaxSends = 0
  MaxEdits = 0
  MaxFaults = 0
SPECIFICATION Spec
INVARIANTS
  AnsweredIsStored
CHECK_DEADLOCK FALSE
