SPECIFICATION FairSpec
CHECK_DEADLOCK FALSE
CONSTANTS
  m1 = m1
  m2 = m2
  Ids <- OneId
  Offers <- OneId
  Slots <- OnceSlots
  MaxAttempts = 2
  MaxAutoRepeats = 1
  MaxDeliver = 2
  EvidenceRoom = 2
  MaxLiveHooks = 1
  MaxRx = 2
  MaxForgotten = 1
PROPERTIES NeverReused NeverStranded
