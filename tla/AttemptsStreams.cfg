SPECIFICATION Spec
CHECK_DEADLOCK FALSE
CONSTANTS
  m1 = m1
  m2 = m2
  Ids <- OneId
  Offers <- NoOffers
  Slots <- PiSlots
  MaxAttempts = 2
  MaxAutoRepeats = 1
  MaxDeliver = 1
  EvidenceRoom = 2
  MaxLiveHooks = 1
  MaxRx = 2
  MaxForgotten = 0
INVARIANTS CommitDecides
PROPERTIES AutoRepeatSafe DeliverySpec
