SPECIFICATION FairSpec
CHECK_DEADLOCK FALSE
CONSTANTS
  s1 = s1
  s2 = s2
  p1 = p1
  NoPane = NoPane
  N = 3
  MaxConnections = 2
  Events <- SomeEvents
  Announces <- SomeAnnounces
INVARIANTS InOrder
PROPERTIES AttestedProceeds BacklogDrains
