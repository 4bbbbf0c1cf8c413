SPECIFICATION LogSpec
CONSTANTS
  a1 = a1  a2 = a2  p1 = p1  p2 = p2
  m1 = m1  m2 = m2  t1 = t1
  Panes = {p1, p2}
  Agents = {a1, a2}
  PaneOf <- TwoPanes
  Ids = {m1, m2}
  Addressees <- SendTo1
  Topics = {t1}
  Scopes = {}
  BodySizes = {1}
  RetireReasons = {"Superseded"}
  ClaimTtls = {}
  Unbound = Unbound  NoRecipient = NoRecipient  NoTime = NoTime
  MaxDeliver = 2  MaxPerRecipient = 1  MaxMessages = 2  MaxBodyBytes = 1
  HistoryPerPane = 1  MaxHistoryMessages = 1  MaxHistoryBytes = 1
  HistoryBodyTtl = 1
  DedupWindow = 2  DedupMaxIds = 1  RatePerMinute = 1  RateWindow = 2
  MaxOffersPerScope = 1  MinClaimTtl = 1  MaxClaimTtl = 1  OfferAssignWait = 2
  MaxPosts = 2  MaxTime = 2  MaxReserved = 0  MaxHandOvers = 1
INVARIANTS TypeOK EntriesDistinct DedupHolds RateHolds
PROPERTIES EndsAreTold EndedStays
SYMMETRY IdSymmetry
CHECK_DEADLOCK FALSE
