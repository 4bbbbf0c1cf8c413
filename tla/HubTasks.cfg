SPECIFICATION HubSpec
CONSTANTS
  a1 = a1  a2 = a2  a3 = a3  p1 = p1  p2 = p2
  m1 = m1  m2 = m2
  Panes = {p1, p2}
  Agents = {a1, a2, a3}
  PaneOf <- Replaced
  Ids = {m1, m2}
  Addressees <- SendTo2
  Topics = {}
  Scopes = {}
  BodySizes = {1}
  RetireReasons = {"Cancelled"}
  ClaimTtls = {}
  Unbound = Unbound  NoRecipient = NoRecipient  NoTime = NoTime
  MaxDeliver = 1  MaxPerRecipient = 2  MaxMessages = 2  MaxBodyBytes = 1
  HistoryPerPane = 1  MaxHistoryMessages = 1  MaxHistoryBytes = 1
  HistoryBodyTtl = 1
  DedupWindow = 1  DedupMaxIds = 1  RatePerMinute = 1  RateWindow = 1
  MaxOffersPerScope = 1  MinClaimTtl = 1  MaxClaimTtl = 1  OfferAssignWait = 1
  MaxPosts = 3  MaxTime = 0  MaxReserved = 2  MaxHandOvers = 1
  Senders = {a1}  Workers = {p2}
SYMMETRY IdSymmetry
INVARIANTS NoOrphans ReservationsExact DeckRoom
PROPERTIES RefusedSupersedesNothing
CHECK_DEADLOCK FALSE
