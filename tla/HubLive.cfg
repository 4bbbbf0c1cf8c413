SPECIFICATION FairHubSpec
CONSTANTS
  a1 = a1  a2 = a2  a3 = a3  p1 = p1  p2 = p2
  m1 = m1  m2 = m2  s1 = s1  t1 = t1
  Panes = {p1, p2}
  Agents = {a1, a2, a3}
  PaneOf <- Replaced
  Ids = {m1}
  Addressees = {}
  Topics = {}
  Scopes = {s1}
  BodySizes = {1}
  RetireReasons = {"MaxDeliver"}
  ClaimTtls = {1}
  Unbound = Unbound  NoRecipient = NoRecipient  NoTime = NoTime
  MaxDeliver = 2  MaxPerRecipient = 1  MaxMessages = 2  MaxBodyBytes = 1
  HistoryPerPane = 1  MaxHistoryMessages = 1  MaxHistoryBytes = 1
  HistoryBodyTtl = 2
  DedupWindow = 2  DedupMaxIds = 1  RatePerMinute = 1  RateWindow = 2
  MaxOffersPerScope = 1  MinClaimTtl = 1  MaxClaimTtl = 1  OfferAssignWait = 1
  MaxPosts = 1  MaxTime = 1  MaxReserved = 0  MaxHandOvers = 2
  Senders = {a1}  Workers = {}
INVARIANTS OfferHandOversBounded
PROPERTIES HoldersExcluded ExitsSettle OffersMove
CHECK_DEADLOCK FALSE
