SPECIFICATION Spec
CONSTANTS
  t1 = t1
  t3 = t3
  g1 = g1
  g2 = g2
  o1 = o1
  q1 = q1
  q2 = q2
  p1 = p1
  Tasks = {t1, t3}
  Generations = {g1, g2}
  Worker <- Replaced
  Pane <- OnePane
  Orchestrators = {o1}
  Orchestrator <- OneOrchestrator
  MaxCancelled = 1
  MaxLate = 1
  Posters = {}
  Restarted = {p1}
  Leaving = {}
INVARIANTS WatchedReportable EndToldOnce EndIsTold AckCorrects CorrectionHasCause ClaimsExact NoneOpenForTheGone
CHECK_DEADLOCK FALSE
