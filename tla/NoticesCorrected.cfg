SPECIFICATION Spec
CONSTANTS
  t1 = t1
  t3 = t3
  g1 = g1
  g2 = g2
  o1 = o1
  q1 = q1
  q2 = q2
  p1 = p1
  Tasks = {t1}
  Generations = {g1}
  Worker <- SameWorker
  Pane <- OnePane
  Orchestrators = {o1}
  Orchestrator <- OneOrchestrator
  MaxCancelled = 1
  MaxLate = 1
  Posters = {}
  Restarted = {p1}
  Leaving = {}
INVARIANTS CorrectedOnce
CHECK_DEADLOCK FALSE
