SPECIFICATION Spec
CONSTANTS
  NoStage = NoStage
  NoSlot = NoSlot
  Plan <- MCPlan
  Pool = "bundles"
  Handler = "handler"
  Stages = {"index", "bundles", "handler"}
  Workers = {w1}
  w1 = w1
  Slots = {s1, s2}
  s1 = s1
  s2 = s2
  MaxReports = 1
INVARIANTS TypeOK ServedIsReady
PROPERTIES NeverShowsOlder PageOpens
CHECK_DEADLOCK FALSE
