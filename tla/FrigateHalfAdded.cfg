SPECIFICATION BridgesSpec
CONSTANTS
  j1 = j1
  j2 = j2
  near = near
  far = far
  gate = gate
  c1 = c1
  c2 = c2
  NoOp = NoOp
  NoHost = NoHost
  Op = {j1, j2}
  Host = {near, far}
  Scenes <- MCScenes
  MaxKey = 3
  MaxJobs = 1
  MaxFaults = 1
  MaxCrashes = 0
  Gateway = {gate}
  ConfigNode = {c1, c2}
  UserNode = {node}
  Plans <- MCPlans
  Present = {"addon", "url"}
  MqttReady = TRUE
  MaxSurprises = 0
  p1 = p1
  p2 = p2
  Plate = {p1, p2}
  Report = {r1, r2}
  Lists <- MCLists
  First <- MCFirst
  Budgets <- MCBudgets
  REPEAT_SECONDS = 2
  MaxTime = 3
  MaxUnanswered = 1
  MaxStops = 1
INVARIANT HalfAddedNeverLingers
CHECK_DEADLOCK FALSE
