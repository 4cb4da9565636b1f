SPECIFICATION Spec
CONSTANTS
  LightUnits = {"lamp"}
  NoDpt = NoDpt
  NoChannel = NoChannel
  Projects <- MCProjects
  PlanOf <- MCPlanOf
  Histories <- MCHistories
INVARIANTS
  PlansTypeOK
  NothingIsGuessed
  ApprovalsHold
PROPERTIES
  IdentityKept
CHECK_DEADLOCK FALSE
