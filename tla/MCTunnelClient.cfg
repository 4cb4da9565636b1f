SPECIFICATION FairSpec
CONSTANTS
  Request = {stream, exchange}
  stream = stream
  exchange = exchange
  Stream = {stream}
  MaxSessions = 3
  MaxToggles = 3
INVARIANTS
  TypeOK
  GateFollowsOption
  DisabledServesNothing
  UnloadedStaysSilent
  SupervisorLives
  OwnSessionOnly
  LocalWorkGoesOn
  ReauthOncePerSession
PROPERTIES
  OptionApplied
  ConnectionsReleased
CHECK_DEADLOCK FALSE
