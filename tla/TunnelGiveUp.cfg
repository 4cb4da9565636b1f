SPECIFICATION Spec
CONSTANTS
  Request = {stream, exchange}
  stream = stream
  exchange = exchange
  Stream = {stream}
  MaxSessions = 3
  MaxToggles = 3
INVARIANT GivingUpAborts
CHECK_DEADLOCK FALSE
