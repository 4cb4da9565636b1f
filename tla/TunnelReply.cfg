SPECIFICATION Spec
CONSTANTS
  Request = {stream, exchange}
  stream = stream
  exchange = exchange
  Stream = {stream}
  MaxSessions = 3
  MaxToggles = 3
INVARIANT RepliesStayOnSession
CHECK_DEADLOCK FALSE
