SPECIFICATION MCSpec
CONSTANTS
  Conn = {c1, c2}
  Request <- MCRequest
  None = None
  MaxRequests = 2
  AcceptMayFail = TRUE
INVARIANTS ATypeOK WgCountsGoroutines NoneMissed NothingOutlivesClose RegisteredWhileServed
PROPERTIES AddsBeforeWait CloseReturns
CHECK_DEADLOCK FALSE
