SPECIFICATION MCSpec
CONSTANTS
  Conn = {c1, c2}
  Request <- MCRequest
  None = None
  AcceptMayFail = FALSE
  Bounded = TRUE
  Sign = {"git"}
  Authenticate <- MCAuthenticate
  Known <- MCKnown
  First = c1
  MaxAlone = 3
  MaxShared = 2
INVARIANTS SignaturesAreBounded OnlyListAndSignReach
PROPERTIES EveryMessageAnswered
CHECK_DEADLOCK FALSE
