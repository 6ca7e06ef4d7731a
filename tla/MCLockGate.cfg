SPECIFICATION MCSpec
CONSTANTS
  Pattern <- MCPattern
  Universal = "all"
  Matches <- MCMatches
  Port = {443, 8443}
  NoPort = NoPort
  Method <- MCMethod
  MethodAny = "ANY"
  Segment = {"a", "b"}
  RequestPath <- MCPaths
  Phase = {"runtime"}
  Item <- MCItem
  Namespace = {"git", "file"}
  User = {"git", "root"}
  NoUser = NoUser
  SshHost = {"gh"}
  Reference = {r1, r2}
  First = r1
  Content <- EitherKits
  MayRemove = FALSE
  Down = Down
INVARIANTS LTypeOK EmptyGateStaysWithin RunsWhatIsLocked
PROPERTIES NothingWidensSilently
