SPECIFICATION LSpec
CONSTANTS
  Pattern <- MCPattern
  Universal = "all"
  Matches <- MCMatches
  Port = {443, 8443}
  NoPort = NoPort
  Method <- MCMethod
  MethodAny = "ANY"
  Segment = {"a", "b"}
  RequestPath <- MCPaths
  Phase = {"runtime"}
  Item <- MCItem
  Namespace = {"git", "file"}
  User = {"git", "root"}
  NoUser = NoUser
  SshHost = {"gh"}
  First = r1
  Reference = {r1, r2}
  Content <- PairKits
  MayRemove = TRUE
  Down = Down
INVARIANTS EmptyGateStaysWithin
