SPECIFICATION MCSpec
CONSTANTS
  u1 = u1  u2 = u2  u3 = u3  u4 = u4
  a = a  b = b  c = c  d = d  cred = cred
  Unit <- Units4
  Rank <- MCRank
  Name = {a, b, c, d}
  Malformed = Malformed
  Version = {1, 2}
  Unversioned = Unversioned
  Credential = {cred}
  Catalog <- MCCatalog
INVARIANTS TypeOK ProvidersFirst SmallestReferenceFirst CycleIsReal LayersStack
PROPERTIES ImplementsContract Resolves
CHECK_DEADLOCK FALSE
