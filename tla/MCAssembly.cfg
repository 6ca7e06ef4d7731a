SPECIFICATION Spec
CONSTANTS
  ReadDescriptor <- FetchDescriptor
  ReadImage <- LoadImage
  JudgeFiles <- FileCollisions
  Absent = None
  None = None
  MaxIndexDepth = 2
  MaxManifestFetches = 4
  MaxLookupSymlinks = 2
  MaxExtractSymlinks = 3
  Scenarios <- MCScenarios
  MaxInventoryLayers = 5
  MaxInventoryEntries = 7
  MaxInventoryComponents = 12
INVARIANTS ClosestPlatform ReadsBounded VerifiedAsListed WorkBounded ProgressBracketed
           CancellationDecidesNothing SnapshotIsTheEnvironment PathsAreSearched
           CollisionsAreLosses
PROPERTY AssembleReturns
CHECK_DEADLOCK FALSE
