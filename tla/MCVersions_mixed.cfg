SPECIFICATION Spec
CONSTANTS
  Segment <- MixedSpellings
  Value <- MixedValue
  NotNumber = NotNumber
  Lex <- MixedLex
  Trimmed <- MixedTrimmed
  Zero = "0"
  Dash = "-"
  Unversioned = Unversioned
  Written <- MixedWritten
  Probe <- MixedProbe
  MaxEntries = 1
  NoBound = NoBound
INVARIANTS RefusedIsUnsatisfiable
CHECK_DEADLOCK FALSE
