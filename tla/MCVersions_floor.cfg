SPECIFICATION Spec
CONSTANTS
  Segment <- Spellings
  Value <- ValueOf
  NotNumber = NotNumber
  Lex <- LexOf
  Trimmed <- TrimmedOf
  Zero = "0"
  Dash = "-"
  Unversioned = Unversioned
  Written <- FloorWritten
  Probe <- RulesProbe
  MaxEntries = 2
  NoBound = NoBound
INVARIANTS CanonicalIsUnique
CHECK_DEADLOCK FALSE
