SPECIFICATION Spec
CONSTANTS
  Segment <- Spellings
  Value <- ValueOf
  NotNumber = NotNumber
  Lex <- LexOf
  Trimmed <- TrimmedOf
  Zero = "0"
  Dash = "-"
  Unversioned = Unversioned
  Written <- RulesWritten
  Probe <- RulesProbe
  MaxEntries = 2
  NoBound = NoBound
INVARIANTS RefusedIsUnsatisfiable AcceptedIsSatisfiable CanonicalKeepsMeaning CanonicalIsUniqueAboveAFloor
CHECK_DEADLOCK FALSE
