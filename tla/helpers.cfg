SPECIFICATION Spec
CONSTANTS
  None = None
  Raised = Raised
  Pending = Pending
  Values <- MCValues
  Limit = 5
  Kept = 4
  VersionLimit = 3
  Plural <- MCPlural
  Hash <- MCHash
CHECK_DEADLOCK FALSE
INVARIANTS
  RepliesButForPrefixes
  KeyMakesNoDifference
  IsoTextsReadBack
  StylesNameOneSecond
  ApiTextsReadBack
  NamesNormalized
  
  ServicesKeptApart
