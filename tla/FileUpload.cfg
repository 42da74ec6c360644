SPECIFICATION Spec
CONSTANTS
  r1 = r1
  r2 = r2
  r3 = r3
  Requests = {r1, r2, r3}
  TotalDays = 2
  MaxConcurrency = 1
  MaxPolls = 1
  None = None
INVARIANTS
  TypeOK
  CombinedHasEveryWav
  PlacesAreTranscriptions
PROPERTIES
  DocumentAsPromised
  RequestsEnd
CHECK_DEADLOCK FALSE
