SPECIFICATION HttpSpec
VIEW View
CONSTANTS
  None = None
  Empty = Empty
  NotJson = NotJson
  NotArray = NotArray
  Requests <- MCRequests
  Responses <- MCResponses
  MaxRetries = 1
  MaxRedirects = 1
  Limit = 3
  HasIdle = TRUE
  MaxBytes = 7
  MaxEvents = 3
  Keys = {k1, k2, k3, k4, k5, k6, k7, k8, k9}
  Capacity = 4
  NoKey = NoKey
CHECK_DEADLOCK FALSE
INVARIANTS
  WireBounded
  DecodedFaithfully
  CapExact
  ResumesAfterLastItem
  CacheExact
  VictimExact
PROPERTIES
  ReplaceProgress
