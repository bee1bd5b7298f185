SPECIFICATION Spec
CONSTANTS
  r1 = r1
  r2 = r2
  r3 = r3
  k1 = k1
  k2 = k2
  k3 = k3
  Requests <- MCRequests
  Keys <- MCKeys
  MaxConcurrency = 2
  MaxStops = 2
  Conversation = Conversation
  NoRequest = NoRequest
SYMMETRY Symmetry
INVARIANTS PlacesRespected RegistryTrue AbortIsForTheSpeakers
PROPERTIES FailureShown
CHECK_DEADLOCK FALSE
