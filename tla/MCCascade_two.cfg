CONSTANTS
  gemini = gemini  groq = groq
  c1 = c1  c2 = c2
  Models <- Two
  Calls = {c1, c2}
  Threshold = 2
  Base = 1
  MaxTimeout = 2
  MaxTrips = 2
SPECIFICATION FairSpec
INVARIANTS BreakersSound
PROPERTIES CallsEnd Recovers
CHECK_DEADLOCK FALSE
