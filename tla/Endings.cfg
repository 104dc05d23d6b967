SPECIFICATION FairPartSpec
CONSTANTS
  Analyses = {a1, a2}
  Hours = {1}
  Budget = 6
  MaxConcurrency = 1
  Fixtures <- NoFixture
  None = None
  Calls = {c1, c2, p1}
  PastCalls = {p1}
  MaxPolls = 8
  MaxFaults = 2
  Grace = 3
INVARIANT
  MissingJudgedByGrace
PROPERTIES
  AnalysesEnd
  CallsEnd
  PollingEnds
