SPECIFICATION Spec
CONSTANTS
  Analyses = {a1}
  Hours = {1}
  Budget = 8
  MaxConcurrency = 1
  Fixtures <- FramingFixture
  None = None
INVARIANT
  FramingReplayLabelled
