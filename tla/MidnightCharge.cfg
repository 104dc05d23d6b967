SPECIFICATION Spec
CONSTANTS
  Budget = None
  EnrichmentBudget = 1
  Days = 2
  Calls = {c1, c2, p1}
  PastCalls = {p1}
  None = None
PROPERTY
  DayOpenUntilSpent
