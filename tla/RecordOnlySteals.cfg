SPECIFICATION Spec
CONSTANTS
  Budget = None
  EnrichmentBudget = 1
  Days = 1
  Calls = {c1, c2, c3, p1}
  PastCalls = {p1}
  None = None
INVARIANT
  EnrichmentBudgetRespected
