SPECIFICATION Spec
CONSTANTS
  Analyses = {a1, a2}
  Hours = {1, 2}
  Budget = 7
  MaxConcurrency = 2
  Fixtures <- HourFixture
  None = None
INVARIANT
  RefusedBeforeSpending
