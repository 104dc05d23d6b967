SPECIFICATION Spec
CONSTANTS
  Rankings = {r1, r2}
  Components = {"night", "day", "hot_hours"}
  Days = 2
  Budget = 3
  HasFixture = TRUE
  None = None
INVARIANTS
  PresentedAsCurrent
