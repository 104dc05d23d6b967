SPECIFICATION PartSpec
CONSTANTS
  Budget = 2
  EnrichmentBudget = 1
  Days = 2
  Calls = {c1, c2, c3, p1}
  PastCalls = {p1}
  None = None
  \* with restarts: a core budget of one call and a single day
  RestartBudget = 1
  RestartDays = 1
  \* enrichment: a tick is a day, entries and tokens are good for one
  RequestDays = 3
  Ttl = 1
  TokenTtl = 1
  TicksPerDay = 1
  MaxTime = 2
INVARIANTS
  TypeOK
  CoreBudgetRespected
  EnrichmentBudgetRespected
  ReservationsMatchCalls
  NoUnseenActivity
  OneRecordPerActivity
  FileCompleteAtRest
  OnlyLostForgotten
  OverspendBoundedByLoss
  UncountedOnlyAfterFailure
  UnaskedPaymentNeedsRace
  FreshAnswersAreRecent
PROPERTIES
  ImplementsCallBudget
  AppendOnly
SYMMETRY NewCallSymmetry
