SPECIFICATION PartSpec
CONSTANTS
  Rankings = {r1, r2}
  Components = {"night", "day", "hot_hours"}
  Days = 2
  Budget = 2
  HasFixture = TRUE
  None = None
  Hours = {1, 2}
  TripBudget = 7
  MaxConcurrency = 2
  Fixtures <- HourFixture
  MaxFaults = 2
INVARIANTS
  TypeOK
  UnitsMatchCalls
  WarmRankingPaysNoTcm
  PaidEvidenceIsKept
  SharedIsLive
  OnlySharedTcmIsOld
  RefusalSurfaces
  NoCallOutlivesRanking
  TripUnitsMatchCalls
  AdmittedAloneFinishes
  NoCallOutlivesAnalysis
  FreshMeansLive
SYMMETRY RankingSymmetry
