SPECIFICATION PartSpec
CONSTANTS
  None = None
  Bodies <- CaseBodies
  Hours <- TwoHours
  Tcms <- BoundaryTcms
  Readings <- CaseReadings
  RouteSets <- CaseRoutes
  Shades <- CaseShades
  Listings <- HotelListings
  Places <- HotelPlaces
  Weightings <- CaseWeights
  Scale = 60
  MinimumUsable = 2
  MinimumComplete = 2
  Requests <- CaseRequests
  Answers <- CaseAnswers
  Fixtures <- CaseFixtures
  Scenarios = 2
  Hotels = 1
  CallBudget = 6
  MaxActivities = 5
  Snapshots = 2
  MaxVersion = 3
  Days = 2
INVARIANT ReplayedForThisRequest
CHECK_DEADLOCK FALSE
