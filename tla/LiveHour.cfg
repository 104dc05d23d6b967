SPECIFICATION Spec
CONSTANTS
  None = None
  Hours <- TwoHours
  Bodies <- CaseBodies
  Tcms <- BoundaryTcms
  Readings <- CaseReadings
  RouteSets <- CaseRoutes
  Shades <- CaseShades
INVARIANT LiveHourIsExact
CHECK_DEADLOCK FALSE
