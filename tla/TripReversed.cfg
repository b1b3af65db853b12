SPECIFICATION Spec
CONSTANTS
  Imei <- OneImei
  Trip <- Trips6
  Gps <- Gps2
  None = None
  GapThreshold = 1
  StaleAge = 1
  FetchLimit = 2
  MaxEvents = 3
  MaxFaults = 0
  TimeOrdered = FALSE
  CommitOrdered = TRUE
INVARIANT TripsDisjoint
