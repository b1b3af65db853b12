SPECIFICATION Spec
CONSTANTS
  Imei <- OneImei
  Trip <- Trips4
  Gps <- Gps3
  None = None
  GapThreshold = 1
  StaleAge = 1
  FetchLimit = 2
  MaxEvents = 4
  MaxFaults = 0
  TimeOrdered = TRUE
  CommitOrdered = TRUE
INVARIANT TripsDisjoint CountedInOneTrip EndEventMatches NothingSkipped
