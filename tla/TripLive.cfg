SPECIFICATION FairSpec
CONSTANTS
  Imei <- TwoImei
  Trip <- Trips4
  Gps <- Gps2
  None = None
  GapThreshold = 1
  StaleAge = 1
  FetchLimit = 2
  MaxEvents = 2
  MaxFaults = 1
  TimeOrdered = FALSE
  CommitOrdered = FALSE
PROPERTY AllProcessed TripsEnd
