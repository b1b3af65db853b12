SPECIFICATION Spec
CONSTANTS
  Imei <- OneImei
  Trip <- Trips6
  Gps <- Gps2
  None = None
  GapThreshold = 1
  StaleAge = 1
  FetchLimit = 2
  MaxEvents = 3
  MaxFaults = 1
  TimeOrdered = FALSE
  CommitOrdered = FALSE
INVARIANT TypeOK OneOpenTrip CountedOnce EventsWithinTrip
PROPERTY CursorAdvances ClosedIsFinal KeepsPromise
