SPECIFICATION MCSpec
CONSTANTS
  Key <- Addresses
  Cost = 2
  Burst = 4
  Threshold = 6
  MaxBack = 1
  MaxNow = 8
  Unknown <- Missing
  Reading <- Carried
  StartTime <- Starts
  MaxEvents = 3
  Hinted <- HeavyAndLight
  MaxHits = 1
  MaxChallans = 4
  Number <- Numbers
  Request <- Lookups
CHECK_DEADLOCK FALSE
INVARIANT TypesOK WindowBound SplitInvisible OdometerTelescopes MetricsMatch HeavierRanksHigher InsertedOnce
PROPERTY MoreIsNeverBetter
