SPECIFICATION MCSpec
CONSTANTS
  r1 = r1
  r2 = r2
  r3 = r3
  i1 = i1
  i2 = i2
  Key <- Keys
  Request <- Requests
  None = None
  MaxKeys = 2
  Token <- Tokens
  Refresh <- Refreshes
  NoToken = NoToken
  ApiRequest <- Requests
  Id <- Ids
  NoId = NoId
  DayTicks = 2
  MonthTicks = 4
  MonthsBack = 1
  MaxNow = 5
SYMMETRY Symmetry
CHECK_DEADLOCK FALSE
INVARIANT TypesOK ReportsAgree SeriesAddUp LimitHolds OneHeir SingleUse
