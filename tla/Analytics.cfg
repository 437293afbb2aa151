SPECIFICATION Spec
CONSTANTS
  NoDriver = NoDriver
  EmptyId = EmptyId
  NoCompany = NoCompany
  NoShipment = NoShipment
  ShipmentIds = {s1, s2}
  Companies = {c1, c2}
  Drivers = {d1, d2}
  HoursPerDay = 2
  Week = 1
  TopDrivers = 1
  Dawn = 3
  LastWrite = 4
  MaxClock = 7
  MaxWrites = 1
SYMMETRY AnalyticsSymmetry
CHECK_DEADLOCK FALSE
INVARIANT OverviewIsConsistent
INVARIANT TrendCoversTheWeek
INVARIANT RankingCountsTheDeliveries
