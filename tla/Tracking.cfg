SPECIFICATION Spec
CONSTANTS
  Instances = {i1, i2}
  Configured = {i1, i2}
  MaxCrashes = 1
  MaxOutages = 1
  Trackers = {t1}
  Shipments = {s1}
  Codes = {c1}
  NoInstance = NoInstance
  MaxReports = 2
CHECK_DEADLOCK FALSE
INVARIANT AllOrNothing
INVARIANT PositionKeepsUp
INVARIANT MarkersFollowTheRecord
PROPERTY EveryTrackerIsShown
