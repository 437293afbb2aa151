SPECIFICATION FairSpec
CONSTANTS
  Ids = {1, 2, 3, 4, 5}
  MAX_PAGE_LIMIT = 2
  DEFAULT_PAGE_LIMIT = 1
  Limits <- MCLimits
  NoLimit = NoLimit
  NoCursor = NoCursor
  MaxClock = 1
CHECK_DEADLOCK FALSE
INVARIANT TypeOK
INVARIANT PaginationInv
INVARIANT NothingSkipped
PROPERTY NoRepeats
PROPERTY WalkEnds
