SPECIFICATION FairSpec
CONSTANTS
  job1 = job1
  job2 = job2
  customer = customer
  driver = driver
  NoJob = NoJob
  Users = {customer, driver}
  UserOf <- MCUserOf
  MailConfigured = TRUE
  MaxStalledCount = 1
  Jobs = {job1, job2}
  Workers = {w1, w2}
  LookupsMayFail = TRUE
  UsersMayVanish = TRUE
  EmitsMayFail = TRUE
  MaxLosses = 3
CHECK_DEADLOCK FALSE
INVARIANT TypeOK
INVARIANT OneOwner
INVARIANT AtMostOncePerStart
PROPERTY EveryJobEnds
