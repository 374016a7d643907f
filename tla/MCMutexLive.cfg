CONSTANTS
  t1 = t1
  t2 = t2
  t3 = t3
  Thread <- MCThread
  PreferWriters = TRUE
  Deadlines <- NoDeadline
  MaxRecurse = 1
  MaxStale = 1
SPECIFICATION FairSpec
PROPERTY WritersGetIn
