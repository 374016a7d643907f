CONSTANTS
  t1 = t1
  t2 = t2
  t3 = t3
  Thread <- MCThread
  PreferWriters = TRUE
  Deadlines <- AnyDeadline
  MaxRecurse = 2
  MaxStale = 1
SPECIFICATION Spec
SYMMETRY Symmetry
INVARIANT MutualExclusion TotalIsSum TablesMatchCalls NoLostWakeup
