CONSTANTS
  MaxSessions = 2
  TimeLimits = {TRUE}
  ManualReconnect = FALSE
  CallsInCycleBegin = FALSE
  MaxCalls = 2
SPECIFICATION FairSpec
CHECK_DEADLOCK FALSE
INVARIANTS DetachedExactlyOnce FlagsMatchSocket NeverForgotten PlannedOnlyWhenDown
PROPERTIES EndedIsDetached TimersAreServed
