SPECIFICATION FairSpec
CONSTANTS
  Events = {e1, e2}
  Pollers = {p1, p2}
  NoEvent = NoEvent
  MaxFaults = 2
  MaxCrashes = 1
CHECK_DEADLOCK FALSE
INVARIANT SingleDispatcher
INVARIANT ProcessedIsQueued
INVARIANT AttemptsExplained
PROPERTY ClaimsOnlyDue
 
