\* Two workers that may fail once, two jobs, one write by a user.
SPECIFICATION FairSpec
CONSTANTS
  w1 = w1
  w2 = w2
  j1 = j1
  j2 = j2
  Worker <- TwoWorkers
  Nobody = Nobody
  Job <- TwoJobs
  Interval <- Intervals
  DoAll <- MakesUp
  Triggered <- ByCode
  Numbercall <- Numbercalls
  MaxTime = 2
  MaxIncidents = 1
  MaxTriggers = 1
INVARIANTS
  TypeOK
  OnlyOnce
  RunsAreDue
  NumbercallKept
  TriggersKept
PROPERTIES
  DeactivationStands
  DueIsRun
CHECK_DEADLOCK FALSE
