CONSTANTS
  j1 = j1  j2 = j2  w1 = w1  w2 = w2
  Job = {j1, j2}
  Worker = {w1, w2}
  None = None
  MaxSends = 2
  MaxTicks = 0
SPECIFICATION FairSpec
PROPERTIES StopEndsLoops MailWorkedOff ClosedJobsFreed
