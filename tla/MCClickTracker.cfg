\* Two requests race for one link; two clicks fill the channel.  The worker and
\* main are scheduled, the handlers need not be.
CONSTANTS
  Ids = {i1}
  Requests = {r1, r2}
  ChanCap = 2
  CleanEvery = 2
  Minute = 1
SPECIFICATION FairSpec
INVARIANTS
  TypeOK
  ClicksConserved
  ClosedAfterHandlers
  NoneWaitForWorker
PROPERTIES
  ClicksAreAttempted
  SuppressionEnds
  ShutdownEnds
CHECK_DEADLOCK FALSE
