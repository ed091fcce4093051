SPECIFICATION FairSpec
CONSTANTS
  Event = {1}
  Worker = {w1, w2}
  NoWorker = none
  BatchSize = 1
  Lease = 3
  MaxDispatch = 2
  RetryDelay <- MCRetryDelay
INVARIANTS AcknowledgementAccepted OneWorkerPerEvent
PROPERTIES EventuallyPublished EveryFailureCounted
