SPECIFICATION Spec
CONSTANTS
  Event = {1}
  Worker = {w1, w2}
  NoWorker = none
  BatchSize = 1
  Lease = 1
  MaxDispatch = 2
  RetryDelay <- MCRetryDelay
PROPERTIES OnlyOwnerAcknowledges
