SPECIFICATION Spec
CONSTANTS
  Event = {1, 2}
  Worker = {w1, w2}
  NoWorker = none
  BatchSize = 2
  Lease = 1
  MaxDispatch = 2
  RetryDelay <- MCRetryDelay
SYMMETRY Workers
INVARIANTS TypeOK PublishedWasDelivered LeaseExclusion
PROPERTIES RedeliveryNeedsExpiry ImplementsAtLeastOnce
