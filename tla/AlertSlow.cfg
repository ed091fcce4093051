SPECIFICATION FairSpec
CONSTANTS
  Event = {1}
  Message = {1, 2}
  Worker = {w1, w2}
  EventOf <- MCEventOf
  NoRecord = noRecord
  NoMessage = noMessage
  Lease = 1
  Retention = 2
  MaxHold = 2
INVARIANTS LeaseExclusion HolderOwns
PROPERTIES LiveClaimRespected CompletionKept CompletedNotRepeated ImplementsAtLeastOnce EventuallySettled
