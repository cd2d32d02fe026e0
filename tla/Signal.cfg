CONSTANTS
  Senders = {s1, s2, s3}
  Waiters = {w1}
  Bits = {1, 2}
  NoThread = NoThread
SPECIFICATION FairSpec
INVARIANT
  NoLostWakeup
PROPERTY
  BitsDelivered
CHECK_DEADLOCK FALSE
