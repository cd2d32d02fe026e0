CONSTANTS
  Posters = {p1, p2}
  Receivers = {r1}
  Payloads = {0, 1, 2}
  Capacity = 3
  NoThread = NoThread
SPECIFICATION FairSpec
INVARIANT NoLostWakeup
PROPERTY RefinesFifo
CHECK_DEADLOCK FALSE
