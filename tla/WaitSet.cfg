CONSTANTS
  Endpoints = {ep}
  Signals = {sig}
  EventQueues = {eq}
  MaxMembers = 3
  MaxSenders = 2
  Capacity = 1
  NoSource = NoSource
SPECIFICATION Spec
VIEW RingView
INVARIANTS WaitSetInv ReadinessRemembered
CHECK_DEADLOCK FALSE
