CONSTANTS
  Clients = {c1, c2}
  Servers = {s1}
  Settled = TRUE
  Deferring = FALSE
  StopStates = {"Blocked"}
  Ep = Ep
  Null = Null
SPECIFICATION FairSpec
INVARIANTS QueuesInv ReplyMatches
PROPERTY CallReturns
CHECK_DEADLOCK FALSE
