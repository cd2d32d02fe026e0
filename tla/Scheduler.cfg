CONSTANTS
  NumCpus = 2
  Threads = {t1, t2}
  Priorities = {1, 2}
  MaxSleeping = 2
  LoadMod = 8
  Affinities = {1}
  StopWhat = {"Ready", "Waiting"}
  DeleteWhat = {"Stopped", "Exited"}
  PriorityWhat = {"Self", "Created", "Stopped"}
  Settled = TRUE
  SieStays = FALSE
SYMMETRY Symmetry
SPECIFICATION Spec
INVARIANTS
  QueuesInv
  OneStack
  NoMissedWakeup
  SpinAnswered
