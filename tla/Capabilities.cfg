SPECIFICATION Spec
CONSTANTS
  c1 = c1
  c2 = c2
  c3 = c3
  o1 = o1
  CSpaces = {c1, c2}
  Root = c1
  L1_SIZE = 2
  L2_SIZE = 2
  max_slots <- QuotaSmall
  Objects = {o1}
  AllRights = {"INSERT"}
  Cpus = {1}
  Masks = {{}, {"INSERT"}}
  Tokens = {}
  CSpaceDeaths = "isolated"
  OneThread = FALSE
  DistinctCaps = TRUE
  RoomToCreate = TRUE
  MaxTransfer = 2
INVARIANTS SlotsInv TransferAllOrNothing RefCountExact
PROPERTY ImplementsForest
CHECK_DEADLOCK FALSE
