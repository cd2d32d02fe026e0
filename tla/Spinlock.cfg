CONSTANTS
  CPUs = {c1, c2, c3}
  TicketMod = 4
SPECIFICATION FairSpec
PROPERTIES
  ServedInOrder
  Served
