SPECIFICATION FairSpec
CONSTANTS
  Slots = {s1, s2}
  MaxFaults = 2
  VccComesOn = TRUE
INVARIANTS TypeOK NexusRight
PROPERTIES Recovers
