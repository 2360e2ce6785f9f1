SPECIFICATION FairSpec
CONSTANTS
  Callers = {"touch", "gpu"}
  Touch = "touch"
  L35 = "L35"
  L43 = "L43"
  Regs = {"L35", "L43", "buck6"}
  Vals = {0, 1}
  Capacity = 2
  ApmTries = 3
  MaxProbes = 2
  MaxCycles = 2
CHECK_DEADLOCK FALSE
INVARIANTS TouchPowered
PROPERTIES WorkEnds
