SPECIFICATION Spec
CONSTANTS
  Callers = {"gpu", "probe"}
  Regs = {"buck6"}
  Vals = {0, 1, 2}
  Capacity = 2
  Steps = {1, 2}
  Volt <- MCVolt
  Polls = 2
  Attempts = 2
  LateEnable = FALSE
INVARIANTS RailCoversGpu PublishedOnSafeRail CapHonoured OnIsUsable
\* A failed rollback of the power-off panics the kernel.
CHECK_DEADLOCK FALSE
