SPECIFICATION Spec
CONSTANTS
  Callers = {c1, c2}
  Regs = {r1}
  Vals = {0, 1}
  QLen = 3
  SeqMod = 4
  Retries = 2
  MaxLag = 3
  Timely = FALSE
SYMMETRY Symmetry
INVARIANTS TypeOK OwnReply AwaitedIsThere
PROPERTY ServiceImplemented
\* s9p_acpm_init may have failed: then no call ever starts.
CHECK_DEADLOCK FALSE
