SPECIFICATION FairSpec
CONSTANTS
  Callers = {c1, c2}
  Regs = {r1}
  Vals = {0, 1}
  QLen = 3
  SeqMod = 4
  Retries = 2
  MaxLag = 3
  Timely = TRUE
PROPERTY EveryCallAnswered
\* s9p_acpm_init may have failed: then no call ever starts.
CHECK_DEADLOCK FALSE
