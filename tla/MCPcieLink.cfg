SPECIFICATION FairSpec
CONSTANT INTx = {a, b, c, d}
INVARIANTS NoPulseLost DeadLinkNotUsed HandlerHasRegs
PROPERTIES AssertionServed
CHECK_DEADLOCK FALSE
