SPECIFICATION Spec
CONSTANTS
  Callers = {"little", "big", "gpu"}
  Clusters = {"little", "big"}
  Regs = {"little", "big", "buck6"}
  Vals = {0, 1}
  Capacity = 3
  Freqs = {0, 1}
  Need <- MCNeed
INVARIANTS AnsweredIsSettled RailCoversClock CurIsTheClock
PROPERTY StepImplemented
