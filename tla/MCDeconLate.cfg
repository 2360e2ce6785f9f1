SPECIFICATION Spec
CONSTANTS
  Buffers = {b1, b2, b3}
  Sboot = Sboot
  Black = Black
  None = None
  HaveDsim = TRUE
  HaveBlack = TRUE
  TimelyTE = FALSE
  ParamsWhileOff = FALSE
INVARIANT TearFree
