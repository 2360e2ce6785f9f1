SPECIFICATION FairSpec
CONSTANTS
  Buffers = {b1, b2, b3}
  Sboot = Sboot
  Black = Black
  None = None
  HaveDsim = TRUE
  HaveBlack = TRUE
  TimelyTE = TRUE
  ParamsWhileOff = FALSE
INVARIANTS ScannedNotDrawn OffIsDark OnIsLit
PROPERTIES LastFlipShows EventIsSent ScreenImplemented
