SPECIFICATION LevelSpec
CONSTANTS
  Last = 2
  UpAt <- MCUpAt
  Hyst = 8
  Hold = 2
  Readings <- MCReadings
  NoReading = NoReading
  MaxRefusals = 2
PROPERTIES SpikeHarmless LevelFollows NoFlapping
