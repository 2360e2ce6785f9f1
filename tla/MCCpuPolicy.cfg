SPECIFICATION PolicySpec
CONSTANTS
  Last = 1
  UpAt <- MCUpAt
  Hyst = 8
  Hold = 1
  Readings = {10, 20}
  NoReading = NoReading
  MaxRefusals = 0
  Table = {1, 2, 3, 4}
  MaxKhz <- MCMaxKhz
  Cores = 1
  BigCap <- MCBigCap
  SafeMax = 3
  IdleEnterPolls = 2
INVARIANTS PolicyTypeOK LimitsInForce
PROPERTIES CapsReachClock FloorIsLetGo
