SPECIFICATION PortFairSpec
CONSTANTS
  Low = 2
  Top = 4
  MinSource = 2
  MaxWrites = 1
  FastReplug = FALSE
INVARIANTS PortTypeOK NothingMissed
PROPERTIES HostIsConnected AiclSettles OnlineIsTold
