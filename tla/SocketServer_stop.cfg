\* A stop while the server thread has something to hand over.
SPECIFICATION FairSpec
CONSTANTS
  Jobs <- TwoJobs
  Ports <- TwoPorts
  Configs <- OnAndOff
  MaxCount = 2
  MaxPending = 1
  Acts <- Settings
  Faults <- NoFaults
  NoJob = NoJob
  NoPort = NoPort
  j1 = j1
  j2 = j2
  j3 = j3
  j4 = j4
  p1 = p1
  p2 = p2
PROPERTIES
  GuiReturns
CHECK_DEADLOCK FALSE
