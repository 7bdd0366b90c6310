\* Progress of a server that is left alone but may fail.
SPECIFICATION FairSpec
CONSTANTS
  Jobs <- FourJobs
  Ports <- TwoPorts
  Configs <- OneConfig
  MaxCount = 2
  MaxPending = 1
  Acts <- NoActs
  Faults <- ServerFaults
  NoJob = NoJob
  NoPort = NoPort
  j1 = j1
  j2 = j2
  j3 = j3
  j4 = j4
  p1 = p1
  p2 = p2
CHECK_DEADLOCK FALSE
PROPERTIES JobsAnnounced
