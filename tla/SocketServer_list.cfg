\* The removal of a queued job while another is received.
SPECIFICATION Spec
CONSTANTS
  Jobs <- TwoJobs
  Ports <- TwoPorts
  Configs <- OneConfig
  MaxCount = 2
  MaxPending = 1
  Acts <- Removals
  Faults <- NoFaults
  NoJob = NoJob
  NoPort = NoPort
  j1 = j1
  j2 = j2
  j3 = j3
  j4 = j4
  p1 = p1
  p2 = p2
INVARIANTS
  SavedIsQueue
CHECK_DEADLOCK FALSE
