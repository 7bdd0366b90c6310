\* Everything the user may do and every failure, power failures included.
SPECIFICATION Spec
CONSTANTS
  Jobs <- ThreeJobs
  Ports <- TwoPorts
  Configs <- ThreeConfigs
  MaxCount = 3
  MaxPending = 2
  Acts <- AllActs
  Faults <- AllFaults
  NoJob = NoJob
  NoPort = NoPort
  j1 = j1
  j2 = j2
  j3 = j3
  j4 = j4
  p1 = p1
  p2 = p2
SYMMETRY Symmetry
CHECK_DEADLOCK FALSE
INVARIANTS PlacesNotified HandedOverOnce ServerSettled QueueSound
