\* A disk that works, worker threads that start, files that may fail to convert.
SPECIFICATION FairSpec
CONSTANTS
  doc = doc
  printJob = printJob
  NoItem = NoItem
  Items <- MCItems
  SocketItems <- MCSocketItems
  NFiles <- MCNFiles
  Faults <- ConversionFaults
  MaxCalls = 2
INVARIANTS NothingLeftBehind
PROPERTIES StandbyKept SendsEnd QuitFollowsChild
