\* A quit while a file fails to convert.
SPECIFICATION FairSpec
CONSTANTS
  doc = doc
  printJob = printJob
  NoItem = NoItem
  Items <- MCItems
  SocketItems <- MCSocketItems
  NFiles <- MCNFiles
  Faults <- ConversionFaults
  MaxCalls = 1
PROPERTIES QuitCompletes
