\* Every failure of the environment, power failures and restarts included.
SPECIFICATION Spec
CONSTANTS
  doc = doc
  printJob = printJob
  NoItem = NoItem
  Items <- MCItems
  SocketItems <- MCSocketItems
  NFiles <- MCNFiles
  Faults <- AllFaults
  MaxCalls = 1
INVARIANTS SessionsSound SendsTheJob RemovedAreDelivered FaxesConserved
PROPERTIES ReadersUndisturbed ImplementsService
