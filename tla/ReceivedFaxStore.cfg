\* Every failure of the directories, and power failures at any step.
SPECIFICATION FairSpec
CONSTANTS
  MaxFaxes = 2
  MaxPages = 3
  n1 = n1
  n2 = n2
  n3 = n3
  NoName = NoName
  Names <- MCNames
  Faults <- AllFaults
INVARIANTS NothingLost FaxesApart
PROPERTIES FiledOnce
