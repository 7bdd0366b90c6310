SPECIFICATION Spec
CONSTANTS
  Documents <- Docs
  Calls <- Both
  Options <- AnyClass
  Offers <- Modems
  SoftAA = TRUE
  NoRetry = FALSE
  Hangups <- AnyEnd
  MaxPages = 2
  MaxBad = 4
  Procs <- Two
  LockFiles <- BothFiles
  Sharing <- Lender
  Foreign <- Other
  Stale <- Left
  Crashes = 1
  Signals = 1
CHECK_DEADLOCK FALSE
INVARIANTS CallSound SuccessMeansAllSent LocksHeld
PROPERTIES PagesAnnounced ReceivedKept RobbedOnlyInRace WaitersServed
