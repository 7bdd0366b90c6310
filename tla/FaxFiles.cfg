SPECIFICATION Spec
CONSTANTS
  ByteBits = 2
  MakeUp = 3
  MAXRUNLEN = 11
  MAXPAGE = 3
  EfixJobs <- MCEfixJobs
  PageSources <- MCPageSources
  HeaderRows <- MCHeaderRows
  HDRSPCE = 2
  HDRSTRT = 1
  PageWidth = 5
  Resolutions2 <- MCResolutions
  Keystream <- MCKeystream
  RTCEOL = 3
  MaxDamage = 1
  Texts <- MCTexts
  PageHeights = {3}
  MaxDraws = 3
  Faxes = {f1}
  FolderNames = {"A", "B"}
  Base = "Inbox"
  Trash = "Trash"
  Begins <- MCBegins
  MaxFolderFaults = 1
  MaxFolders = 4
  PrintedFaxes = {g1}
  PagesOfFax = 2
  MaxJobs = 2
  MaxPrintFaults = 1
CHECK_DEADLOCK FALSE
INVARIANTS EfixTrue PageTrue TextPrinted FoldersSound SavedIsRestored PrintsKept
