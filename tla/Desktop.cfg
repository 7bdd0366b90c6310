SPECIFICATION Spec
CONSTANTS
  Jobs = {"j1", "j2"}
  Numbers = {"", "n1"}
  Passwords = {"", "p1"}
  TypedFiles = {"doc", "wide"}
  Wide = {"wide"}
  MaxNotices = 2
  AddressTexts = {"", "a", "b", "1", "2", "wide", "raw", "null"}
  FirstBooks <- MCFirstBooks
  Entered = {"a", "1", "wide"}
  MaxRows = 4
  MaxBookChanges = 3
  LogNames = {"", "log1", "log2", "wide"}
  LOGFILE_MARK_COUNT = 2
  MaxLogSteps = 4
  Starts = {"s1", "s2", "s3"}
  LineNames <- MCLineNames
  Values <- MCValues
  Foreign <- MCForeign
  Utf8Texts <- MCUtf8Texts
  Codesets = {"utf-8", "8859-1", "ascii"}
  Utf8 = "utf-8"
  Locales <- MCLocales
  Has <- MCHas
  Encode <- MCEncode
  Decode <- MCDecode
  KeySets <- MCKeySets
  HomeFiles <- MCHomeFiles
  SharedFiles <- MCSharedFiles
  Typed <- MCTyped
  MaxEdits = 1
  MaxSettingSteps = 2
CHECK_DEADLOCK FALSE
INVARIANTS AskedIsDialled LogIsSound OneInstance RunsAsAgreed
PROPERTIES BookIsKept SettingsKept
