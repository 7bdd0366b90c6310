SPECIFICATION FairSpec
CONSTANTS
  CallerPages <- All
  AnswererPages <- ToPoll
  Finest <- Either
  Rates <- Modems
  Channels <- AnyLine
  PeerAnswers <- Refusals
  NoRetry = FALSE
  Cuts = FALSE
  MaxFaults = 2
INVARIANTS PagesAccounted PagesMatch
PROPERTIES SessionEnds
