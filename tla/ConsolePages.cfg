SPECIFICATION FairSpec
CONSTANTS
  Catalogue <- Pages
  LeftStale <- PanelsLeftStale
  Pretends <- RefusalsHidden
  Overtaken <- PanelsOvertaken
  MixesRows <- DialogsThatMix
  Doubled <- SentTwice
  MaxEvents <- Clicks
  MaxFailures = 1
  MaxBoth <- InAll
INVARIANTS
  TypeOK
  
  SeesOwnWrites
  ShowsOnlyDone
  ShowsItsOwnRow
  OneAtATime
PROPERTIES
  BecomesUsable
CHECK_DEADLOCK FALSE
