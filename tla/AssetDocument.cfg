SPECIFICATION DocumentSpec
CONSTANTS
  Assets <- MCAssets
  TextOrder <- MCTextOrder
  Stripped <- MCStripped
  Cut <- MCCut
  OtherTags <- MCOtherTags
  MaxRounds = 2
  MaxTags = 3
INVARIANTS
  ShownAgain
  NothingLost
  NothingInvented
  RefusedRightly
CHECK_DEADLOCK FALSE
