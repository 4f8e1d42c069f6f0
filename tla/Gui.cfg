CONSTANTS
  a = a
  b = b
  NoSymbol = NoSymbol
  Symbols <- TwoSymbols
  Presets <- OnePreset
  LikelyDelisted <- OneDelisted
  IdModulus = 65536
  MaxClicks = 3
  MaxUpdates = 2
SPECIFICATION FairSpec
CHECK_DEADLOCK FALSE
INVARIANTS
  TypeOK
  NumberedUpdatesAreAttributed
PROPERTIES
  SubscribesAreAnswered
