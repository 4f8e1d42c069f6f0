CONSTANTS
  a = a
  b = b
  NoSymbol = NoSymbol
  Symbols <- TwoSymbols
  Presets <- OnePreset
  LikelyDelisted <- OneDelisted
  IdModulus = 3
  MaxClicks = 4
  MaxUpdates = 1
SPECIFICATION Spec
CHECK_DEADLOCK FALSE
INVARIANTS
  UpdatesAreAttributed
  PanelIsTrue
  LiveDataIsShown
  SixteenBitsAreEnough
