CONSTANTS
  h1 = h1
  h2 = h2
  btc = btc
  eth = eth
  Callers <- OneCaller
  Products <- OneProduct
  Overlap = TRUE
  MaxConnects = 2
SPECIFICATION FairSpec
INVARIANTS
  OneThreadInSsl
  TickerProductsAreActive
  CallbacksFindTheirListener
  NobodyOutlivesTheClient
PROPERTIES
  OwnerCallsReturn
  LostConnectionIsNoticed
