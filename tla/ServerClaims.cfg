CONSTANTS
  c1 = c1
  c2 = c2
  btc = btc
  usdc = usdc
  btcSlash = btcSlash
  NoClient = NoClient
  NoSymbol = NoSymbol
  Clients <- OneClient
  Symbols <- PlainSymbols
  Products <- TwoProducts
  ProductOf <- PlainProductOf
  Listed = {btc, usdc}
  SubscribeReplaces = FALSE
  UsdcSymbols = {usdc}
  Fallback = btc
  MaxDefinitions = 20
  RequestIds = {0, 1}
  IdModulus = 4
  MaxRequests = 3
SPECIFICATION Spec
INVARIANTS
  DelistedWereRefused
  SubscribedIdsAreUnique
  UnsubscribedProductsStop
