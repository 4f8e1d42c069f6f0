CONSTANTS
  c1 = c1
  c2 = c2
  btc = btc
  usdc = usdc
  btcSlash = btcSlash
  NoClient = NoClient
  NoSymbol = NoSymbol
  Clients <- TwoClients
  Symbols <- PlainSymbols
  Products <- TwoProducts
  ProductOf <- PlainProductOf
  Listed = {btc}
  SubscribeReplaces = FALSE
  UsdcSymbols = {usdc}
  Fallback = btc
  MaxDefinitions = 20
  RequestIds = {0}
  IdModulus = 4
  MaxRequests = 3
SPECIFICATION Spec
INVARIANTS
  SubscribedSymbolsStayInFeed
