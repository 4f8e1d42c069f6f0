CONSTANTS
  c1 = c1
  c2 = c2
  btc = btc
  usdc = usdc
  btcSlash = btcSlash
  NoClient = NoClient
  NoSymbol = NoSymbol
  Clients <- TwoClients
  Symbols <- SlashSymbols
  Products <- OneProduct
  ProductOf <- SlashProductOf
  Listed = {btc}
  SubscribeReplaces = FALSE
  UsdcSymbols = {btcSlash}
  Fallback = btc
  MaxDefinitions = 0
  RequestIds = {0}
  IdModulus = 2
  MaxRequests = 2
SPECIFICATION FairSpec
INVARIANTS
  TypeOK
  SubscribedSymbolsHaveIds
PROPERTIES
  ImplementsService
  ImplementsFairService
