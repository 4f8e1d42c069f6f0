CONSTANTS
  h1 = h1
  h2 = h2
  btc = btc
  eth = eth
  Callers <- OneCaller
  Products <- OneProduct
  Overlap = FALSE
  MaxConnects = 2
SPECIFICATION TalkingSpec
INVARIANTS
  TypeOK
  SslInUseIsAlive
  OneWriter
  NotificationsAreTrue
  LostSocketsAreFailedConnects
PROPERTIES
  OwnerCallsReturn
  CallsReturn
  ImplementsFairSession
