CONSTANTS
  handler1 = handler1
  Main = main
  Handler = signal
  Nobody = Nobody
  Threads <- TwoThreads
  Settings = {2, 3}
  SizeLimit = 3
  MaxLines = 4
  MaxStarts = 5
SPECIFICATION FairSpec
INVARIANTS
  TypeOK
  LogIsInOrder
  BackupsAreRetained
PROPERTIES
  LogCallsReturn
