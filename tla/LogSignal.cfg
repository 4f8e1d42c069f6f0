CONSTANTS
  handler1 = handler1
  Main = main
  Handler = signal
  Nobody = Nobody
  Threads <- TwoThreads
  Settings = {2}
  SizeLimit = 3
  MaxLines = 2
  MaxStarts = 1
SPECIFICATION FairSpec
PROPERTIES
  SignalsAreLogged
