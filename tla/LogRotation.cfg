CONSTANTS
  handler1 = handler1
  Main = main
  Handler = signal
  Nobody = Nobody
  Threads <- TwoThreads
  Settings = {2}
  SizeLimit = 1
  MaxLines = 2
  MaxStarts = 1
SPECIFICATION FairSpec
PROPERTIES
  LogsRotateAtTheLimit
