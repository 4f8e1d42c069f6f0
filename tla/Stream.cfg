CONSTANTS
  handler = handler
  worker = worker
  Senders <- ServerThreads
  MessageTypes <- FromServer
  TextLengths <- NoText
  Chunk = 7
  MaxMessages = 3
SPECIFICATION FairSpec
CHECK_DEADLOCK FALSE
INVARIANTS
  StreamInv
  WhatIsWrittenIsRead
PROPERTIES
  ImplementsChannel
