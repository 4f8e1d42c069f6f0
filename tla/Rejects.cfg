CONSTANTS
  handler = handler
  worker = worker
  Senders <- OneThread
  MessageTypes <- FromServer
  TextLengths <- NoText
  Chunk = 7
  MaxMessages = 2
SPECIFICATION Spec
CHECK_DEADLOCK FALSE
INVARIANTS
  SentMessagesAreReceived
