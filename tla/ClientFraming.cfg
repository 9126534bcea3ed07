CONSTANTS
  CLIENT_BUF_SIZE = 14
  MaxFrames = 2
  MaxKeys = 2
  Keyboard <- SomeKeys
  Streaming <- Either
  MessagePack <- Either
SPECIFICATION Spec
INVARIANTS NothingLost
PROPERTIES InOrder Ends
CHECK_DEADLOCK FALSE
