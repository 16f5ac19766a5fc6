CONSTANTS
  ChannelId = 7
  WideBytes = 3
  JsonIntMax = 32767
  Entered <- MCEntered
  QueueSizes = {1, 256}
  Parts <- MCParts
  Strings <- MCStrings
  ByteValues <- MCByteValues
SPECIFICATION Spec
INVARIANT IntegerIsShown
