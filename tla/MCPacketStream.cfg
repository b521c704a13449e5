SPECIFICATION StreamSpec
CONSTANTS
  ByteCount <- MCByteCount
  Header <- MCHeader
  PacketLength = 4
  PacketTypes <- MCTypes
  Lines <- MCLines
INVARIANTS
  DecodedIsGreedy
  NothingLost
PROPERTY
  FeedReturns
CHECK_DEADLOCK FALSE
