CONSTANTS
  i1 = i1  i2 = i2  l1 = l1  l2 = l2
  Incoming = {i1, i2}
  Listening = {}
  EvCapacity = 1
  AppCapacity = 1
  SocketRoom = 1
  MaxReplies = 2
  MaxWritten = 2
  MaxSent = 2
SPECIFICATION ReadingSpec
CHECK_DEADLOCK FALSE
PROPERTY SendsHappen
