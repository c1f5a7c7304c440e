CONSTANTS
  i1 = i1  i2 = i2  l1 = l1  l2 = l2
  Incoming = {i1}
  Listening = {l1}
  EvCapacity = 1
  AppCapacity = 1
  SocketRoom = 1
  MaxReplies = 1
  MaxWritten = 2
  MaxSent = 2
SPECIFICATION FairSpec
CHECK_DEADLOCK FALSE
INVARIANT TypeOK
INVARIANT RepliesUseConnection
INVARIANT DisconnectComesLast
INVARIANT StuckOnlyByCircularWait
PROPERTY MessagesArriveInOrder
PROPERTY MessagesLeaveInOrder
PROPERTY CircularWaitStays
PROPERTY SendsUnlessStuck
