CONSTANTS
  p1 = p1  p2 = p2
  Pubkey = {p1, p2}
  Me = p1
  Name = {p1, p2}
  TmpName = tmp
  Topic = {}
  Conn <- OneWay
  NameOf <- KeyNames
  ConfigOf <- AllPublic
  TimeSteps <- HundredSeconds
  MaxTime = 200
  MaxCuts = 0
  MaxDials = 1
SPECIFICATION Spec
CHECK_DEADLOCK FALSE
INVARIANT PeerInitNeedsNoKnownSender
