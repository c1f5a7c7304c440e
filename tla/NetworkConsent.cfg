CONSTANTS
  p1 = p1  p2 = p2
  Pubkey = {p1, p2}
  Me = p1
  Name = {p1, p2}
  TmpName = tmp
  Topic = {}
  Conn <- BothWays
  NameOf <- KeyNames
  ConfigOf <- OneAsks
  TimeSteps <- HundredSeconds
  MaxTime = 200
  MaxCuts = 0
  MaxDials = 1
SPECIFICATION FairSpec
CHECK_DEADLOCK FALSE
INVARIANTS TypeOK ActiveByConsent
PROPERTIES PeerIsSyncNode DialsPeer
