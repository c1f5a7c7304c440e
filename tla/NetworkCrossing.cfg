CONSTANTS
  p1 = p1  p2 = p2
  Pubkey = {p1, p2}
  Me = p1
  Name = {p1, p2}
  TmpName = tmp
  Topic = {}
  Conn <- BothWays
  NameOf <- KeyNames
  ConfigOf <- AllPublic
  TimeSteps <- NoSteps
  MaxTime = 0
  MaxCuts = 1
  MaxDials = 2
SPECIFICATION FairSpec
CHECK_DEADLOCK FALSE
INVARIANTS QuietPeersAgree HostsSurvive
PROPERTIES DialsPeer
