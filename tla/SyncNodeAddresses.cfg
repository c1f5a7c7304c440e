CONSTANTS
  k1 = k1  k2 = k2  c1 = c1  c2 = c2  n1 = n1  n2 = n2  t1 = t1  t2 = t2
  Me = me  MyName = n1
  Pubkey = {me, k1, k2}
  Conn = {c1, c2}
  Name = {n1}
  TmpName = tmp
  Topic = {}
  Configs <- AllConfigs
  Messages <- NoMessages
  TimeSteps <- FourMinutes
  MaxTime = 240
  MaxUnanswered = 2
SPECIFICATION Spec
INVARIANTS TypeOK TodoFits PeerInitsAnswerDials PendingAwaitsHello SendsFollowBook
PROPERTY ImplementsLifecycle
