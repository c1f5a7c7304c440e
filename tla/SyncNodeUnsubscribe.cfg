CONSTANTS
  k1 = k1  k2 = k2  c1 = c1  c2 = c2  n1 = n1  n2 = n2  t1 = t1  t2 = t2
  Me = me  MyName = n1
  Pubkey = {me, k1}
  Conn = {c1}
  Name = {n1}
  TmpName = tmp
  Topic = {t1}
  Configs <- PublicConfig
  Messages <- NoMessages
  TimeSteps <- NoSteps
  MaxTime = 0
  MaxUnanswered = 0
SPECIFICATION Spec
INVARIANT UnsubscribeRemoves
