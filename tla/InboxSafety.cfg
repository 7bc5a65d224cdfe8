SPECIFICATION FairSpec
CONSTANTS
  u1 = u1
  u2 = u2
  NoUser = NoUser
  Users <- MCUsers
  Topic <- MixedTopic
  Workers = {w1, w2}
  FaultKinds = {"consume", "mysql", "push"}
  MaxFaults = 1
INVARIANT TypeOK
PROPERTY DeliveredWithoutFault
CHECK_DEADLOCK FALSE
