SPECIFICATION FairSpec
CONSTANTS
  Contexts = {c1, c2}
  Workers = {w1}
  Requests = {"FriendMsg"}
  QueueMax = 1
  MayDie = {}
  NoContext = NoContext
  NoRequest = NoRequest
PROPERTY EveryCallAnswered
CHECK_DEADLOCK FALSE
