\* Liveness: gates may die; fair threads and broker.
SPECIFICATION FairSpec
CONSTANTS
  Contexts = {c1, c2}
  Workers = {w1, w2}
  Requests = {"FriendCtrl", "FriendMsg", "Login"}
  QueueMax = 2
  MayDie = {c1}
  NoContext = NoContext
  NoRequest = NoRequest
PROPERTIES AnsweredOrReported PollAnswers
CHECK_DEADLOCK FALSE
