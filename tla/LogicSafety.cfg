\* Three calls, any of which may die, on two workers; one kind for each way
\* through Handle.
SPECIFICATION Spec
CONSTANTS
  Contexts = {c1, c2, c3}
  Workers = {w1, w2}
  Requests = {"FriendCtrl", "FriendMsg", "Login"}
  QueueMax = 2
  MayDie = {c1, c2, c3}
  NoContext = NoContext
  NoRequest = NoRequest
INVARIANTS TypeOK FinishOnce NoUseAfterDelete ReportFindsContext NoContextForgotten
PROPERTIES ImplementsService WedgedForever
SYMMETRY Symmetry
CHECK_DEADLOCK FALSE
