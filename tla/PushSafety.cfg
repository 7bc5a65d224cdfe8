\* Three pushes on two workers towards one gate, one call may die.
SPECIFICATION FairSpec
CONSTANTS
  Contexts = {c1, c2, c3}
  Workers = {w1, w2}
  Gates = {g1}
  MayDie = {c1}
  NoContext = NoContext
  NoGate = NoGate
  NoStub = NoStub
INVARIANTS TypeOK OneStubPerWorker
PROPERTIES ImplementsPush SettledForever PushAnswered
CHECK_DEADLOCK FALSE
