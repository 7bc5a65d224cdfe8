SPECIFICATION Spec
CONSTANTS
  u1 = u1
  u2 = u2
  NoUser = NoUser
  Users <- MCUsers
  Topic <- PairTopic
  Workers = {w1, w2}
  FaultKinds = {"crash", "redis", "cassandra"}
  MaxFaults = 1
INVARIANTS SeqNamesOneMessage CopiesBounded
SYMMETRY Symmetry
CHECK_DEADLOCK FALSE
