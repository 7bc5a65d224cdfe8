SPECIFICATION FairSpec
CONSTANTS
  Slots = {"t1", "t2"}
  Topic <- MixedTopic
  Workers = {w1, w2}
  FaultKinds = {"consume", "crash", "mysql"}
  MaxFaults = 2
INVARIANTS TypeOK BoxIsConsistent UnboxedIsExplained
PROPERTY WrittenWithoutFault
CHECK_DEADLOCK FALSE
