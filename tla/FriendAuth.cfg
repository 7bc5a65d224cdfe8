SPECIFICATION Spec
CONSTANTS
  alice = alice
  bob = bob
  Users <- MCUsers
  Workers = {w1}
  Friends <- NoFriends
  NoRequest = NoRequest
  MaxRequests = 2
INVARIANT PendingCanBeDecided
SYMMETRY WorkerSymmetry
CHECK_DEADLOCK FALSE
