SPECIFICATION Spec
CONSTANTS
  alice = alice
  bob = bob
  Users <- MCUsers
  Workers = {w1, w2}
  Friends <- MCFriends
  NoRequest = NoRequest
  MaxRequests = 4
INVARIANTS TypeOK NoRequestToFriend DuplicatesBounded PublishedIsApplied
SYMMETRY WorkerSymmetry
CHECK_DEADLOCK FALSE
