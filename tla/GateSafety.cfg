\* Two users, two connections, one message or push, one crash or Redis error: enough for a
\* reconnect, for a reused address and for every order of the tasks.
SPECIFICATION Spec
CONSTANTS
  Users = {u1, u2}
  Workers = {w1, w2}
  Addresses = {a1, a2}
  MaxTokens = 2
  MaxConns = 2
  MaxSends = 1
  MaxFaults = 1
  NoUser = NoUser
  NoAddress = NoAddress
INVARIANTS TypeOK ConnectedIsReachable GoneIsForgotten StaleSocketExplained
PROPERTIES SpentTokenRefused
CHECK_DEADLOCK FALSE
SYMMETRY Symmetry
CONSTRAINT Sound
