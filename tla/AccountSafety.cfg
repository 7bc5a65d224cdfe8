\* Two requests for a code of one address and two registrations; one connection in
\* each pool, so that a single failure empties it.
SPECIFICATION FairSpec
CONSTANTS
  Calls = {k1, k2}
  Emails = {e1}
  Regs = {g1, g2}
  MaxSessions = 1
  MaxClients = 1
  MaxRpc = 1
  NoEmail = NoEmail
  NoCode = NoCode
  NoReg = NoReg
INVARIANTS TypeOK MailedCodeWorks PoolsAccounted OwnerHadCode ToldTheTruth
PROPERTIES CodeRequestAnswered
CHECK_DEADLOCK FALSE
