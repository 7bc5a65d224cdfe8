\* Every flag of at most four characters, two users, two heartbeats.
SPECIFICATION Spec
CONSTANTS
  Chars = {"x", "y", "|"}
  Delim = "|"
  MaxFlag = 4
  Uids = {u1, u2}
  Beats = {b1, b2}
  Nowhere = Nowhere
INVARIANTS TypeOK SplitRight ListedIsRouted
CHECK_DEADLOCK FALSE
