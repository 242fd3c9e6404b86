SPECIFICATION Spec
CONSTANTS
  Staff = {s1}
  Phones = {p1, p2}
  Contracts = {c1}
  NoOne = NoOne
  Leavers = {}
  MaxStamps = 2

INVARIANT DraftCanBeRemoved
CHECK_DEADLOCK FALSE
